------------------------------ MODULE ListProofs ------------------------------
(***************************************************************************)
(* The lists of utlist.h, each with any constants: the three kinds follow  *)
(* the same order, and each macro does to it what it promises.             *)
(***************************************************************************)
EXTENDS ContainersProofs

-----------------------------------------------------------------------------
(* Sequences after one element enters or leaves *)

LEMMA EnteredIs ==
  ASSUME NEW t \in Seq(Elts), NEW i \in 1 .. Len(t) + 1, NEW e \in Elts
  PROVE  LET v == List!Order!Enter(t, i, e)
         IN  /\ v \in Seq(Elts) /\ Len(v) = Len(t) + 1
             /\ \A j \in 1 .. Len(t) + 1 :
                  v[j] = IF j < i THEN t[j] ELSE IF j = i THEN e ELSE t[j - 1]
<1> DEFINE one == <<e>>
           left == SubSeq(t, 1, i - 1)
           right == SubSeq(t, i, Len(t))
           lone == left \o one
           v == List!Order!Enter(t, i, e)
<1>0. Len(t) \in Nat /\ i \in Nat /\ \A j \in 1 .. Len(t) : t[j] \in Elts
  BY LenProperties, ElementOfSeq
<1>1. v = lone \o right
  BY DEF List!Order!Enter
<1>2. one \in Seq(Elts) /\ Len(one) = 1 /\ one[1] = e
  OBVIOUS
<1>3. left \in Seq(Elts) /\ Len(left) = i - 1 /\ \A j \in 1 .. i - 1 : left[j] = t[j]
  <2>1. /\ left \in Seq(Elts) /\ Len(left) = IF 1 <= i - 1 THEN i - 1 - 1 + 1 ELSE 0
        /\ \A j \in 1 .. i - 1 - 1 + 1 : left[j] = t[1 + j - 1]
    <3>1. 1 \in Int /\ i - 1 \in Int /\ \A j \in 1 .. i - 1 : t[j] \in Elts
      BY <1>0
    <3> QED BY <3>1, SubSeqProperties
  <2> HIDE DEF left
  <2> QED BY <1>0, <2>1
<1>4. /\ right \in Seq(Elts) /\ Len(right) = Len(t) - i + 1
      /\ \A j \in 1 .. Len(t) - i + 1 : right[j] = t[i + j - 1]
  <2>1. /\ right \in Seq(Elts) /\ Len(right) = IF i <= Len(t) THEN Len(t) - i + 1 ELSE 0
        /\ \A j \in 1 .. Len(t) - i + 1 : right[j] = t[i + j - 1]
    <3>1. i \in Int /\ Len(t) \in Int /\ \A j \in i .. Len(t) : t[j] \in Elts
      BY <1>0
    <3> QED BY <3>1, SubSeqProperties
  <2> HIDE DEF right
  <2> QED BY <1>0, <2>1
<1> HIDE DEF left, right, one
<1>5. /\ lone \in Seq(Elts) /\ Len(lone) = i
      /\ \A j \in 1 .. i : lone[j] = IF j < i THEN t[j] ELSE e
  <2>1. /\ lone \in Seq(Elts) /\ Len(lone) = Len(left) + Len(one)
        /\ \A j \in 1 .. Len(left) + Len(one) :
             lone[j] = IF j <= Len(left) THEN left[j] ELSE one[j - Len(left)]
    BY <1>2, <1>3, ConcatProperties
  <2> HIDE DEF lone
  <2>2. ASSUME NEW j \in 1 .. i PROVE lone[j] = IF j < i THEN t[j] ELSE e
    <3>1. CASE j < i
      BY <1>0, <1>2, <1>3, <2>1, <3>1
    <3>2. CASE j = i
      BY <1>0, <1>2, <1>3, <2>1, <3>2
    <3> QED BY <1>0, <3>1, <3>2
  <2> QED BY <1>0, <1>2, <1>3, <2>1, <2>2
<1> HIDE DEF lone, v
<1>6. /\ v \in Seq(Elts) /\ Len(v) = Len(lone) + Len(right)
      /\ \A j \in 1 .. Len(lone) + Len(right) :
           v[j] = IF j <= Len(lone) THEN lone[j] ELSE right[j - Len(lone)]
  BY <1>1, <1>4, <1>5, ConcatProperties
<1>7. ASSUME NEW j \in 1 .. Len(t) + 1
      PROVE  v[j] = IF j < i THEN t[j] ELSE IF j = i THEN e ELSE t[j - 1]
  <2>1. CASE j <= i
    BY <1>0, <1>4, <1>5, <1>6, <2>1
  <2>2. CASE j > i
    <3>1. j - i \in 1 .. Len(t) - i + 1 /\ i + (j - i) - 1 = j - 1
      BY <1>0, <2>2
    <3> QED BY <1>0, <1>4, <1>5, <1>6, <2>2, <3>1
  <2> QED BY <1>0, <2>1, <2>2
<1>8. Len(v) = Len(t) + 1
  BY <1>0, <1>4, <1>5, <1>6
<1> QED BY <1>6, <1>7, <1>8 DEF v

\* The same by name, for where v is long.
IsEntered(t, i, e, v) ==
  /\ v \in Seq(Elts) /\ Len(v) = Len(t) + 1
  /\ \A j \in 1 .. Len(t) + 1 :
       v[j] = IF j < i THEN t[j] ELSE IF j = i THEN e ELSE t[j - 1]

LEMMA EnteredNamed ==
  ASSUME NEW t \in Seq(Elts), NEW i \in 1 .. Len(t) + 1, NEW e \in Elts
  PROVE  IsEntered(t, i, e, List!Order!Enter(t, i, e))
BY EnteredIs DEF IsEntered

LEMMA RemovedIs ==
  ASSUME NEW t \in Seq(Elts), NEW i \in 1 .. Len(t)
  PROVE  LET v == List!Order!RemoveAt(t, i)
         IN  /\ v \in Seq(Elts) /\ Len(v) = Len(t) - 1
             /\ \A j \in 1 .. Len(t) - 1 : v[j] = IF j < i THEN t[j] ELSE t[j + 1]
<1> DEFINE left == SubSeq(t, 1, i - 1)
           right == SubSeq(t, i + 1, Len(t))
           v == List!Order!RemoveAt(t, i)
<1>0. Len(t) \in Nat /\ i \in Nat /\ \A j \in 1 .. Len(t) : t[j] \in Elts
  BY LenProperties, ElementOfSeq
<1>1. v = left \o right
  BY DEF List!Order!RemoveAt
<1>2. left \in Seq(Elts) /\ Len(left) = i - 1 /\ \A j \in 1 .. i - 1 : left[j] = t[j]
  <2>1. /\ left \in Seq(Elts) /\ Len(left) = IF 1 <= i - 1 THEN i - 1 - 1 + 1 ELSE 0
        /\ \A j \in 1 .. i - 1 - 1 + 1 : left[j] = t[1 + j - 1]
    <3>1. 1 \in Int /\ i - 1 \in Int /\ \A j \in 1 .. i - 1 : t[j] \in Elts
      BY <1>0
    <3> QED BY <3>1, SubSeqProperties
  <2> HIDE DEF left
  <2> QED BY <1>0, <2>1
<1>3. /\ right \in Seq(Elts) /\ Len(right) = Len(t) - i
      /\ \A j \in 1 .. Len(t) - i : right[j] = t[i + j]
  <2>1. /\ right \in Seq(Elts)
        /\ Len(right) = IF i + 1 <= Len(t) THEN Len(t) - (i + 1) + 1 ELSE 0
        /\ \A j \in 1 .. Len(t) - (i + 1) + 1 : right[j] = t[i + 1 + j - 1]
    <3>1. i + 1 \in Int /\ Len(t) \in Int /\ \A j \in i + 1 .. Len(t) : t[j] \in Elts
      BY <1>0
    <3> QED BY <3>1, SubSeqProperties
  <2> HIDE DEF right
  <2> QED BY <1>0, <2>1
<1> HIDE DEF left, right, v
<1>4. /\ v \in Seq(Elts) /\ Len(v) = Len(left) + Len(right)
      /\ \A j \in 1 .. Len(left) + Len(right) :
           v[j] = IF j <= Len(left) THEN left[j] ELSE right[j - Len(left)]
  BY <1>1, <1>2, <1>3, ConcatProperties
<1>5. ASSUME NEW j \in 1 .. Len(t) - 1 PROVE v[j] = IF j < i THEN t[j] ELSE t[j + 1]
  <2>0. j \in Nat /\ j \in 1 .. Len(left) + Len(right)
    BY <1>0, <1>2, <1>3
  <2>1. CASE j < i
    <3>1. j \in 1 .. i - 1 /\ j <= Len(left)
      BY <1>0, <1>2, <2>1
    <3> QED BY <1>2, <1>4, <2>0, <2>1, <3>1
  <2>2. CASE ~ (j < i)
    <3>1. /\ j - (i - 1) \in 1 .. Len(t) - i /\ i + (j - (i - 1)) = j + 1
          /\ ~ (j <= Len(left)) /\ j - Len(left) = j - (i - 1)
      BY <1>0, <1>2, <2>2
    <3> QED BY <1>3, <1>4, <2>0, <2>2, <3>1
  <2> QED BY <2>1, <2>2
<1>6. Len(v) = Len(t) - 1
  BY <1>0, <1>2, <1>3, <1>4
<1> QED BY <1>4, <1>5, <1>6 DEF v

-----------------------------------------------------------------------------
(* The orders that lists can have: an element is once in one of them *)

Separate(ord) ==
  \A h, g \in Heads : \A j \in 1 .. Len(ord[h]), k \in 1 .. Len(ord[g]) :
    ord[h][j] = ord[g][k] => h = g /\ j = k

Orders == { ord \in [Heads -> Seq(Elts)] : Separate(ord) }

Outside(ord, e) == \A g \in Heads : \A j \in 1 .. Len(ord[g]) : ord[g][j] # e

LEMMA OrderIs ==
  ASSUME NEW ord \in Orders, NEW h \in Heads
  PROVE  /\ ord[h] \in Seq(Elts) /\ Len(ord[h]) \in Nat
         /\ \A j \in 1 .. Len(ord[h]) : ord[h][j] \in Elts
         /\ \A j, k \in 1 .. Len(ord[h]) : ord[h][j] = ord[h][k] => j = k
<1>1. ord[h] \in Seq(Elts) /\ Separate(ord)
  BY DEF Orders
<1>2. Len(ord[h]) \in Nat /\ \A j \in 1 .. Len(ord[h]) : ord[h][j] \in Elts
  BY <1>1, LenProperties, ElementOfSeq
<1>3. \A j, k \in 1 .. Len(ord[h]) : ord[h][j] = ord[h][k] => j = k
  BY <1>1 DEF Separate
<1> QED BY <1>1, <1>2, <1>3

\* One list may change among its own elements and those that are in no list.
LEMMA OneChanges ==
  ASSUME NEW ord \in Orders, NEW h \in Heads, NEW v \in Seq(Elts),
         \A j, k \in 1 .. Len(v) : v[j] = v[k] => j = k,
         \A j \in 1 .. Len(v) : \/ \E k \in 1 .. Len(ord[h]) : v[j] = ord[h][k]
                                \/ Outside(ord, v[j])
  PROVE  [ord EXCEPT ![h] = v] \in Orders
<1> DEFINE new == [ord EXCEPT ![h] = v]
<1>1. /\ new \in [Heads -> Seq(Elts)]
      /\ new[h] = v /\ \A g \in Heads \ {h} : new[g] = ord[g]
  BY DEF Orders
<1> HIDE DEF new
<1>2. ASSUME NEW g \in Heads, g # h, NEW j \in 1 .. Len(v), NEW k \in 1 .. Len(ord[g])
      PROVE  v[j] # ord[g][k]
  <2>1. CASE \E m \in 1 .. Len(ord[h]) : v[j] = ord[h][m]
    BY <1>2, <2>1 DEF Orders, Separate
  <2>2. CASE Outside(ord, v[j])
    BY <2>2 DEF Outside
  <2> QED BY <2>1, <2>2
<1>3. ASSUME NEW f \in Heads, NEW g \in Heads, NEW j \in 1 .. Len(new[f]),
             NEW k \in 1 .. Len(new[g]), new[f][j] = new[g][k]
      PROVE  f = g /\ j = k
  <2>1. CASE f = h /\ g = h
    BY <1>1, <1>3, <2>1
  <2>2. CASE f = h /\ g # h
    BY <1>1, <1>2, <1>3, <2>2
  <2>3. CASE f # h /\ g = h
    BY <1>1, <1>2, <1>3, <2>3
  <2>4. CASE f # h /\ g # h
    BY <1>1, <1>3, <2>4 DEF Orders, Separate
  <2> QED BY <2>1, <2>2, <2>3, <2>4
<1>4. Separate(new)
  BY <1>3 DEF Separate
<1> QED BY <1>1, <1>4 DEF Orders, new

Inserted(ord, h, i, e) == [ord EXCEPT ![h] = List!Order!Enter(ord[h], i, e)]
Replaced(ord, h, i, e) == [ord EXCEPT ![h] = [ord[h] EXCEPT ![i] = e]]
Removed(ord, h, i) == [ord EXCEPT ![h] = List!Order!RemoveAt(ord[h], i)]
Joined(ord, h, g) == [ord EXCEPT ![h] = ord[h] \o ord[g], ![g] = <<>>]

LEMMA InsertedOrder ==
  ASSUME NEW ord \in Orders, NEW h \in Heads, NEW i \in 1 .. Len(ord[h]) + 1,
         NEW e \in Elts, Outside(ord, e)
  PROVE  Inserted(ord, h, i, e) \in Orders
<1> DEFINE t == ord[h]
           v == List!Order!Enter(t, i, e)
<1>0. /\ t \in Seq(Elts) /\ Len(t) \in Nat /\ i \in 1 .. Len(t) + 1
      /\ \A j, k \in 1 .. Len(t) : t[j] = t[k] => j = k
      /\ \A j \in 1 .. Len(t) : t[j] # e
  BY OrderIs DEF Outside
<1> HIDE DEF t
<1>1. /\ v \in Seq(Elts) /\ Len(v) = Len(t) + 1
      /\ \A j \in 1 .. Len(t) + 1 :
           v[j] = IF j < i THEN t[j] ELSE IF j = i THEN e ELSE t[j - 1]
  <2>1. t \in Seq(Elts) /\ i \in 1 .. Len(t) + 1 /\ e \in Elts
    BY <1>0
  <2>2. IsEntered(t, i, e, List!Order!Enter(t, i, e))
    BY <2>1, EnteredNamed
  <2> QED BY <2>2 DEF IsEntered
<1> HIDE DEF v
<1>2. ASSUME NEW j \in 1 .. Len(v)
      PROVE  \/ j < i /\ j \in 1 .. Len(t) /\ v[j] = t[j]
             \/ j = i /\ v[j] = e
             \/ j > i /\ j - 1 \in 1 .. Len(t) /\ v[j] = t[j - 1]
  <2>1. j \in 1 .. Len(t) + 1 /\ j \in Nat /\ i \in Nat
    BY <1>0, <1>1
  <2>2. v[j] = IF j < i THEN t[j] ELSE IF j = i THEN e ELSE t[j - 1]
    BY <1>1, <2>1
  <2> QED BY <1>0, <2>1, <2>2
<1>3. ASSUME NEW j \in 1 .. Len(v), NEW k \in 1 .. Len(v), v[j] = v[k] PROVE j = k
  <2>1. j \in Nat /\ k \in Nat
    BY <1>0, <1>1
  <2>2. CASE j = i
    BY <1>0, <1>2, <1>3, <2>2
  <2>3. CASE j < i
    BY <1>0, <1>2, <1>3, <2>1, <2>3
  <2>4. CASE j > i
    BY <1>0, <1>2, <1>3, <2>1, <2>4, SMTT(20)
  <2> QED BY <2>1, <2>2, <2>3, <2>4
<1>4. \A j \in 1 .. Len(v) : \/ \E k \in 1 .. Len(t) : v[j] = t[k]
                             \/ Outside(ord, v[j])
  BY <1>2
<1>5. [ord EXCEPT ![h] = v] \in Orders
  BY <1>1, <1>3, <1>4, OneChanges DEF t
<1> QED BY <1>5 DEF Inserted, v, t

LEMMA ReplacedOrder ==
  ASSUME NEW ord \in Orders, NEW h \in Heads, NEW i \in 1 .. Len(ord[h]),
         NEW e \in Elts, Outside(ord, e)
  PROVE  Replaced(ord, h, i, e) \in Orders
<1> DEFINE t == ord[h]
           v == [t EXCEPT ![i] = e]
<1>0. /\ t \in Seq(Elts) /\ Len(t) \in Nat
      /\ \A j, k \in 1 .. Len(t) : t[j] = t[k] => j = k
      /\ \A j \in 1 .. Len(t) : t[j] # e
  BY OrderIs DEF Outside
<1>1. /\ v \in Seq(Elts) /\ Len(v) = Len(t)
      /\ \A j \in 1 .. Len(t) : v[j] = IF j = i THEN e ELSE t[j]
  BY <1>0, ExceptSeq
<1> HIDE DEF t, v
<1>2. ASSUME NEW j \in 1 .. Len(v), NEW k \in 1 .. Len(v), v[j] = v[k] PROVE j = k
  BY <1>0, <1>1, <1>2
<1>3. \A j \in 1 .. Len(v) : \/ \E k \in 1 .. Len(t) : v[j] = t[k]
                             \/ Outside(ord, v[j])
  BY <1>1
<1>4. [ord EXCEPT ![h] = v] \in Orders
  BY <1>1, <1>2, <1>3, OneChanges DEF t
<1> QED BY <1>4 DEF Replaced, v, t

LEMMA RemovedOrder ==
  ASSUME NEW ord \in Orders, NEW h \in Heads, NEW i \in 1 .. Len(ord[h])
  PROVE  Removed(ord, h, i) \in Orders /\ Outside(Removed(ord, h, i), ord[h][i])
<1> DEFINE t == ord[h]
           v == List!Order!RemoveAt(t, i)
           new == [ord EXCEPT ![h] = v]
<1>0. /\ t \in Seq(Elts) /\ Len(t) \in Nat /\ i \in 1 .. Len(t)
      /\ \A j, k \in 1 .. Len(t) : t[j] = t[k] => j = k
  BY OrderIs
<1>1. /\ v \in Seq(Elts) /\ Len(v) = Len(t) - 1
      /\ \A j \in 1 .. Len(t) - 1 : v[j] = IF j < i THEN t[j] ELSE t[j + 1]
  BY <1>0, RemovedIs
<1>2. new[h] = v /\ \A g \in Heads \ {h} : new[g] = ord[g]
  BY DEF Orders
<1> HIDE DEF t, v, new
<1>3. \A j \in 1 .. Len(v) : \/ j < i /\ j \in 1 .. Len(t) /\ v[j] = t[j]
                             \/ j >= i /\ j + 1 \in 1 .. Len(t) /\ v[j] = t[j + 1]
  BY <1>0, <1>1
<1>4. ASSUME NEW j \in 1 .. Len(v), NEW k \in 1 .. Len(v), v[j] = v[k] PROVE j = k
  <2>1. j \in Nat /\ k \in Nat
    BY <1>0, <1>1
  <2>2. CASE j < i
    BY <1>0, <1>3, <1>4, <2>1, <2>2
  <2>3. CASE j >= i
    BY <1>0, <1>3, <1>4, <2>1, <2>3
  <2> QED BY <2>1, <2>2, <2>3
<1>5. \A j \in 1 .. Len(v) : \/ \E k \in 1 .. Len(t) : v[j] = t[k]
                             \/ Outside(ord, v[j])
  BY <1>3
<1>6. new \in Orders
  BY <1>1, <1>4, <1>5, OneChanges DEF t, new
<1>7. ASSUME NEW g \in Heads, NEW j \in 1 .. Len(new[g]) PROVE new[g][j] # t[i]
  <2>1. CASE g = h
    BY <1>0, <1>2, <1>3, <2>1
  <2>2. CASE g # h
    <3>1. j \in 1 .. Len(ord[g]) /\ new[g][j] = ord[g][j]
      BY <1>2, <2>2
    <3> QED BY <2>2, <3>1 DEF t, Orders, Separate
  <2> QED BY <2>1, <2>2
<1>8. Outside(new, t[i])
  BY <1>7 DEF Outside
<1> QED BY <1>6, <1>8 DEF Removed, v, t, new

LEMMA JoinedOrder ==
  ASSUME NEW ord \in Orders, NEW h \in Heads, NEW g \in Heads, h # g
  PROVE  Joined(ord, h, g) \in Orders
<1> DEFINE t == ord[h]
           u == ord[g]
           v == t \o u
           less == [ord EXCEPT ![g] = <<>>]
           new == [less EXCEPT ![h] = v]
<1>0. /\ t \in Seq(Elts) /\ Len(t) \in Nat /\ u \in Seq(Elts) /\ Len(u) \in Nat
      /\ \A j, k \in 1 .. Len(t) : t[j] = t[k] => j = k
      /\ \A j, k \in 1 .. Len(u) : u[j] = u[k] => j = k
  BY OrderIs
<1>1. \A j \in 1 .. Len(t), k \in 1 .. Len(u) : t[j] # u[k]
  BY DEF Orders, Separate
<1> HIDE DEF t, u
<1>2. /\ v \in Seq(Elts) /\ Len(v) = Len(t) + Len(u)
      /\ \A j \in 1 .. Len(t) + Len(u) : v[j] = IF j <= Len(t) THEN t[j] ELSE u[j - Len(t)]
  BY <1>0, ConcatProperties
<1>3. less \in Orders
  <2>1. <<>> \in Seq(Elts) /\ Len(<<>>) = 0
    OBVIOUS
  <2> DEFINE none == <<>>
  <2>2. none \in Seq(Elts) /\ \A j \in 1 .. Len(none) : FALSE
    BY <2>1
  <2>3. less = [ord EXCEPT ![g] = none]
    OBVIOUS
  <2> HIDE DEF none, less
  <2> QED BY <2>2, <2>3, OneChanges
<1>4. less[h] = t /\ less[g] = <<>> /\ \A f \in Heads \ {g} : less[f] = ord[f]
  BY DEF Orders, t
<1>5. new = Joined(ord, h, g)
  BY DEF Joined, Orders, t, u
<1> HIDE DEF v, less, new
<1>6. ASSUME NEW j \in 1 .. Len(v)
      PROVE  \/ j <= Len(t) /\ j \in 1 .. Len(t) /\ v[j] = t[j]
             \/ j > Len(t) /\ j - Len(t) \in 1 .. Len(u) /\ v[j] = u[j - Len(t)]
  BY <1>0, <1>2
<1>7. ASSUME NEW j \in 1 .. Len(v), NEW k \in 1 .. Len(v), v[j] = v[k] PROVE j = k
  <2>1. j \in Nat /\ k \in Nat
    BY <1>0, <1>2
  <2>2. CASE j <= Len(t)
    <3>1. j \in 1 .. Len(t) /\ v[j] = t[j]
      BY <1>0, <1>6, <2>1, <2>2
    <3>2. k <= Len(t)
      BY <1>0, <1>1, <1>6, <1>7, <2>1, <3>1
    <3>3. k \in 1 .. Len(t) /\ v[k] = t[k]
      BY <1>0, <1>6, <2>1, <3>2
    <3> QED BY <1>0, <1>7, <3>1, <3>3
  <2>3. CASE j > Len(t)
    <3>1. j - Len(t) \in 1 .. Len(u) /\ v[j] = u[j - Len(t)]
      BY <1>0, <1>6, <2>1, <2>3
    <3>2. k > Len(t)
      BY <1>0, <1>1, <1>6, <1>7, <2>1, <3>1
    <3>3. k - Len(t) \in 1 .. Len(u) /\ v[k] = u[k - Len(t)]
      BY <1>0, <1>6, <2>1, <3>2
    <3>4. j - Len(t) = k - Len(t)
      BY <1>0, <1>7, <3>1, <3>3
    <3> QED BY <1>0, <2>1, <3>4
  <2> QED BY <1>0, <2>1, <2>2, <2>3
<1>8. ASSUME NEW k \in 1 .. Len(u), NEW f \in Heads, NEW j \in 1 .. Len(less[f])
      PROVE  less[f][j] # u[k]
  <2>1. f # g
    BY <1>4, <1>8
  <2>2. less[f] = ord[f]
    BY <1>4, <2>1
  <2> QED BY <2>1, <2>2 DEF u, Orders, Separate
<1>9. ASSUME NEW j \in 1 .. Len(v)
      PROVE  (\E k \in 1 .. Len(less[h]) : v[j] = less[h][k]) \/ Outside(less, v[j])
  <2>1. CASE j <= Len(t)
    BY <1>0, <1>2, <1>4, <1>6, <2>1
  <2>2. CASE j > Len(t)
    <3>1. j - Len(t) \in 1 .. Len(u) /\ v[j] = u[j - Len(t)]
      BY <1>0, <1>2, <1>6, <2>2
    <3> QED BY <1>8, <3>1 DEF Outside
  <2> QED BY <1>0, <1>2, <2>1, <2>2
<1>10. new \in Orders
  BY <1>2, <1>3, <1>7, <1>9, OneChanges DEF new
<1> QED BY <1>5, <1>10

-----------------------------------------------------------------------------
(* What a FOREACH meets *)

LEMMA ListCardinality ==
  ASSUME NEW S
  PROVE  List!Cardinality(S) = Cardinality(S)
BY DEF List!Cardinality, Cardinality, List!IsFiniteSet, IsFiniteSet

\* No more elements than there are.
LEMMA NoLonger ==
  ASSUME StackAssumption, NEW t \in Seq(Elts), \A j, k \in 1 .. Len(t) : t[j] = t[k] => j = k
  PROVE  Len(t) \in Nat /\ Cardinality(Elts) \in Nat /\ Len(t) <= Cardinality(Elts)
<1> DEFINE n == Len(t)
<1>1. n \in Nat /\ t \in [1 .. n -> Elts]
  BY LenProperties
<1>2. t \in Injection(1 .. n, Elts)
  <2> HIDE DEF n
  <2> QED BY <1>1 DEF Injection, IsInjective, n
<1>3. Cardinality(1 .. n) <= Cardinality(Elts)
  <2> HIDE DEF n
  <2> QED BY <1>2, FS_Injection DEF StackAssumption
<1>4. Cardinality(1 .. n) = n
  <2>1. 1 \in Int /\ n \in Int
    BY <1>1
  <2>2. Cardinality(1 .. n) = IF 1 > n THEN 0 ELSE n - 1 + 1
    BY <2>1, FS_Interval
  <2> HIDE DEF n
  <2> QED BY <1>1, <2>2
<1>5. Cardinality(Elts) \in Nat
  BY FS_CardinalityType DEF StackAssumption
<1> QED BY <1>1, <1>3, <1>4, <1>5

\* As a walk does that stops where the links lead to stop.
Until(f, link, stop, q, k) ==
  IF q = NULL \/ k = 0 THEN <<>>
  ELSE <<q>> \o (IF link[q] = stop THEN <<>> ELSE f[k - 1][link[q]])
Stops(f, link, stop, N) == f = [k \in 0 .. N |-> [q \in Nodes |-> Until(f, link, stop, q, k)]]

Cropped(link, stop) == [q \in Elts |-> IF link[q] = stop THEN NULL ELSE link[q]]

LEMMA UntilIsFrom ==
  ASSUME NULL \notin Elts, NEW link \in [Elts -> Nodes], NEW stop, NEW N \in Nat, NEW f,
         \A k \in 0 .. N : f[k][NULL] = <<>>, NEW q \in Nodes, NEW k \in 0 .. N
  PROVE  Until(f, link, stop, q, k) = WalkFrom(f, Cropped(link, stop), q, k)
<1>1. CASE q = NULL \/ k = 0
  BY <1>1 DEF Until, WalkFrom
<1>2. CASE ~ (q = NULL \/ k = 0)
  <2>1. q \in Elts /\ k - 1 \in 0 .. N
    BY <1>2 DEF Nodes
  <2>2. Cropped(link, stop)[q] = IF link[q] = stop THEN NULL ELSE link[q]
    BY <2>1 DEF Cropped
  <2>3. (IF link[q] = stop THEN <<>> ELSE f[k - 1][link[q]]) = f[k - 1][Cropped(link, stop)[q]]
    BY <2>1, <2>2
  <2> QED BY <1>2, <2>3 DEF Until, WalkFrom
<1> QED BY <1>1, <1>2

LEMMA ListWalkIs ==
  ASSUME StackAssumption, NEW link \in [Elts -> Nodes], NEW stop, NEW t \in Seq(Elts),
         \A j, k \in 1 .. Len(t) : t[j] = t[k] => j = k,
         \A j \in 1 .. Len(t) : IF j < Len(t) THEN link[t[j]] = t[j + 1] /\ t[j + 1] # stop
                                ELSE link[t[j]] = stop
  PROVE  List!Walk(At(t, 1), link, stop) = t
<1> DEFINE N == List!Cardinality(Elts) + 1
           crop == Cropped(link, stop)
           f0 == CHOOSE f : f = [k \in 0 .. N |-> [q \in Elts \cup {NULL} |->
                   IF q = NULL \/ k = 0 THEN <<>>
                   ELSE <<q>> \o (IF link[q] = stop THEN <<>> ELSE f[k - 1][link[q]])]]
           f1 == CHOOSE f : Stops(f, link, stop, N)
<1>1. N \in Nat /\ Len(t) <= N /\ NULL \notin Elts /\ NULL \in Nodes /\ Len(t) \in Nat
  <2>1. /\ Cardinality(Elts) \in Nat /\ List!Cardinality(Elts) = Cardinality(Elts)
        /\ Len(t) \in Nat /\ Len(t) <= Cardinality(Elts)
    BY NoLonger, ListCardinality
  <2> QED BY <2>1 DEF StackAssumption, Nodes
<1>2. List!Walk(At(t, 1), link, stop) = f0[N][At(t, 1)]
  BY DEF List!Walk, List!Pointer
<1>3. f0 = f1
  BY DEF Stops, Until, Nodes
<1> HIDE DEF N, f0
<1>4. \A q \in Elts : crop[q] \in Nodes
  BY <1>1 DEF Cropped
<1> HIDE DEF crop
<1>5. \E f : Stops(f, link, stop, N)
  <2>1. PICK g : Walks(g, crop, N)
    BY <1>1, <1>4, WalkDefined
  <2> DEFINE h == [k \in 0 .. N |-> [q \in Nodes |-> WalkFrom(g, crop, q, k)]]
             u == [k \in 0 .. N |-> [q \in Nodes |-> Until(g, link, stop, q, k)]]
  <2>2. g = h
    BY <2>1 DEF Walks
  <2>3. \A k \in 0 .. N : h[k][NULL] = <<>>
    BY <1>1 DEF WalkFrom
  <2> HIDE DEF h
  <2>4. ASSUME NEW q \in Nodes, NEW k \in 0 .. N
        PROVE  Until(g, link, stop, q, k) = WalkFrom(g, crop, q, k)
    <3>1. \A m \in 0 .. N : g[m][NULL] = <<>>
      BY <2>2, <2>3
    <3>2. Until(g, link, stop, q, k) = WalkFrom(g, Cropped(link, stop), q, k)
      BY <1>1, <3>1, UntilIsFrom, SMTT(20)
    <3> QED BY <3>2 DEF crop
  <2>5. u = h
    BY <2>4 DEF h
  <2> QED BY <2>2, <2>5 DEF Stops
<1>6. Stops(f1, link, stop, N)
  BY <1>5
<1> HIDE DEF f1
<1>7. Walks(f1, crop, N)
  <2> DEFINE h == [k \in 0 .. N |-> [q \in Nodes |-> WalkFrom(f1, crop, q, k)]]
             u == [k \in 0 .. N |-> [q \in Nodes |-> Until(f1, link, stop, q, k)]]
  <2>1. f1 = u
    BY <1>6 DEF Stops
  <2>2. \A k \in 0 .. N : u[k][NULL] = <<>>
    BY <1>1 DEF Until
  <2> HIDE DEF u
  <2>3. ASSUME NEW q \in Nodes, NEW k \in 0 .. N
        PROVE  Until(f1, link, stop, q, k) = WalkFrom(f1, crop, q, k)
    <3>1. \A m \in 0 .. N : f1[m][NULL] = <<>>
      BY <2>1, <2>2
    <3>2. Until(f1, link, stop, q, k) = WalkFrom(f1, Cropped(link, stop), q, k)
      BY <1>1, <3>1, UntilIsFrom, SMTT(20)
    <3> QED BY <3>2 DEF crop
  <2>4. u = h
    BY <2>3 DEF u
  <2> QED BY <2>1, <2>4 DEF Walks
<1>8. Linked(t, crop)
  <2> SUFFICES ASSUME NEW j \in 1 .. Len(t) PROVE crop[t[j]] = At(t, j + 1)
    BY DEF Linked
  <2>1. t[j] \in Elts
    BY ElementOfSeq
  <2>2. crop[t[j]] = IF link[t[j]] = stop THEN NULL ELSE link[t[j]]
    BY <2>1 DEF crop, Cropped
  <2>3. CASE j < Len(t)
    <3>1. j + 1 <= Len(t) /\ link[t[j]] = t[j + 1] /\ t[j + 1] # stop
      BY <1>1, <2>3
    <3> QED BY <2>2, <3>1 DEF At
  <2>4. CASE ~ (j < Len(t))
    <3>1. ~ (j + 1 <= Len(t)) /\ link[t[j]] = stop
      BY <1>1, <2>4
    <3> QED BY <2>2, <3>1 DEF At
  <2> QED BY <2>3, <2>4
<1>9. f1[N][At(t, 1)] = t
  BY <1>1, <1>7, <1>8, WalkFollows
<1> QED BY <1>2, <1>3, <1>9

-----------------------------------------------------------------------------
(* Lists that hold an order *)

Onward(t, link) == \A j \in 1 .. Len(t) : link[t[j]] = t[IF j = Len(t) THEN 1 ELSE j + 1]
Backward(t, link) == \A j \in 1 .. Len(t) : link[t[j]] = t[IF j = 1 THEN Len(t) ELSE j - 1]

Linkage == [Elts -> Nodes]
Single == [head : [Heads -> Nodes], next : Linkage]
Double == [head : [Heads -> Nodes], next : Linkage, prev : Linkage]

LLIs(l, ord) ==
  l \in Single /\ \A h \in Heads : l.head[h] = At(ord[h], 1) /\ Linked(ord[h], l.next)

DLIs(l, ord) ==
  l \in Double /\ \A h \in Heads : /\ l.head[h] = At(ord[h], 1) /\ Linked(ord[h], l.next)
                                   /\ Backward(ord[h], l.prev)

CDLIs(l, ord) ==
  l \in Double /\ \A h \in Heads : /\ l.head[h] = At(ord[h], 1) /\ Onward(ord[h], l.next)
                                   /\ Backward(ord[h], l.prev)

LEMMA LinkedWalk ==
  ASSUME StackAssumption, NEW ord \in Orders, NEW h \in Heads, NEW link \in Linkage,
         Linked(ord[h], link)
  PROVE  List!Walk(At(ord[h], 1), link, NULL) = ord[h]
<1> DEFINE t == ord[h]
<1>1. /\ t \in Seq(Elts) /\ Len(t) \in Nat /\ \A j \in 1 .. Len(t) : t[j] \in Elts
      /\ \A j, k \in 1 .. Len(t) : t[j] = t[k] => j = k
  BY OrderIs
<1> HIDE DEF t
<1>2. \A j \in 1 .. Len(t) : link[t[j]] = At(t, j + 1)
  BY DEF Linked, t
<1>3. ASSUME NEW j \in 1 .. Len(t)
      PROVE  IF j < Len(t) THEN link[t[j]] = t[j + 1] /\ t[j + 1] # NULL ELSE link[t[j]] = NULL
  <2>1. CASE j < Len(t)
    <3>1. j + 1 \in 1 .. Len(t)
      BY <1>1, <2>1
    <3> QED BY <1>1, <1>2, <2>1, <3>1 DEF At, StackAssumption
  <2>2. CASE ~ (j < Len(t))
    <3>1. ~ (j + 1 <= Len(t))
      BY <1>1, <2>2
    <3> QED BY <1>2, <2>2, <3>1 DEF At
  <2> QED BY <2>1, <2>2
<1>4. link \in [Elts -> Nodes]
  BY DEF Linkage
<1>5. List!Walk(At(t, 1), link, NULL) = t
  BY <1>1, <1>3, <1>4, ListWalkIs
<1> QED BY <1>5 DEF t

LEMMA OnwardWalk ==
  ASSUME StackAssumption, NEW ord \in Orders, NEW h \in Heads, NEW link \in Linkage,
         Onward(ord[h], link)
  PROVE  List!Walk(At(ord[h], 1), link, At(ord[h], 1)) = ord[h]
<1> DEFINE t == ord[h]
           stop == At(t, 1)
<1>1. /\ t \in Seq(Elts) /\ Len(t) \in Nat
      /\ \A j, k \in 1 .. Len(t) : t[j] = t[k] => j = k
  BY OrderIs
<1> HIDE DEF t
<1>2. \A j \in 1 .. Len(t) : link[t[j]] = t[IF j = Len(t) THEN 1 ELSE j + 1]
  BY DEF Onward, t
<1>3. ASSUME NEW j \in 1 .. Len(t)
      PROVE  IF j < Len(t) THEN link[t[j]] = t[j + 1] /\ t[j + 1] # stop ELSE link[t[j]] = stop
  <2>0. stop = t[1] /\ 1 \in 1 .. Len(t)
    BY <1>1 DEF At
  <2>1. CASE j < Len(t)
    <3>1. j + 1 \in 1 .. Len(t) /\ j + 1 # 1 /\ j # Len(t)
      BY <1>1, <2>1
    <3>2. t[j + 1] # t[1]
      BY <1>1, <2>0, <3>1
    <3> QED BY <1>2, <2>0, <2>1, <3>1, <3>2
  <2>2. CASE ~ (j < Len(t))
    <3>1. j = Len(t)
      BY <1>1, <2>2
    <3> QED BY <1>2, <2>0, <2>2, <3>1
  <2> QED BY <2>1, <2>2
<1>4. link \in [Elts -> Nodes]
  BY DEF Linkage
<1>5. List!Walk(At(t, 1), link, stop) = t
  <2> HIDE DEF stop
  <2> QED BY <1>1, <1>3, <1>4, ListWalkIs
<1> QED BY <1>5 DEF t

LEMMA WalksAre ==
  ASSUME StackAssumption, NEW ord \in Orders, NEW h \in Heads, NEW l
  PROVE  /\ LLIs(l, ord) => List!LL_FOREACH(l, h) = ord[h]
         /\ DLIs(l, ord) => List!DL_FOREACH(l, h) = ord[h]
         /\ CDLIs(l, ord) => List!CDL_FOREACH(l, h) = ord[h]
<1>1. ASSUME LLIs(l, ord) PROVE List!LL_FOREACH(l, h) = ord[h]
  <2>1. l.next \in Linkage /\ l.head[h] = At(ord[h], 1) /\ Linked(ord[h], l.next)
    BY <1>1 DEF LLIs, Single
  <2> QED BY <2>1, LinkedWalk DEF List!LL_FOREACH
<1>2. ASSUME DLIs(l, ord) PROVE List!DL_FOREACH(l, h) = ord[h]
  <2>1. l.next \in Linkage /\ l.head[h] = At(ord[h], 1) /\ Linked(ord[h], l.next)
    BY <1>2 DEF DLIs, Double
  <2> QED BY <2>1, LinkedWalk DEF List!DL_FOREACH
<1>3. ASSUME CDLIs(l, ord) PROVE List!CDL_FOREACH(l, h) = ord[h]
  <2>1. l.next \in Linkage /\ l.head[h] = At(ord[h], 1) /\ Onward(ord[h], l.next)
    BY <1>3 DEF CDLIs, Double
  <2> QED BY <2>1, OnwardWalk DEF List!CDL_FOREACH
<1> QED BY <1>1, <1>2, <1>3

\* The three kinds hold the same order.
Hold(ord) == LLIs(ll, ord) /\ DLIs(dl, ord) /\ CDLIs(cdl, ord)
ListInv == \E ord \in Orders : Hold(ord)

LEMMA KindsHold ==
  ASSUME StackAssumption, ListInv
  PROVE  ListKindsAgree
<1>1. PICK ord \in Orders : Hold(ord)
  BY DEF ListInv
<1>2. ASSUME NEW h \in Heads
      PROVE  /\ List!LL_FOREACH(ll, h) = ord[h]
             /\ List!DL_FOREACH(dl, h) = ord[h]
             /\ List!CDL_FOREACH(cdl, h) = ord[h]
  BY <1>1, WalksAre DEF Hold
<1>3. List!KindsAgree
  BY <1>2 DEF List!KindsAgree, List!LL_COUNT, List!DL_COUNT, List!CDL_COUNT, List!LL_SEARCH,
              List!CDL_SEARCH, List!LL_LOWER_BOUND, List!DL_LOWER_BOUND, List!CDL_LOWER_BOUND
<1>4. ASSUME NEW h \in Heads
      PROVE  LET t == List!DL_FOREACH(dl, h)
                 c == List!CDL_FOREACH(cdl, h)
             IN  /\ \A i \in DOMAIN t : dl.prev[t[i]] = t[IF i = 1 THEN Len(t) ELSE i - 1]
                 /\ \A i \in DOMAIN c : /\ cdl.prev[c[i]] = c[IF i = 1 THEN Len(c) ELSE i - 1]
                                        /\ cdl.next[c[i]] = c[IF i = Len(c) THEN 1 ELSE i + 1]
  <2>1. DOMAIN ord[h] = 1 .. Len(ord[h])
    BY OrderIs
  <2>2. Backward(ord[h], dl.prev) /\ Backward(ord[h], cdl.prev) /\ Onward(ord[h], cdl.next)
    BY <1>1 DEF Hold, DLIs, CDLIs
  <2>3. /\ \A i \in DOMAIN ord[h] :
             dl.prev[ord[h][i]] = ord[h][IF i = 1 THEN Len(ord[h]) ELSE i - 1]
        /\ \A i \in DOMAIN ord[h] :
             /\ cdl.prev[ord[h][i]] = ord[h][IF i = 1 THEN Len(ord[h]) ELSE i - 1]
             /\ cdl.next[ord[h][i]] = ord[h][IF i = Len(ord[h]) THEN 1 ELSE i + 1]
    BY <2>1, <2>2 DEF Backward, Onward
  <2> QED BY <1>2, <2>3
<1>5. List!BackLinked
  BY <1>4 DEF List!BackLinked
<1> QED BY <1>3, <1>5 DEF ListKindsAgree

-----------------------------------------------------------------------------
(* One list changes, and the others do not notice *)

\* Only links of elements of h's list, or of none, have changed.
Spares(L, link, ord, h) ==
  \A x \in Elts : L[x] = link[x] \/ Outside(ord, x) \/ \E j \in 1 .. Len(ord[h]) : x = ord[h][j]

LEMMA SparedIs ==
  ASSUME NEW ord \in Orders, NEW h \in Heads, NEW L, NEW link, Spares(L, link, ord, h),
         NEW g \in Heads, g # h
  PROVE  \A j \in 1 .. Len(ord[g]) : L[ord[g][j]] = link[ord[g][j]]
<1> SUFFICES ASSUME NEW j \in 1 .. Len(ord[g]) PROVE L[ord[g][j]] = link[ord[g][j]]
  OBVIOUS
<1>1. ord[g][j] \in Elts
  BY OrderIs
<1>2. ~ Outside(ord, ord[g][j])
  BY DEF Outside
<1>3. \A k \in 1 .. Len(ord[h]) : ord[g][j] # ord[h][k]
  BY DEF Orders, Separate
<1> QED BY <1>1, <1>2, <1>3 DEF Spares

LEMMA NewOrderIs ==
  ASSUME NEW ord \in Orders, NEW h \in Heads, NEW v
  PROVE  /\ [ord EXCEPT ![h] = v][h] = v
         /\ \A g \in Heads : g # h => [ord EXCEPT ![h] = v][g] = ord[g]
BY DEF Orders

LEMMA LLChanges ==
  ASSUME NEW ord \in Orders, NEW h \in Heads, NEW v, NEW l, LLIs(l, ord), NEW r \in Single,
         r.head = [l.head EXCEPT ![h] = At(v, 1)], Linked(v, r.next),
         Spares(r.next, l.next, ord, h)
  PROVE  LLIs(r, [ord EXCEPT ![h] = v])
<1> DEFINE new == [ord EXCEPT ![h] = v]
<1>1. new[h] = v /\ \A g \in Heads : g # h => new[g] = ord[g]
  BY NewOrderIs
<1> HIDE DEF new
<1>2. l.head \in [Heads -> Nodes]
  BY DEF LLIs, Single
<1>3. ASSUME NEW g \in Heads PROVE r.head[g] = At(new[g], 1) /\ Linked(new[g], r.next)
  <2>1. CASE g = h
    BY <1>1, <1>2, <2>1
  <2>2. CASE g # h
    <3>1. r.head[g] = At(ord[g], 1) /\ Linked(ord[g], l.next)
      BY <1>2, <2>2 DEF LLIs
    <3>2. Linked(ord[g], r.next)
      BY <2>2, <3>1, SparedIs DEF Linked
    <3> QED BY <1>1, <2>2, <3>1, <3>2
  <2> QED BY <2>1, <2>2
<1> QED BY <1>3 DEF LLIs, new

LEMMA DLChanges ==
  ASSUME NEW ord \in Orders, NEW h \in Heads, NEW v, NEW l, DLIs(l, ord), NEW r \in Double,
         r.head = [l.head EXCEPT ![h] = At(v, 1)], Linked(v, r.next), Backward(v, r.prev),
         Spares(r.next, l.next, ord, h), Spares(r.prev, l.prev, ord, h)
  PROVE  DLIs(r, [ord EXCEPT ![h] = v])
<1> DEFINE new == [ord EXCEPT ![h] = v]
<1>1. new[h] = v /\ \A g \in Heads : g # h => new[g] = ord[g]
  BY NewOrderIs
<1> HIDE DEF new
<1>2. l.head \in [Heads -> Nodes]
  BY DEF DLIs, Double
<1>3. ASSUME NEW g \in Heads
      PROVE  r.head[g] = At(new[g], 1) /\ Linked(new[g], r.next) /\ Backward(new[g], r.prev)
  <2>1. CASE g = h
    BY <1>1, <1>2, <2>1
  <2>2. CASE g # h
    <3>1. r.head[g] = At(ord[g], 1) /\ Linked(ord[g], l.next) /\ Backward(ord[g], l.prev)
      BY <1>2, <2>2 DEF DLIs
    <3>2. Linked(ord[g], r.next)
      BY <2>2, <3>1, SparedIs DEF Linked
    <3>3. Backward(ord[g], r.prev)
      BY <2>2, <3>1, SparedIs DEF Backward
    <3> QED BY <1>1, <2>2, <3>1, <3>2, <3>3
  <2> QED BY <2>1, <2>2
<1> QED BY <1>3 DEF DLIs, new

LEMMA CDLChanges ==
  ASSUME NEW ord \in Orders, NEW h \in Heads, NEW v, NEW l, CDLIs(l, ord), NEW r \in Double,
         r.head = [l.head EXCEPT ![h] = At(v, 1)], Onward(v, r.next), Backward(v, r.prev),
         Spares(r.next, l.next, ord, h), Spares(r.prev, l.prev, ord, h)
  PROVE  CDLIs(r, [ord EXCEPT ![h] = v])
<1> DEFINE new == [ord EXCEPT ![h] = v]
<1>1. new[h] = v /\ \A g \in Heads : g # h => new[g] = ord[g]
  BY NewOrderIs
<1> HIDE DEF new
<1>2. l.head \in [Heads -> Nodes]
  BY DEF CDLIs, Double
<1>3. ASSUME NEW g \in Heads
      PROVE  r.head[g] = At(new[g], 1) /\ Onward(new[g], r.next) /\ Backward(new[g], r.prev)
  <2>1. CASE g = h
    BY <1>1, <1>2, <2>1
  <2>2. CASE g # h
    <3>1. r.head[g] = At(ord[g], 1) /\ Onward(ord[g], l.next) /\ Backward(ord[g], l.prev)
      BY <1>2, <2>2 DEF CDLIs
    <3>2. Onward(ord[g], r.next)
      BY <2>2, <3>1, SparedIs DEF Onward
    <3>3. Backward(ord[g], r.prev)
      BY <2>2, <3>1, SparedIs DEF Backward
    <3> QED BY <1>1, <2>2, <3>1, <3>2, <3>3
  <2> QED BY <2>1, <2>2
<1> QED BY <1>3 DEF CDLIs, new

-----------------------------------------------------------------------------
(* The links after one element enters, changes or leaves *)

\* The neighbours of e as the i-th of a ring.
Succ(t, i, e) == IF Len(t) = 0 THEN e ELSE t[IF i <= Len(t) THEN i ELSE 1]
Pred(t, i, e) == IF Len(t) = 0 THEN e ELSE t[IF i = 1 THEN Len(t) ELSE i - 1]

\* And of the i-th when there is another.
After(t, i) == IF i = Len(t) THEN 1 ELSE i + 1
Ahead(t, i) == IF i = 1 THEN Len(t) ELSE i - 1

Changed(L, link, e, x) == \A y \in Elts : y # e /\ y # x => L[y] = link[y]

Proper(t, e) ==
  /\ t \in Seq(Elts) /\ Len(t) \in Nat /\ \A j \in 1 .. Len(t) : t[j] \in Elts
  /\ \A j, k \in 1 .. Len(t) : t[j] = t[k] => j = k
  /\ e \in Elts /\ \A j \in 1 .. Len(t) : t[j] # e

LEMMA EnterLinked ==
  ASSUME NEW t, NEW e, Proper(t, e), NEW i \in 1 .. Len(t) + 1, NEW link, NEW L,
         Linked(t, link), L[e] = At(t, i),
         Changed(L, link, e, IF i = 1 THEN e ELSE t[i - 1]), i > 1 => L[t[i - 1]] = e
  PROVE  Linked(List!Order!Enter(t, i, e), L)
<1> DEFINE v == List!Order!Enter(t, i, e)
<1>0. /\ t \in Seq(Elts) /\ Len(t) \in Nat /\ e \in Elts /\ i \in Nat
      /\ \A j \in 1 .. Len(t) : t[j] \in Elts /\ t[j] # e
      /\ \A j, k \in 1 .. Len(t) : t[j] = t[k] => j = k
  BY DEF Proper
<1>1. /\ Len(v) = Len(t) + 1
      /\ \A j \in 1 .. Len(t) + 1 :
           v[j] = IF j < i THEN t[j] ELSE IF j = i THEN e ELSE t[j - 1]
  <2>1. t \in Seq(Elts) /\ i \in 1 .. Len(t) + 1 /\ e \in Elts
    BY <1>0
  <2>2. IsEntered(t, i, e, List!Order!Enter(t, i, e))
    BY <2>1, EnteredNamed
  <2> QED BY <2>2 DEF IsEntered
<1>2. \A j \in 1 .. Len(t) : link[t[j]] = IF j + 1 <= Len(t) THEN t[j + 1] ELSE NULL
  BY DEF Linked, At
<1> HIDE DEF v
<1>3. \A j \in 1 .. Len(t) : j # i - 1 => L[t[j]] = link[t[j]]
  <2> SUFFICES ASSUME NEW j \in 1 .. Len(t), j # i - 1 PROVE L[t[j]] = link[t[j]]
    OBVIOUS
  <2>1. i > 1 => t[j] # t[i - 1]
    BY <1>0
  <2> QED BY <1>0, <2>1 DEF Changed
<1>4. ASSUME NEW j \in 1 .. Len(t) + 1
      PROVE  L[v[j]] = IF j + 1 <= Len(t) + 1 THEN v[j + 1] ELSE NULL
  <2>0. j \in Nat
    BY <1>0
  <2>1. CASE j < i - 1
    <3>1. j \in 1 .. Len(t) /\ j + 1 <= Len(t) /\ j + 1 \in 1 .. Len(t) + 1 /\ j + 1 < i
      BY <1>0, <2>0, <2>1
    <3> QED BY <1>0, <1>1, <1>2, <1>3, <2>0, <2>1, <3>1
  <2>2. CASE j = i - 1
    <3>1. j + 1 = i /\ i > 1 /\ i <= Len(t) + 1 /\ j < i
      BY <1>0, <2>0, <2>2
    <3> QED BY <1>0, <1>1, <2>0, <2>2, <3>1
  <2>3. CASE j = i
    <3>1. v[j] = e
      BY <1>0, <1>1, <2>3
    <3>2. CASE i <= Len(t)
      <4>1. v[j + 1] = t[i] /\ j + 1 <= Len(t) + 1
        BY <1>0, <1>1, <2>0, <2>3, <3>2
      <4> QED BY <2>3, <3>1, <3>2, <4>1 DEF At
    <3>3. CASE ~ (i <= Len(t))
      BY <1>0, <2>0, <2>3, <3>1, <3>3 DEF At
    <3> QED BY <3>2, <3>3
  <2>4. CASE j > i
    <3>1. j - 1 \in 1 .. Len(t) /\ j - 1 # i - 1 /\ j - 1 + 1 = j
      BY <1>0, <2>0, <2>4
    <3>2. v[j] = t[j - 1]
      BY <1>0, <1>1, <2>0, <2>4
    <3>3. L[v[j]] = IF j <= Len(t) THEN t[j] ELSE NULL
      BY <1>2, <1>3, <3>1, <3>2
    <3>4. j <= Len(t) => v[j + 1] = t[j]
      BY <1>0, <1>1, <2>0, <2>4
    <3> QED BY <1>0, <2>0, <3>3, <3>4
  <2> QED BY <1>0, <2>0, <2>1, <2>2, <2>3, <2>4
<1> QED BY <1>0, <1>1, <1>4 DEF Linked, At, v

LEMMA EnterOnward ==
  ASSUME NEW t, NEW e, Proper(t, e), NEW i \in 1 .. Len(t) + 1, NEW link, NEW L,
         Onward(t, link), L[e] = Succ(t, i, e), L[Pred(t, i, e)] = e,
         Changed(L, link, e, Pred(t, i, e))
  PROVE  Onward(List!Order!Enter(t, i, e), L)
<1> DEFINE v == List!Order!Enter(t, i, e)
           n == Len(t)
<1>0. /\ t \in Seq(Elts) /\ n \in Nat /\ e \in Elts /\ i \in Nat
      /\ \A j \in 1 .. n : t[j] \in Elts /\ t[j] # e
      /\ \A j, k \in 1 .. n : t[j] = t[k] => j = k
  BY DEF Proper
<1>1. /\ Len(v) = n + 1
      /\ \A j \in 1 .. n + 1 :
           v[j] = IF j < i THEN t[j] ELSE IF j = i THEN e ELSE t[j - 1]
  <2>1. t \in Seq(Elts) /\ i \in 1 .. Len(t) + 1 /\ e \in Elts
    BY <1>0
  <2>2. IsEntered(t, i, e, List!Order!Enter(t, i, e))
    BY <2>1, EnteredNamed
  <2> QED BY <2>2 DEF IsEntered
<1>2. \A j \in 1 .. n : link[t[j]] = t[IF j = n THEN 1 ELSE j + 1]
  BY DEF Onward
<1>3. \A j \in 1 .. n : j # Ahead(t, i) => L[t[j]] = link[t[j]]
  <2> SUFFICES ASSUME NEW j \in 1 .. n, j # Ahead(t, i) PROVE L[t[j]] = link[t[j]]
    OBVIOUS
  <2>1. n # 0 /\ Ahead(t, i) \in 1 .. n
    BY <1>0 DEF Ahead
  <2>2. t[j] # Pred(t, i, e)
    BY <1>0, <2>1 DEF Pred, Ahead
  <2> QED BY <1>0, <2>2 DEF Changed
<1>4. n > 0 => L[t[Ahead(t, i)]] = e
  BY <1>0 DEF Pred, Ahead
<1>5. L[e] = IF n = 0 THEN e ELSE t[IF i <= n THEN i ELSE 1]
  BY DEF Succ
<1> HIDE DEF v, n
<1>6. v[1] = IF i = 1 THEN e ELSE t[1]
  BY <1>0, <1>1
<1>7. ASSUME NEW j \in 1 .. n + 1
      PROVE  L[v[j]] = v[IF j = n + 1 THEN 1 ELSE j + 1]
  <2>0. j \in Nat
    BY <1>0
  <2>1. CASE j < i - 1
    <3>1. j \in 1 .. n /\ j # n /\ j + 1 \in 1 .. n + 1 /\ j + 1 < i /\ j # Ahead(t, i) /\ j # n + 1
      BY <1>0, <2>0, <2>1 DEF Ahead, n
    <3> QED BY <1>0, <1>1, <1>2, <1>3, <2>0, <2>1, <3>1, SMTT(20)
  <2>2. CASE j = i - 1
    <3>1. j + 1 = i /\ i > 1 /\ j < i /\ j = Ahead(t, i) /\ n > 0 /\ j # n + 1
      BY <1>0, <2>0, <2>2 DEF Ahead, n
    <3> QED BY <1>0, <1>1, <1>4, <2>0, <2>2, <3>1
  <2>3. CASE j = i
    <3>1. v[j] = e
      BY <1>0, <1>1, <2>3
    <3>2. CASE i <= n
      <4>1. v[j + 1] = t[i] /\ j # n + 1 /\ n # 0
        BY <1>0, <1>1, <2>0, <2>3, <3>2
      <4> QED BY <1>5, <2>3, <3>1, <3>2, <4>1
    <3>3. CASE ~ (i <= n)
      <4>1. j = n + 1 /\ (n = 0 <=> i = 1)
        BY <1>0, <2>0, <2>3, <3>3 DEF n
      <4> QED BY <1>5, <1>6, <2>3, <3>1, <3>3, <4>1
    <3> QED BY <3>2, <3>3
  <2>4. CASE j > i
    <3>1. j - 1 \in 1 .. n /\ j - 1 + 1 = j /\ v[j] = t[j - 1]
      BY <1>0, <1>1, <2>0, <2>4
    <3>2. CASE j = n + 1
      <4>1. CASE i = 1
        <5>1. Ahead(t, i) = j - 1 /\ n > 0
          BY <1>0, <2>0, <2>4, <3>2, <4>1 DEF Ahead, n
        <5> QED BY <1>4, <1>6, <3>1, <3>2, <4>1, <5>1
      <4>2. CASE i # 1
        <5>1. Ahead(t, i) # j - 1 /\ j - 1 = n
          BY <1>0, <2>0, <2>4, <3>2, <4>2 DEF Ahead
        <5> QED BY <1>2, <1>3, <1>6, <3>1, <3>2, <4>2, <5>1
      <4> QED BY <4>1, <4>2
    <3>3. CASE j # n + 1
      <4>1. Ahead(t, i) # j - 1 /\ j - 1 # n
        BY <1>0, <2>0, <2>4, <3>3 DEF Ahead, n
      <4>2. L[v[j]] = t[j]
        BY <1>2, <1>3, <3>1, <4>1
      <4>3. v[j + 1] = t[j]
        BY <1>0, <1>1, <2>0, <2>4, <3>3
      <4> QED BY <3>3, <4>2, <4>3
    <3> QED BY <3>2, <3>3
  <2> QED BY <1>0, <2>0, <2>1, <2>2, <2>3, <2>4
<1> QED BY <1>1, <1>7 DEF Onward, v

LEMMA EnterBackward ==
  ASSUME NEW t, NEW e, Proper(t, e), NEW i \in 1 .. Len(t) + 1, NEW link, NEW L,
         Backward(t, link), L[e] = Pred(t, i, e), L[Succ(t, i, e)] = e,
         Changed(L, link, e, Succ(t, i, e))
  PROVE  Backward(List!Order!Enter(t, i, e), L)
<1> DEFINE v == List!Order!Enter(t, i, e)
           n == Len(t)
           m == IF i <= n THEN i ELSE 1
<1>0. /\ t \in Seq(Elts) /\ n \in Nat /\ e \in Elts /\ i \in Nat
      /\ \A j \in 1 .. n : t[j] \in Elts /\ t[j] # e
      /\ \A j, k \in 1 .. n : t[j] = t[k] => j = k
  BY DEF Proper
<1>1. /\ Len(v) = n + 1
      /\ \A j \in 1 .. n + 1 :
           v[j] = IF j < i THEN t[j] ELSE IF j = i THEN e ELSE t[j - 1]
  <2>1. t \in Seq(Elts) /\ i \in 1 .. Len(t) + 1 /\ e \in Elts
    BY <1>0
  <2>2. IsEntered(t, i, e, List!Order!Enter(t, i, e))
    BY <2>1, EnteredNamed
  <2> QED BY <2>2 DEF IsEntered
<1>8. i <= n + 1 /\ i >= 1
  OBVIOUS
<1>2. \A j \in 1 .. n : link[t[j]] = t[IF j = 1 THEN n ELSE j - 1]
  BY DEF Backward
<1>3. \A j \in 1 .. n : j # m => L[t[j]] = link[t[j]]
  <2> SUFFICES ASSUME NEW j \in 1 .. n, j # m PROVE L[t[j]] = link[t[j]]
    OBVIOUS
  <2>1. n # 0 /\ m \in 1 .. n
    BY <1>0
  <2>2. t[j] # Succ(t, i, e)
    BY <1>0, <2>1 DEF Succ
  <2> QED BY <1>0, <2>2 DEF Changed
<1>4. n > 0 => L[t[m]] = e
  BY <1>0 DEF Succ
<1>5. L[e] = IF n = 0 THEN e ELSE t[IF i = 1 THEN n ELSE i - 1]
  BY DEF Pred
<1> HIDE DEF v, n
<1>6. v[n + 1] = IF i = n + 1 THEN e ELSE t[n]
  BY <1>0, <1>8, <1>1
<1>7. ASSUME NEW j \in 1 .. n + 1
      PROVE  L[v[j]] = v[IF j = 1 THEN n + 1 ELSE j - 1]
  <2>0. j \in Nat
    BY <1>0, <1>8
  <2>1. CASE j < i
    <3>1. j \in 1 .. n /\ v[j] = t[j]
      BY <1>0, <1>8, <1>1, <2>0, <2>1
    <3>2. CASE j = 1 /\ i = n + 1
      BY <1>0, <1>8, <1>4, <1>6, <3>1, <3>2
    <3>3. CASE j = 1 /\ i # n + 1
      <4>1. j # m /\ n # 0
        BY <1>0, <1>8, <2>1, <3>3
      <4> QED BY <1>2, <1>3, <1>6, <3>1, <3>3, <4>1
    <3>4. CASE j # 1
      <4>1. j # m /\ j - 1 \in 1 .. n + 1 /\ j - 1 < i
        BY <1>0, <1>8, <2>0, <2>1, <3>4
      <4>2. v[j - 1] = t[j - 1]
        BY <1>1, <4>1
      <4>3. L[v[j]] = t[j - 1]
        BY <1>2, <1>3, <3>1, <3>4, <4>1
      <4> QED BY <3>4, <4>2, <4>3
    <3> QED BY <3>2, <3>3, <3>4
  <2>2. CASE j = i
    <3>1. v[j] = e
      BY <1>0, <1>8, <1>1, <2>2
    <3>2. CASE i = 1
      <4>1. v[n + 1] = IF n = 0 THEN e ELSE t[n]
        BY <1>0, <1>8, <1>6, <3>2
      <4> QED BY <1>5, <2>2, <3>1, <3>2, <4>1
    <3>3. CASE i # 1
      <4>1. n # 0 /\ i - 1 \in 1 .. n + 1 /\ i - 1 < i
        BY <1>0, <1>8, <3>3
      <4>2. v[i - 1] = t[i - 1]
        BY <1>1, <4>1
      <4> QED BY <1>5, <2>2, <3>1, <3>3, <4>1, <4>2
    <3> QED BY <3>2, <3>3
  <2>3. CASE j > i
    <3>1. j - 1 \in 1 .. n /\ v[j] = t[j - 1] /\ i <= n /\ m = i /\ n > 0 /\ j # 1
      BY <1>0, <1>8, <1>1, <2>0, <2>3
    <3>2. CASE j - 1 = i
      <4>1. v[j - 1] = e
        BY <1>0, <1>8, <1>1, <3>1, <3>2
      <4> QED BY <1>4, <3>1, <3>2, <4>1
    <3>3. CASE j - 1 # i
      <4>1. j - 1 # m /\ j - 1 # 1 /\ j - 1 > i /\ j - 1 \in 1 .. n + 1 /\ ~ (j - 1 < i)
        BY <1>0, <1>8, <2>0, <2>3, <3>1, <3>3
      <4>2. v[j - 1] = t[j - 1 - 1]
        BY <1>1, <3>3, <4>1
      <4>3. L[v[j]] = t[j - 1 - 1]
        BY <1>2, <1>3, <3>1, <4>1
      <4> QED BY <3>1, <4>2, <4>3
    <3> QED BY <3>2, <3>3
  <2> QED BY <1>0, <1>8, <2>0, <2>1, <2>2, <2>3
<1> QED BY <1>1, <1>7 DEF Backward, v

LEMMA Neighbours ==
  ASSUME NEW t, Len(t) \in Nat, NEW i \in 1 .. Len(t), NEW j \in 1 .. Len(t)
  PROVE  /\ After(t, j) \in 1 .. Len(t) /\ Ahead(t, j) \in 1 .. Len(t)
         /\ (After(t, j) = i <=> j = Ahead(t, i))
         /\ (Ahead(t, j) = i <=> j = After(t, i))
         /\ (Len(t) # 1 => After(t, j) # j /\ Ahead(t, j) # j)
<1> DEFINE n == Len(t)
<1>1. n \in Nat /\ i \in 1 .. n /\ j \in 1 .. n
  OBVIOUS
<1>2. After(t, j) = (IF j = n THEN 1 ELSE j + 1) /\ Ahead(t, j) = (IF j = 1 THEN n ELSE j - 1)
  BY DEF After, Ahead
<1>3. After(t, i) = (IF i = n THEN 1 ELSE i + 1) /\ Ahead(t, i) = (IF i = 1 THEN n ELSE i - 1)
  BY DEF After, Ahead
<1> HIDE DEF n
<1>4. After(t, j) \in 1 .. n /\ Ahead(t, j) \in 1 .. n
  BY <1>1, <1>2
<1>5. After(t, j) = i <=> j = Ahead(t, i)
  BY <1>1, <1>2, <1>3
<1>6. Ahead(t, j) = i <=> j = After(t, i)
  BY <1>1, <1>2, <1>3
<1>7. n # 1 => After(t, j) # j /\ Ahead(t, j) # j
  BY <1>1, <1>2
<1> QED BY <1>4, <1>5, <1>6, <1>7 DEF n

LEMMA ReplaceLinked ==
  ASSUME NEW t, NEW e, Proper(t, e), NEW i \in 1 .. Len(t), NEW link, NEW L,
         Linked(t, link), L[e] = At(t, i + 1),
         Changed(L, link, e, IF i = 1 THEN e ELSE t[i - 1]), i > 1 => L[t[i - 1]] = e
  PROVE  Linked([t EXCEPT ![i] = e], L)
<1> DEFINE v == [t EXCEPT ![i] = e]
           n == Len(t)
<1>0. /\ t \in Seq(Elts) /\ n \in Nat /\ e \in Elts /\ i \in Nat /\ i \in 1 .. n
      /\ \A j \in 1 .. n : t[j] \in Elts /\ t[j] # e
      /\ \A j, k \in 1 .. n : t[j] = t[k] => j = k
  BY DEF Proper
<1>1. Len(v) = n /\ \A j \in 1 .. n : v[j] = IF j = i THEN e ELSE t[j]
  BY <1>0, ExceptSeq
<1>2. \A j \in 1 .. n : link[t[j]] = IF j + 1 <= n THEN t[j + 1] ELSE NULL
  BY DEF Linked, At
<1>3. L[e] = IF i + 1 <= n THEN t[i + 1] ELSE NULL
  BY DEF At
<1> HIDE DEF v, n
<1>4. ASSUME NEW j \in 1 .. n PROVE L[v[j]] = IF j + 1 <= n THEN v[j + 1] ELSE NULL
  <2>0. j \in Nat /\ (j + 1 <= n => j + 1 \in 1 .. n)
    BY <1>0
  <2>1. CASE j = i
    BY <1>0, <1>1, <1>3, <2>0, <2>1
  <2>2. CASE j = i - 1
    <3>1. i > 1 /\ j + 1 = i /\ j # i
      BY <1>0, <2>0, <2>2
    <3> QED BY <1>0, <1>1, <2>2, <3>1
  <2>3. CASE j # i /\ j # i - 1
    <3>1. v[j] = t[j] /\ j + 1 # i
      BY <1>0, <1>1, <2>0, <2>3
    <3>2. L[t[j]] = link[t[j]]
      <4>1. i > 1 => t[j] # t[i - 1]
        BY <1>0, <2>3
      <4> QED BY <1>0, <4>1 DEF Changed
    <3> QED BY <1>1, <1>2, <2>0, <3>1, <3>2
  <2> QED BY <2>1, <2>2, <2>3
<1> QED BY <1>1, <1>4 DEF Linked, At, v

LEMMA ReplaceOnward ==
  ASSUME NEW t, NEW e, Proper(t, e), NEW i \in 1 .. Len(t), NEW link, NEW L,
         Onward(t, link), L[e] = IF Len(t) = 1 THEN e ELSE t[After(t, i)],
         Changed(L, link, e, IF Len(t) = 1 THEN e ELSE t[Ahead(t, i)]),
         Len(t) # 1 => L[t[Ahead(t, i)]] = e
  PROVE  Onward([t EXCEPT ![i] = e], L)
<1> DEFINE v == [t EXCEPT ![i] = e]
           n == Len(t)
<1>0. /\ t \in Seq(Elts) /\ n \in Nat /\ e \in Elts /\ i \in Nat /\ i \in 1 .. n
      /\ \A j \in 1 .. n : t[j] \in Elts /\ t[j] # e
      /\ \A j, k \in 1 .. n : t[j] = t[k] => j = k
  BY DEF Proper
<1>1. Len(v) = n /\ \A j \in 1 .. n : v[j] = IF j = i THEN e ELSE t[j]
  BY <1>0, ExceptSeq
<1>2. \A j \in 1 .. n : link[t[j]] = t[After(t, j)]
  BY DEF Onward, After
<1>3. \A j \in 1 .. n : /\ After(t, j) \in 1 .. n /\ Ahead(t, j) \in 1 .. n
                        /\ (After(t, j) = i <=> j = Ahead(t, i))
                        /\ (n # 1 => After(t, j) # j)
  BY <1>0, Neighbours
<1> HIDE DEF v, n
<1>4. ASSUME NEW j \in 1 .. n PROVE L[v[j]] = v[After(t, j)]
  <2>1. CASE n = 1
    <3>1. j = i /\ After(t, j) = i
      BY <1>0, <1>3, <2>1
    <3> QED BY <1>0, <1>1, <2>1, <3>1 DEF n
  <2>2. CASE n # 1 /\ j = i
    BY <1>0, <1>1, <1>3, <2>2 DEF n
  <2>3. CASE n # 1 /\ j = Ahead(t, i)
    <3>1. After(t, j) = i /\ j # i
      BY <1>3, <2>3
    <3> QED BY <1>0, <1>1, <2>3, <3>1 DEF n
  <2>4. CASE n # 1 /\ j # i /\ j # Ahead(t, i)
    <3>1. v[j] = t[j] /\ v[After(t, j)] = t[After(t, j)]
      BY <1>0, <1>1, <1>3, <2>4
    <3>2. t[j] # t[Ahead(t, i)]
      BY <1>0, <1>3, <2>4
    <3>3. L[t[j]] = link[t[j]]
      BY <1>0, <2>4, <3>2 DEF Changed, n
    <3> QED BY <1>2, <3>1, <3>3
  <2> QED BY <2>1, <2>2, <2>3, <2>4
<1> QED BY <1>1, <1>4 DEF Onward, After, v, n

LEMMA ReplaceBackward ==
  ASSUME NEW t, NEW e, Proper(t, e), NEW i \in 1 .. Len(t), NEW link, NEW L,
         Backward(t, link), L[e] = IF Len(t) = 1 THEN e ELSE t[Ahead(t, i)],
         Changed(L, link, e, IF Len(t) = 1 THEN e ELSE t[After(t, i)]),
         Len(t) # 1 => L[t[After(t, i)]] = e
  PROVE  Backward([t EXCEPT ![i] = e], L)
<1> DEFINE v == [t EXCEPT ![i] = e]
           n == Len(t)
<1>0. /\ t \in Seq(Elts) /\ n \in Nat /\ e \in Elts /\ i \in Nat /\ i \in 1 .. n
      /\ \A j \in 1 .. n : t[j] \in Elts /\ t[j] # e
      /\ \A j, k \in 1 .. n : t[j] = t[k] => j = k
  BY DEF Proper
<1>1. Len(v) = n /\ \A j \in 1 .. n : v[j] = IF j = i THEN e ELSE t[j]
  BY <1>0, ExceptSeq
<1>2. \A j \in 1 .. n : link[t[j]] = t[Ahead(t, j)]
  BY DEF Backward, Ahead
<1>3. \A j \in 1 .. n : /\ After(t, j) \in 1 .. n /\ Ahead(t, j) \in 1 .. n
                        /\ (Ahead(t, j) = i <=> j = After(t, i))
                        /\ (n # 1 => Ahead(t, j) # j)
  BY <1>0, Neighbours
<1> HIDE DEF v, n
<1>4. ASSUME NEW j \in 1 .. n PROVE L[v[j]] = v[Ahead(t, j)]
  <2>1. CASE n = 1
    <3>1. j = i /\ Ahead(t, j) = i
      BY <1>0, <1>3, <2>1
    <3> QED BY <1>0, <1>1, <2>1, <3>1 DEF n
  <2>2. CASE n # 1 /\ j = i
    BY <1>0, <1>1, <1>3, <2>2 DEF n
  <2>3. CASE n # 1 /\ j = After(t, i)
    <3>1. Ahead(t, j) = i /\ j # i
      BY <1>3, <2>3
    <3> QED BY <1>0, <1>1, <2>3, <3>1 DEF n
  <2>4. CASE n # 1 /\ j # i /\ j # After(t, i)
    <3>1. v[j] = t[j] /\ v[Ahead(t, j)] = t[Ahead(t, j)]
      BY <1>0, <1>1, <1>3, <2>4
    <3>2. t[j] # t[After(t, i)]
      BY <1>0, <1>3, <2>4
    <3>3. L[t[j]] = link[t[j]]
      BY <1>0, <2>4, <3>2 DEF Changed, n
    <3> QED BY <1>2, <3>1, <3>3
  <2> QED BY <2>1, <2>2, <2>3, <2>4
<1> QED BY <1>1, <1>4 DEF Backward, Ahead, v, n

Distinct(t) ==
  /\ t \in Seq(Elts) /\ Len(t) \in Nat /\ \A j \in 1 .. Len(t) : t[j] \in Elts
  /\ \A j, k \in 1 .. Len(t) : t[j] = t[k] => j = k

LEMMA RemoveLinked ==
  ASSUME NEW t, Distinct(t), NEW i \in 1 .. Len(t), NEW link, NEW L, Linked(t, link),
         Changed(L, link, t[i], IF i = 1 THEN t[i] ELSE t[i - 1]),
         i > 1 => L[t[i - 1]] = At(t, i + 1)
  PROVE  Linked(List!Order!RemoveAt(t, i), L)
<1> DEFINE v == List!Order!RemoveAt(t, i)
           n == Len(t)
<1>0. /\ t \in Seq(Elts) /\ n \in Nat /\ i \in Nat
      /\ \A j \in 1 .. n : t[j] \in Elts
      /\ \A j, k \in 1 .. n : t[j] = t[k] => j = k
  BY DEF Distinct
<1>1. Len(v) = n - 1 /\ \A j \in 1 .. n - 1 : v[j] = IF j < i THEN t[j] ELSE t[j + 1]
  BY <1>0, RemovedIs
<1>2. \A j \in 1 .. n : link[t[j]] = IF j + 1 <= n THEN t[j + 1] ELSE NULL
  BY DEF Linked, At
<1>3. i > 1 => L[t[i - 1]] = IF i + 1 <= n THEN t[i + 1] ELSE NULL
  BY DEF At
<1>4. i >= 1 /\ i <= n
  OBVIOUS
<1> HIDE DEF v, n
<1>5. ASSUME NEW k \in 1 .. n, k # i, k # i - 1 PROVE L[t[k]] = link[t[k]]
  <2>1. t[k] # t[i] /\ (i > 1 => t[k] # t[i - 1])
    BY <1>0, <1>4, <1>5
  <2> QED BY <1>0, <1>4, <2>1 DEF Changed
<1>6. ASSUME NEW j \in 1 .. n - 1 PROVE L[v[j]] = IF j + 1 <= n - 1 THEN v[j + 1] ELSE NULL
  <2>0. j \in Nat
    BY <1>0
  <2>1. CASE j < i - 1
    <3>1. j \in 1 .. n /\ j # i /\ j # i - 1 /\ j + 1 \in 1 .. n - 1 /\ j + 1 < i /\ j < i
      BY <1>0, <1>4, <2>0, <2>1
    <3>2. v[j] = t[j] /\ v[j + 1] = t[j + 1]
      BY <1>1, <3>1
    <3>3. L[t[j]] = link[t[j]]
      BY <1>5, <3>1
    <3> QED BY <1>0, <1>2, <2>0, <3>1, <3>2, <3>3
  <2>2. CASE j = i - 1
    <3>1. i > 1 /\ v[j] = t[i - 1] /\ j + 1 = i
      BY <1>0, <1>1, <1>4, <2>0, <2>2
    <3>2. i <= n - 1 => v[i] = t[i + 1]
      BY <1>0, <1>1, <1>4
    <3>3. i + 1 <= n <=> i <= n - 1
      BY <1>0
    <3> QED BY <1>3, <3>1, <3>2, <3>3
  <2>3. CASE j >= i
    <3>1. j + 1 \in 1 .. n /\ j + 1 # i /\ j + 1 # i - 1 /\ v[j] = t[j + 1]
      BY <1>0, <1>1, <1>4, <2>0, <2>3
    <3>2. L[v[j]] = IF j + 1 + 1 <= n THEN t[j + 1 + 1] ELSE NULL
      BY <1>2, <1>5, <3>1
    <3>3. j + 1 <= n - 1 => v[j + 1] = t[j + 1 + 1]
      BY <1>0, <1>1, <1>4, <2>0, <2>3
    <3>4. j + 1 + 1 <= n <=> j + 1 <= n - 1
      BY <1>0, <2>0
    <3> QED BY <3>2, <3>3, <3>4
  <2> QED BY <1>0, <2>0, <2>1, <2>2, <2>3
<1> QED BY <1>1, <1>6 DEF Linked, At, v

LEMMA RemoveOnward ==
  ASSUME NEW t, Distinct(t), NEW i \in 1 .. Len(t), NEW link, NEW L, Onward(t, link),
         Len(t) # 1 => Changed(L, link, t[i], t[Ahead(t, i)]) /\ L[t[Ahead(t, i)]] = t[After(t, i)]
  PROVE  Onward(List!Order!RemoveAt(t, i), L)
<1> DEFINE v == List!Order!RemoveAt(t, i)
           n == Len(t)
           b == IF i = 1 THEN n ELSE i - 1
           c == IF i = n THEN 1 ELSE i + 1
<1>0. /\ t \in Seq(Elts) /\ n \in Nat /\ i \in Nat
      /\ \A j \in 1 .. n : t[j] \in Elts
      /\ \A j, k \in 1 .. n : t[j] = t[k] => j = k
  BY DEF Distinct
<1>1. Len(v) = n - 1 /\ \A j \in 1 .. n - 1 : v[j] = IF j < i THEN t[j] ELSE t[j + 1]
  BY <1>0, RemovedIs
<1>2. \A j \in 1 .. n : link[t[j]] = t[IF j = n THEN 1 ELSE j + 1]
  BY DEF Onward
<1>3. n # 1 => Changed(L, link, t[i], t[b]) /\ L[t[b]] = t[c]
  BY DEF Ahead, After
<1>4. i >= 1 /\ i <= n
  OBVIOUS
<1> HIDE DEF v, n
<1>5. ASSUME NEW k \in 1 .. n, k # i, k # b, n # 1 PROVE L[t[k]] = link[t[k]]
  <2>1. b \in 1 .. n /\ i \in 1 .. n
    BY <1>0, <1>4
  <2>2. t[k] # t[i] /\ t[k] # t[b]
    BY <1>0, <1>5, <2>1
  <2> QED BY <1>0, <1>3, <1>5, <2>2 DEF Changed
<1>6. ASSUME NEW j \in 1 .. n - 1 PROVE L[v[j]] = v[IF j = n - 1 THEN 1 ELSE j + 1]
  <2>0. j \in Nat /\ n # 1 /\ n > 1 /\ L[t[b]] = t[c]
    BY <1>0, <1>3
  <2>1. CASE j < i - 1
    <3>1. /\ j \in 1 .. n /\ j # i /\ j # b /\ j + 1 \in 1 .. n - 1 /\ j + 1 < i /\ j < i
          /\ j # n /\ j # n - 1
      BY <1>0, <1>4, <2>0, <2>1
    <3>2. v[j] = t[j] /\ v[j + 1] = t[j + 1]
      BY <1>1, <3>1
    <3>3. L[t[j]] = link[t[j]]
      BY <1>5, <2>0, <3>1
    <3> QED BY <1>2, <3>1, <3>2, <3>3
  <2>2. CASE j = i - 1
    <3>1. i > 1 /\ b = i - 1 /\ v[j] = t[b] /\ j + 1 = i
      BY <1>0, <1>1, <1>4, <2>0, <2>2
    <3>2. CASE i = n
      <4>1. j = n - 1 /\ c = 1 /\ v[1] = t[1]
        BY <1>0, <1>1, <2>0, <2>2, <3>1, <3>2
      <4> QED BY <2>0, <3>1, <4>1
    <3>3. CASE i # n
      <4>1. i \in 1 .. n - 1 /\ j # n - 1 /\ c = i + 1 /\ ~ (i < i)
        BY <1>0, <1>4, <2>0, <2>2, <3>3
      <4>2. v[i] = t[i + 1]
        BY <1>1, <4>1
      <4> QED BY <2>0, <3>1, <4>1, <4>2
    <3> QED BY <3>2, <3>3
  <2>3. CASE j >= i
    <3>1. j + 1 \in 1 .. n /\ v[j] = t[j + 1] /\ j + 1 # i
      BY <1>0, <1>1, <1>4, <2>0, <2>3
    <3>2. CASE j = n - 1
      <4>1. CASE i = 1
        <5>1. b = n /\ c = 2 /\ j + 1 = n /\ 1 \in 1 .. n - 1 /\ ~ (1 < i) /\ 1 + 1 = 2
          BY <1>0, <2>0, <3>2, <4>1
        <5>2. v[1] = t[2]
          BY <1>1, <5>1
        <5> QED BY <2>0, <3>1, <3>2, <5>1, <5>2
      <4>2. CASE i # 1
        <5>1. b # j + 1 /\ j + 1 = n /\ 1 \in 1 .. n - 1 /\ 1 < i
          BY <1>0, <1>4, <2>0, <2>3, <3>2, <4>2
        <5>2. v[1] = t[1]
          BY <1>1, <5>1
        <5>3. L[t[j + 1]] = t[1]
          BY <1>2, <1>5, <2>0, <3>1, <5>1
        <5> QED BY <3>1, <3>2, <5>2, <5>3
      <4> QED BY <4>1, <4>2
    <3>3. CASE j # n - 1
      <4>1. j + 1 # b /\ j + 1 # n /\ j + 1 \in 1 .. n - 1 /\ ~ (j + 1 < i)
        BY <1>0, <1>4, <2>0, <2>3, <3>3
      <4>2. v[j + 1] = t[j + 1 + 1]
        BY <1>1, <4>1
      <4>3. L[t[j + 1]] = t[j + 1 + 1]
        BY <1>2, <1>5, <2>0, <3>1, <4>1
      <4> QED BY <3>1, <3>3, <4>2, <4>3
    <3> QED BY <3>2, <3>3
  <2> QED BY <1>0, <2>0, <2>1, <2>2, <2>3
<1> QED BY <1>1, <1>6 DEF Onward, v

LEMMA RemoveBackward ==
  ASSUME NEW t, Distinct(t), NEW i \in 1 .. Len(t), NEW link, NEW L, Backward(t, link),
         Len(t) # 1 => Changed(L, link, t[i], t[After(t, i)]) /\ L[t[After(t, i)]] = t[Ahead(t, i)]
  PROVE  Backward(List!Order!RemoveAt(t, i), L)
<1> DEFINE v == List!Order!RemoveAt(t, i)
           n == Len(t)
           b == IF i = 1 THEN n ELSE i - 1
           c == IF i = n THEN 1 ELSE i + 1
<1>0. /\ t \in Seq(Elts) /\ n \in Nat /\ i \in Nat
      /\ \A j \in 1 .. n : t[j] \in Elts
      /\ \A j, k \in 1 .. n : t[j] = t[k] => j = k
  BY DEF Distinct
<1>1. Len(v) = n - 1 /\ \A j \in 1 .. n - 1 : v[j] = IF j < i THEN t[j] ELSE t[j + 1]
  BY <1>0, RemovedIs
<1>2. \A j \in 1 .. n : link[t[j]] = t[IF j = 1 THEN n ELSE j - 1]
  BY DEF Backward
<1>3. n # 1 => Changed(L, link, t[i], t[c]) /\ L[t[c]] = t[b]
  BY DEF Ahead, After
<1>4. i >= 1 /\ i <= n
  OBVIOUS
<1> HIDE DEF v, n
<1>5. ASSUME NEW k \in 1 .. n, k # i, k # c, n # 1 PROVE L[t[k]] = link[t[k]]
  <2>1. c \in 1 .. n /\ i \in 1 .. n
    BY <1>0, <1>4
  <2>2. t[k] # t[i] /\ t[k] # t[c]
    BY <1>0, <1>5, <2>1
  <2> QED BY <1>0, <1>3, <1>5, <2>2 DEF Changed
<1>6. ASSUME NEW j \in 1 .. n - 1 PROVE L[v[j]] = v[IF j = 1 THEN n - 1 ELSE j - 1]
  <2>0. j \in Nat /\ n # 1 /\ n > 1 /\ L[t[c]] = t[b]
    BY <1>0, <1>3
  <2>1. CASE j < i
    <3>1. j \in 1 .. n /\ v[j] = t[j] /\ j # i
      BY <1>0, <1>1, <1>4, <2>0, <2>1
    <3>2. CASE j = 1
      <4>1. CASE i = n
        <5>1. c = 1 /\ b = n - 1 /\ n - 1 \in 1 .. n - 1 /\ n - 1 < i
          BY <1>0, <2>0, <2>1, <3>2, <4>1
        <5>2. v[n - 1] = t[n - 1]
          BY <1>1, <5>1
        <5> QED BY <2>0, <3>1, <3>2, <5>1, <5>2
      <4>2. CASE i # n
        <5>1. c # 1 /\ n - 1 \in 1 .. n - 1 /\ ~ (n - 1 < i) /\ n - 1 + 1 = n
          BY <1>0, <1>4, <2>0, <3>2, <4>2
        <5>2. v[n - 1] = t[n]
          BY <1>1, <5>1
        <5>3. L[t[j]] = t[n]
          BY <1>2, <1>5, <2>0, <3>1, <3>2, <5>1
        <5> QED BY <3>1, <3>2, <5>2, <5>3
      <4> QED BY <4>1, <4>2
    <3>3. CASE j # 1
      <4>1. j # c /\ j - 1 \in 1 .. n - 1 /\ j - 1 < i
        BY <1>0, <1>4, <2>0, <2>1, <3>3
      <4>2. v[j - 1] = t[j - 1]
        BY <1>1, <4>1
      <4>3. L[t[j]] = t[j - 1]
        BY <1>2, <1>5, <2>0, <3>1, <3>3, <4>1
      <4> QED BY <3>1, <3>3, <4>2, <4>3
    <3> QED BY <3>2, <3>3
  <2>2. CASE j = i
    <3>1. i # n /\ c = i + 1 /\ v[j] = t[c]
      BY <1>0, <1>1, <1>4, <2>0, <2>2
    <3>2. CASE i = 1
      <4>1. b = n /\ n - 1 \in 1 .. n - 1 /\ ~ (n - 1 < i) /\ n - 1 + 1 = n
        BY <1>0, <2>0, <3>2
      <4>2. v[n - 1] = t[n]
        BY <1>1, <4>1
      <4> QED BY <2>0, <2>2, <3>1, <3>2, <4>1, <4>2
    <3>3. CASE i # 1
      <4>1. b = i - 1 /\ i - 1 \in 1 .. n - 1 /\ i - 1 < i
        BY <1>0, <1>4, <3>3
      <4>2. v[i - 1] = t[i - 1]
        BY <1>1, <4>1
      <4> QED BY <2>0, <2>2, <3>1, <3>3, <4>1, <4>2
    <3> QED BY <3>2, <3>3
  <2>3. CASE j > i
    <3>1. /\ j + 1 \in 1 .. n /\ j + 1 # i /\ j + 1 # c /\ j + 1 # 1 /\ j # 1
          /\ j - 1 \in 1 .. n - 1 /\ ~ (j - 1 < i) /\ j - 1 + 1 = j /\ j + 1 - 1 = j /\ ~ (j < i)
      BY <1>0, <1>4, <2>0, <2>3
    <3>2. v[j] = t[j + 1] /\ v[j - 1] = t[j]
      BY <1>1, <3>1
    <3>3. L[t[j + 1]] = t[j]
      BY <1>2, <1>5, <2>0, <3>1
    <3> QED BY <3>1, <3>2, <3>3
  <2> QED BY <1>0, <2>0, <2>1, <2>2, <2>3
<1> QED BY <1>1, <1>6 DEF Backward, v

-----------------------------------------------------------------------------
(* The links after one list is put behind another *)

LEMMA JoinLinked ==
  ASSUME NEW t, Distinct(t), NEW u, Distinct(u), \A j \in 1 .. Len(t), k \in 1 .. Len(u) : t[j] # u[k],
         NEW link, NEW L, Linked(t, link), Linked(u, link),
         \A y \in Elts : (Len(t) = 0 \/ y # t[Len(t)]) => L[y] = link[y],
         Len(t) # 0 => L[t[Len(t)]] = At(u, 1)
  PROVE  Linked(t \o u, L)
<1> DEFINE n == Len(t)
           m == Len(u)
           v == t \o u
<1>0. /\ n \in Nat /\ m \in Nat
      /\ \A j \in 1 .. n : t[j] \in Elts /\ \A k \in 1 .. n : t[j] = t[k] => j = k
      /\ \A j \in 1 .. m : u[j] \in Elts
  BY DEF Distinct
<1>1. Len(v) = n + m /\ (\A j \in 1 .. n : v[j] = t[j]) /\ \A j \in 1 .. m : v[n + j] = u[j]
  <2>1. Len(v) = n + m /\ \A j \in 1 .. n + m : v[j] = IF j <= n THEN t[j] ELSE u[j - n]
    BY ConcatProperties DEF Distinct
  <2> HIDE DEF n, m, v
  <2>2. ASSUME NEW j \in 1 .. m PROVE v[n + j] = u[j]
    <3> DEFINE k == n + j
    <3>1. k \in 1 .. n + m /\ ~ (k <= n) /\ k - n = j
      BY <1>0
    <3> HIDE DEF k
    <3>2. v[k] = u[k - n]
      BY <2>1, <3>1
    <3> QED BY <3>1, <3>2 DEF k
  <2> QED BY <1>0, <2>1, <2>2
<1>2. /\ \A j \in 1 .. n : link[t[j]] = IF j + 1 <= n THEN t[j + 1] ELSE NULL
      /\ \A j \in 1 .. m : link[u[j]] = IF j + 1 <= m THEN u[j + 1] ELSE NULL
  BY DEF Linked, At
<1>3. n # 0 => L[t[n]] = IF 1 <= m THEN u[1] ELSE NULL
  BY DEF At
<1>4. /\ \A j \in 1 .. n : j # n => L[t[j]] = link[t[j]]
      /\ \A j \in 1 .. m : L[u[j]] = link[u[j]]
  BY <1>0
<1> HIDE DEF n, m, v
<1>5. ASSUME NEW j \in 1 .. n + m PROVE L[v[j]] = IF j + 1 <= n + m THEN v[j + 1] ELSE NULL
  <2>0. j \in Nat
    BY <1>0
  <2>1. CASE j < n
    <3>1. j \in 1 .. n /\ j + 1 \in 1 .. n + m /\ j + 1 <= n /\ j # n /\ j <= n
      BY <1>0, <2>0, <2>1
    <3>2. v[j] = t[j] /\ v[j + 1] = t[j + 1]
      BY <1>1, <3>1
    <3> QED BY <1>0, <1>2, <1>4, <2>0, <3>1, <3>2
  <2>2. CASE j = n
    <3>1. v[j] = t[n] /\ n # 0
      BY <1>0, <1>1, <2>2
    <3>2. CASE m = 0
      BY <1>0, <1>3, <2>2, <3>1, <3>2
    <3>3. CASE m # 0
      <4>1. v[n + 1] = u[1] /\ 1 <= m
        BY <1>0, <1>1, <3>3
      <4> QED BY <1>0, <1>3, <2>2, <3>1, <3>3, <4>1
    <3> QED BY <3>2, <3>3
  <2>3. CASE j > n
    <3> DEFINE k == j - n
    <3>1. k \in 1 .. m /\ j = n + k /\ j + 1 = n + (k + 1) /\ (j + 1 <= n + m <=> k + 1 <= m)
      BY <1>0, <2>0, <2>3
    <3> HIDE DEF k
    <3>2. v[j] = u[k] /\ (k + 1 <= m => v[j + 1] = u[k + 1])
      BY <1>0, <1>1, <3>1
    <3>3. L[u[k]] = IF k + 1 <= m THEN u[k + 1] ELSE NULL
      BY <1>2, <1>4, <3>1
    <3> QED BY <3>1, <3>2, <3>3
  <2> QED BY <1>0, <2>0, <2>1, <2>2, <2>3
<1> QED BY <1>1, <1>5 DEF Linked, At, v

LEMMA JoinBackward ==
  ASSUME NEW t, Distinct(t), NEW u, Distinct(u), \A j \in 1 .. Len(t), k \in 1 .. Len(u) : t[j] # u[k],
         Len(t) # 0, Len(u) # 0, NEW link, NEW L, Backward(t, link), Backward(u, link),
         L[u[1]] = t[Len(t)], L[t[1]] = u[Len(u)], Changed(L, link, u[1], t[1])
  PROVE  Backward(t \o u, L)
<1> DEFINE n == Len(t)
           m == Len(u)
           v == t \o u
<1>0. /\ n \in Nat /\ m \in Nat /\ n # 0 /\ m # 0
      /\ \A j \in 1 .. n : t[j] \in Elts /\ \A k \in 1 .. n : t[j] = t[k] => j = k
      /\ \A j \in 1 .. m : u[j] \in Elts /\ \A k \in 1 .. m : u[j] = u[k] => j = k
  BY DEF Distinct
<1>1. Len(v) = n + m /\ (\A j \in 1 .. n : v[j] = t[j]) /\ \A j \in 1 .. m : v[n + j] = u[j]
  <2>1. Len(v) = n + m /\ \A j \in 1 .. n + m : v[j] = IF j <= n THEN t[j] ELSE u[j - n]
    BY ConcatProperties DEF Distinct
  <2> HIDE DEF n, m, v
  <2>2. ASSUME NEW j \in 1 .. m PROVE v[n + j] = u[j]
    <3> DEFINE k == n + j
    <3>1. k \in 1 .. n + m /\ ~ (k <= n) /\ k - n = j
      BY <1>0
    <3> HIDE DEF k
    <3>2. v[k] = u[k - n]
      BY <2>1, <3>1
    <3> QED BY <3>1, <3>2 DEF k
  <2> QED BY <1>0, <2>1, <2>2
<1>2. /\ \A j \in 1 .. n : link[t[j]] = t[IF j = 1 THEN n ELSE j - 1]
      /\ \A j \in 1 .. m : link[u[j]] = u[IF j = 1 THEN m ELSE j - 1]
  BY DEF Backward
<1>3. /\ \A j \in 1 .. n : j # 1 => L[t[j]] = link[t[j]]
      /\ \A j \in 1 .. m : j # 1 => L[u[j]] = link[u[j]]
  <2>1. 1 \in 1 .. n /\ 1 \in 1 .. m
    BY <1>0
  <2> QED BY <1>0, <2>1 DEF Changed
<1>4. L[u[1]] = t[n] /\ L[t[1]] = u[m]
  OBVIOUS
<1> HIDE DEF n, m, v
<1>5. ASSUME NEW j \in 1 .. n + m PROVE L[v[j]] = v[IF j = 1 THEN n + m ELSE j - 1]
  <2>0. j \in Nat
    BY <1>0
  <2>1. CASE j = 1
    <3>1. m \in 1 .. m /\ 1 \in 1 .. n
      BY <1>0
    <3>2. v[n + m] = u[m] /\ v[1] = t[1]
      BY <1>1, <3>1
    <3> QED BY <1>4, <2>1, <3>2
  <2>2. CASE j # 1 /\ j <= n
    <3>1. j \in 1 .. n /\ j - 1 \in 1 .. n + m /\ j - 1 <= n
      BY <1>0, <2>0, <2>2
    <3>2. v[j] = t[j] /\ v[j - 1] = t[j - 1]
      BY <1>1, <2>2, <3>1
    <3>3. L[t[j]] = t[j - 1]
      BY <1>2, <1>3, <2>2, <3>1
    <3> QED BY <2>2, <3>2, <3>3
  <2>3. CASE j > n
    <3> DEFINE k == j - n
    <3>1. k \in 1 .. m /\ j = n + k /\ j - 1 = n + (k - 1) /\ j # 1
      BY <1>0, <2>0, <2>3
    <3> HIDE DEF k
    <3>2. v[j] = u[k]
      BY <1>1, <3>1
    <3>3. CASE k = 1
      <4>1. v[n] = t[n] /\ j - 1 = n
        BY <1>0, <1>1, <3>1, <3>3
      <4> QED BY <1>4, <3>1, <3>2, <3>3, <4>1
    <3>4. CASE k # 1
      <4>1. k - 1 \in 1 .. m
        BY <1>0, <3>1, <3>4
      <4>2. v[j - 1] = u[k - 1]
        BY <1>1, <3>1, <4>1
      <4>3. L[u[k]] = u[k - 1]
        BY <1>2, <1>3, <3>1, <3>4
      <4> QED BY <3>1, <3>2, <4>2, <4>3
    <3> QED BY <3>3, <3>4
  <2> QED BY <1>0, <2>0, <2>1, <2>2, <2>3
<1> QED BY <1>1, <1>5 DEF Backward, v

-----------------------------------------------------------------------------
(* The macros on a singly linked list *)

LEMMA ProperIn ==
  ASSUME NEW ord \in Orders, NEW h \in Heads, NEW e \in Elts, Outside(ord, e)
  PROVE  Proper(ord[h], e)
BY OrderIs DEF Proper, Outside

LEMMA DistinctIn ==
  ASSUME NEW ord \in Orders, NEW h \in Heads
  PROVE  Distinct(ord[h])
BY OrderIs DEF Distinct

LEMMA SparesTwo ==
  ASSUME NEW ord \in Orders, NEW h \in Heads, NEW L, NEW link, NEW x, NEW y,
         Changed(L, link, x, y),
         Outside(ord, x) \/ \E j \in 1 .. Len(ord[h]) : x = ord[h][j],
         Outside(ord, y) \/ \E j \in 1 .. Len(ord[h]) : y = ord[h][j]
  PROVE  Spares(L, link, ord, h)
BY DEF Spares, Changed

LEMMA LLParts ==
  ASSUME NEW l, NEW ord, LLIs(l, ord)
  PROVE  /\ l = [head |-> l.head, next |-> l.next]
         /\ l.head \in [Heads -> Nodes] /\ l.next \in Linkage
         /\ \A h \in Heads : l.head[h] = At(ord[h], 1) /\ Linked(ord[h], l.next)
BY DEF LLIs, Single

LEMMA SingleIs ==
  ASSUME NEW hd \in [Heads -> Nodes], NEW nx \in Linkage
  PROVE  LET r == [head |-> hd, next |-> nx]
         IN  r \in Single /\ r.head = hd /\ r.next = nx
BY DEF Single

LEMMA SingleSet ==
  ASSUME NEW l, l = [head |-> l.head, next |-> l.next], NEW hd, NEW nx
  PROVE  [l EXCEPT !.next = nx, !.head = hd] = [head |-> hd, next |-> nx]
<1>1. DOMAIN l = {"head", "next"}
  OBVIOUS
<1>2. [l EXCEPT !.next = nx, !.head = hd]
        = [g \in {"head", "next"} |-> IF g = "head" THEN hd ELSE nx]
  BY <1>1
<1> QED BY <1>2

LEMMA LLInserts ==
  ASSUME NEW ord \in Orders, NEW h \in Heads, NEW i \in 1 .. Len(ord[h]) + 1,
         NEW e \in Elts, Outside(ord, e), NEW l, LLIs(l, ord), NEW hd, NEW nx \in Linkage,
         hd = [l.head EXCEPT ![h] = IF i = 1 THEN e ELSE @],
         nx[e] = At(ord[h], i),
         Changed(nx, l.next, e, IF i = 1 THEN e ELSE ord[h][i - 1]),
         i > 1 => nx[ord[h][i - 1]] = e
  PROVE  LLIs([head |-> hd, next |-> nx], Inserted(ord, h, i, e))
<1> DEFINE t == ord[h]
           v == List!Order!Enter(t, i, e)
           r == [head |-> hd, next |-> nx]
           x == IF i = 1 THEN e ELSE t[i - 1]
<1>0. /\ Proper(t, e) /\ t \in Seq(Elts) /\ Len(t) \in Nat /\ Linked(t, l.next)
      /\ l.head \in [Heads -> Nodes] /\ l.head[h] = At(t, 1)
  BY ProperIn, OrderIs, LLParts
<1>1. Linked(v, nx)
  BY <1>0, EnterLinked
<1>2. At(v, 1) = IF i = 1 THEN e ELSE l.head[h]
  <2>1. v[1] = (IF 1 < i THEN t[1] ELSE IF 1 = i THEN e ELSE t[1 - 1]) /\ Len(v) = Len(t) + 1
    <3>1. 1 \in 1 .. Len(t) + 1
      BY <1>0
    <3>2. IsEntered(t, i, e, v)
      BY <1>0, EnteredNamed
    <3> HIDE DEF t, v
    <3> QED BY <3>1, <3>2 DEF IsEntered
  <2>2. i # 1 => 1 <= Len(t) /\ 1 < i
    BY <1>0
  <2> HIDE DEF v, t
  <2> QED BY <1>0, <2>1, <2>2 DEF At
<1>3. hd \in [Heads -> Nodes]
  BY <1>0 DEF Nodes
<1>4. r \in Single /\ r.head = hd /\ r.next = nx
  BY <1>3, SingleIs
<1>5. Spares(nx, l.next, ord, h)
  <2>1. x = e \/ \E j \in 1 .. Len(t) : x = t[j]
    <3>1. i # 1 => i - 1 \in 1 .. Len(t)
      BY <1>0
    <3> QED BY <3>1
  <2> HIDE DEF x
  <2>2. Changed(nx, l.next, e, x)
    BY DEF x
  <2> QED BY <2>1, <2>2, SparesTwo
<1>6. r.head = [l.head EXCEPT ![h] = At(v, 1)]
  BY <1>2, <1>4
<1> HIDE DEF r, v
<1>7. LLIs(r, [ord EXCEPT ![h] = v])
  BY <1>1, <1>4, <1>5, <1>6, LLChanges
<1> QED BY <1>7 DEF Inserted, r, v

LEMMA LLPrepends ==
  ASSUME NEW ord \in Orders, NEW h \in Heads, NEW e \in Elts, Outside(ord, e),
         NEW l, LLIs(l, ord)
  PROVE  LLIs(List!LL_PREPEND(l, h, e), Inserted(ord, h, 1, e))
<1> DEFINE hd == [l.head EXCEPT ![h] = e]
           nx == [l.next EXCEPT ![e] = l.head[h]]
<1>0. /\ l = [head |-> l.head, next |-> l.next] /\ l.head \in [Heads -> Nodes]
      /\ l.next \in Linkage /\ l.head[h] = At(ord[h], 1) /\ Len(ord[h]) \in Nat
  BY LLParts, OrderIs
<1>1. List!LL_PREPEND(l, h, e) = [head |-> hd, next |-> nx]
  <2>1. List!LL_PREPEND(l, h, e) = [l EXCEPT !.next = nx, !.head = hd]
    BY <1>0 DEF List!LL_PREPEND
  <2> HIDE DEF hd, nx
  <2> QED BY <1>0, <2>1, SingleSet
<1>2. nx \in Linkage /\ nx[e] = At(ord[h], 1) /\ Changed(nx, l.next, e, e)
  BY <1>0 DEF Linkage, Changed
<1>3. 1 \in 1 .. Len(ord[h]) + 1 /\ hd = [l.head EXCEPT ![h] = IF 1 = 1 THEN e ELSE @] /\ ~ (1 > 1)
  BY <1>0
<1> HIDE DEF hd, nx
<1> QED BY <1>1, <1>2, <1>3, LLInserts

LEMMA LLAppends ==
  ASSUME StackAssumption, NEW ord \in Orders, NEW h \in Heads, NEW e \in Elts, Outside(ord, e),
         NEW l, LLIs(l, ord)
  PROVE  LLIs(List!LL_APPEND(l, h, e), Inserted(ord, h, Len(ord[h]) + 1, e))
<1> DEFINE t == ord[h]
           n == Len(t)
<1>0. /\ l = [head |-> l.head, next |-> l.next] /\ l.head \in [Heads -> Nodes]
      /\ l.next \in Linkage /\ l.head[h] = At(t, 1) /\ n \in Nat
      /\ \A j \in 1 .. n : t[j] \in Elts /\ t[j] # e
  BY LLParts, OrderIs DEF Outside
<1>1. l.head[h] = NULL <=> n = 0
  BY <1>0 DEF At, StackAssumption
<1>2. At(t, n + 1) = NULL
  BY <1>0 DEF At
<1>3. CASE n = 0
  <2> DEFINE hd == [l.head EXCEPT ![h] = e]
             nx == [l.next EXCEPT ![e] = NULL]
  <2>1. List!LL_APPEND(l, h, e) = [head |-> hd, next |-> nx]
    BY <1>0, <1>1, <1>3 DEF List!LL_APPEND
  <2>2. nx \in Linkage /\ nx[e] = At(t, n + 1) /\ Changed(nx, l.next, e, e)
    BY <1>0, <1>2 DEF Linkage, Changed, Nodes
  <2>3. n + 1 \in 1 .. n + 1 /\ n + 1 = 1 /\ ~ (n + 1 > 1)
    BY <1>0, <1>3
  <2>4. hd = [l.head EXCEPT ![h] = IF n + 1 = 1 THEN e ELSE @]
    BY <2>3
  <2> HIDE DEF hd, nx
  <2> QED BY <2>1, <2>2, <2>3, <2>4, LLInserts
<1>4. CASE n # 0
  <2> DEFINE nx == [l.next EXCEPT ![e] = NULL, ![t[n]] = e]
  <2>1. List!Last(List!LL_FOREACH(l, h)) = t[n]
    BY WalksAre DEF List!Last
  <2>2. n \in 1 .. n /\ n + 1 - 1 = n /\ n + 1 # 1 /\ n + 1 > 1 /\ n + 1 \in 1 .. n + 1
    BY <1>0, <1>4
  <2>3. List!LL_APPEND(l, h, e) = [head |-> l.head, next |-> nx]
    BY <1>0, <1>1, <1>4, <2>1 DEF List!LL_APPEND
  <2>4. /\ nx \in Linkage /\ nx[e] = At(t, n + 1) /\ Changed(nx, l.next, e, t[n])
        /\ nx[t[n]] = e
    BY <1>0, <1>2, <2>2 DEF Linkage, Changed, Nodes
  <2>5. l.head = [l.head EXCEPT ![h] = IF n + 1 = 1 THEN e ELSE @]
    BY <1>0, <2>2
  <2> HIDE DEF nx
  <2> QED BY <2>2, <2>3, <2>4, <2>5, LLInserts
<1> QED BY <1>3, <1>4

LEMMA BeforeIs ==
  ASSUME StackAssumption, NEW ord \in Orders, NEW h \in Heads, NEW i \in 1 .. Len(ord[h]),
         NEW l, LLIs(l, ord)
  PROVE  List!Before(l, h, ord[h][i]) = IF i = 1 THEN NULL ELSE ord[h][i - 1]
<1> DEFINE t == ord[h]
           who == { j \in DOMAIN t : l.next[t[j]] = t[i] }
<1>0. /\ Len(t) \in Nat /\ DOMAIN t = 1 .. Len(t) /\ l.head[h] = At(t, 1) /\ i \in Nat
      /\ \A j \in 1 .. Len(t) : l.next[t[j]] = At(t, j + 1) /\ t[j] \in Elts
      /\ \A j, k \in 1 .. Len(t) : t[j] = t[k] => j = k
  BY LLParts, OrderIs DEF Linked
<1>1. List!Before(l, h, t[i])
        = IF l.head[h] = t[i] \/ who = {} THEN NULL
          ELSE t[CHOOSE j \in who : \A k \in who : j <= k]
  <2>1. List!LL_FOREACH(l, h) = t
    BY WalksAre
  <2> HIDE DEF t
  <2> QED BY <2>1 DEF List!Before
<1>2. ASSUME NEW j \in 1 .. Len(t) PROVE At(t, j + 1) = t[i] <=> j + 1 = i
  <2>1. CASE j + 1 <= Len(t)
    <3>1. j + 1 \in 1 .. Len(t) /\ i \in 1 .. Len(t)
      BY <1>0, <2>1
    <3> HIDE DEF t
    <3> QED BY <1>0, <2>1, <3>1 DEF At
  <2>2. CASE ~ (j + 1 <= Len(t))
    <3>1. j + 1 # i /\ At(t, j + 1) = NULL /\ t[i] # NULL
      BY <1>0, <2>2 DEF At, StackAssumption
    <3> QED BY <3>1
  <2> QED BY <2>1, <2>2
<1>3. i # 1 => who = {i - 1}
  BY <1>0, <1>2
<1>4. l.head[h] = t[i] <=> i = 1
  BY <1>0 DEF At
<1> HIDE DEF t, who
<1>5. CASE i = 1
  BY <1>1, <1>4, <1>5 DEF t
<1>6. CASE i # 1
  <2>1. (CHOOSE j \in who : \A k \in who : j <= k) = i - 1
    BY <1>0, <1>3, <1>6
  <2> QED BY <1>1, <1>3, <1>4, <1>6, <2>1 DEF t
<1> QED BY <1>5, <1>6

\* What points to the i-th, now points to p.
HeadTo(hd, h, i, p) == [hd EXCEPT ![h] = IF i = 1 THEN p ELSE @]
LinkTo(nx, t, i, p) == IF i = 1 THEN nx ELSE [nx EXCEPT ![t[i - 1]] = p]

SLL(hd, nx) == [head |-> hd, next |-> nx]

LEMMA RedirectIs ==
  ASSUME StackAssumption, NEW ord \in Orders, NEW h \in Heads, NEW i \in 1 .. Len(ord[h]),
         NEW l, LLIs(l, ord), NEW p
  PROVE  List!Redirect(l, h, ord[h][i], p)
           = SLL(HeadTo(l.head, h, i, p), LinkTo(l.next, ord[h], i, p))
<1> DEFINE t == ord[h]
           hd == HeadTo(l.head, h, i, p)
           nx == LinkTo(l.next, t, i, p)
<1>0. /\ l = [head |-> l.head, next |-> l.next] /\ l.head[h] = At(t, 1) /\ Len(t) \in Nat
      /\ \A j \in 1 .. Len(t) : t[j] \in Elts
      /\ \A j, k \in 1 .. Len(t) : t[j] = t[k] => j = k
  BY LLParts, OrderIs
<1>1. l.head[h] = t[i] <=> i = 1
  BY <1>0 DEF At
<1>2. List!Before(l, h, t[i]) = IF i = 1 THEN NULL ELSE t[i - 1]
  BY BeforeIs
<1>3. List!Put(l.next, List!Before(l, h, t[i]), p) = nx
  <2>1. i # 1 => t[i - 1] # NULL
    BY <1>0 DEF StackAssumption
  <2> QED BY <1>2, <2>1 DEF List!Put, LinkTo
<1>4. hd = [l.head EXCEPT ![h] = IF @ = t[i] THEN p ELSE @]
  BY <1>1 DEF HeadTo
<1>5. List!Redirect(l, h, t[i], p) = [l EXCEPT !.head = hd, !.next = nx]
  <2> HIDE DEF t, nx, hd
  <2> QED BY <1>0, <1>3, <1>4 DEF List!Redirect
<1>6. [l EXCEPT !.head = hd, !.next = nx] = [head |-> hd, next |-> nx]
  <2> HIDE DEF hd, nx
  <2>1. DOMAIN l = {"head", "next"}
    BY <1>0
  <2>2. [l EXCEPT !.head = hd, !.next = nx]
          = [g \in {"head", "next"} |-> IF g = "head" THEN hd ELSE nx]
    BY <2>1
  <2> QED BY <2>2
<1> QED BY <1>5, <1>6 DEF SLL

LEMMA LLOutside ==
  ASSUME NEW ord, NEW e \in Elts, Outside(ord, e), NEW l, LLIs(l, ord),
         \A h \in Heads : ord[h] \in Seq(Elts), NEW p \in Nodes
  PROVE  LLIs([head |-> l.head, next |-> [l.next EXCEPT ![e] = p]], ord)
<1> DEFINE nx == [l.next EXCEPT ![e] = p]
           r == [head |-> l.head, next |-> nx]
<1>1. l.head \in [Heads -> Nodes] /\ nx \in Linkage /\ \A x \in Elts \ {e} : nx[x] = l.next[x]
  BY LLParts DEF Linkage
<1> HIDE DEF nx
<1>2. r \in Single /\ r.head = l.head /\ r.next = nx
  BY <1>1, SingleIs
<1> HIDE DEF r
<1>3. ASSUME NEW h \in Heads PROVE r.head[h] = At(ord[h], 1) /\ Linked(ord[h], nx)
  <2>1. \A j \in 1 .. Len(ord[h]) : ord[h][j] \in Elts \ {e}
    BY ElementOfSeq DEF Outside
  <2>2. l.head[h] = At(ord[h], 1) /\ Linked(ord[h], l.next)
    BY LLParts
  <2> QED BY <1>1, <1>2, <2>1, <2>2 DEF Linked
<1> QED BY <1>2, <1>3 DEF LLIs, r, nx

LEMMA LLPrependsElem ==
  ASSUME StackAssumption, NEW ord \in Orders, NEW h \in Heads, NEW i \in 1 .. Len(ord[h]),
         NEW e \in Elts, Outside(ord, e), NEW l, LLIs(l, ord)
  PROVE  LLIs(List!LL_PREPEND_ELEM(l, h, ord[h][i], e), Inserted(ord, h, i, e))
<1> DEFINE t == ord[h]
           hd == HeadTo(l.head, h, i, e)
           mx == LinkTo(l.next, t, i, e)
           nx == [mx EXCEPT ![e] = t[i]]
<1>0. /\ l.head \in [Heads -> Nodes] /\ l.next \in Linkage /\ Len(t) \in Nat
      /\ \A j \in 1 .. Len(t) : t[j] \in Elts /\ t[j] # e
      /\ NULL \notin Elts
  BY LLParts, OrderIs DEF Outside, StackAssumption
<1>1. List!LL_PREPEND_ELEM(l, h, t[i], e) = [head |-> hd, next |-> nx]
  <2>1. List!Redirect(l, h, t[i], e)
          = SLL(HeadTo(l.head, h, i, e), LinkTo(l.next, t, i, e))
    BY RedirectIs
  <2>2. t[i] # NULL
    BY <1>0
  <2> HIDE DEF t
  <2> QED BY <2>1, <2>2 DEF List!LL_PREPEND_ELEM, SLL
<1>2. i # 1 => i - 1 \in 1 .. Len(t) /\ i > 1
  BY <1>0
<1>3. mx \in Linkage
  BY <1>0, <1>2 DEF Linkage, Nodes, LinkTo
<1>4. nx \in Linkage /\ nx[e] = t[i]
  BY <1>0, <1>3 DEF Linkage, Nodes
<1>5. Changed(nx, l.next, e, IF i = 1 THEN e ELSE t[i - 1]) /\ (i > 1 => nx[t[i - 1]] = e)
  BY <1>0, <1>2, <1>3 DEF Linkage, Changed, LinkTo
<1>6. t[i] = At(t, i) /\ i \in 1 .. Len(t) + 1
  BY <1>0 DEF At
<1> HIDE DEF hd, nx, mx
<1>7. LLIs([head |-> hd, next |-> nx], Inserted(ord, h, i, e))
  BY <1>4, <1>5, <1>6, LLInserts DEF hd, HeadTo
<1> QED BY <1>1, <1>7

LEMMA LLAppendsElem ==
  ASSUME StackAssumption, NEW ord \in Orders, NEW h \in Heads, NEW i \in 1 .. Len(ord[h]),
         NEW e \in Elts, Outside(ord, e), NEW l, LLIs(l, ord)
  PROVE  LLIs(List!LL_APPEND_ELEM(l, h, ord[h][i], e), Inserted(ord, h, i + 1, e))
<1> DEFINE t == ord[h]
           nx == [l.next EXCEPT ![e] = l.next[t[i]], ![t[i]] = e]
<1>0. /\ l = [head |-> l.head, next |-> l.next]
      /\ l.head \in [Heads -> Nodes] /\ l.next \in Linkage /\ Len(t) \in Nat
      /\ \A j \in 1 .. Len(t) : t[j] \in Elts /\ t[j] # e
      /\ NULL \notin Elts
  BY LLParts, OrderIs DEF Outside, StackAssumption
<1>1. l.next[t[i]] = At(t, i + 1)
  BY LLParts DEF Linked
<1>2. List!LL_APPEND_ELEM(l, h, t[i], e) = [head |-> l.head, next |-> nx]
  BY <1>0 DEF List!LL_APPEND_ELEM
<1>3. nx \in Linkage /\ nx[e] = At(t, i + 1) /\ Changed(nx, l.next, e, t[i]) /\ nx[t[i]] = e
  BY <1>0, <1>1 DEF Linkage, Changed, Nodes
<1>4. i + 1 - 1 = i /\ i + 1 # 1 /\ i + 1 \in 1 .. Len(t) + 1
  BY <1>0
<1>5. l.head = [l.head EXCEPT ![h] = IF i + 1 = 1 THEN e ELSE @]
  BY <1>0, <1>4
<1> HIDE DEF nx
<1>6. LLIs([head |-> l.head, next |-> nx], Inserted(ord, h, i + 1, e))
  BY <1>3, <1>4, <1>5, LLInserts
<1> QED BY <1>2, <1>6

LEMMA LLReplaces ==
  ASSUME StackAssumption, NEW ord \in Orders, NEW h \in Heads, NEW i \in 1 .. Len(ord[h]),
         NEW e \in Elts, Outside(ord, e), NEW l, LLIs(l, ord)
  PROVE  LLIs(List!LL_REPLACE_ELEM(l, h, ord[h][i], e), Replaced(ord, h, i, e))
<1> DEFINE t == ord[h]
           v == [t EXCEPT ![i] = e]
           ex == [l.next EXCEPT ![e] = l.next[t[i]]]
           k == [head |-> l.head, next |-> ex]
           hd == HeadTo(l.head, h, i, e)
           nx == LinkTo(ex, t, i, e)
           x == IF i = 1 THEN e ELSE t[i - 1]
           r == [head |-> hd, next |-> nx]
<1>0. /\ l = [head |-> l.head, next |-> l.next] /\ l.head[h] = At(t, 1) /\ Linked(t, l.next)
      /\ l.head \in [Heads -> Nodes] /\ l.next \in Linkage /\ Len(t) \in Nat /\ t \in Seq(Elts)
      /\ \A j \in 1 .. Len(t) : t[j] \in Elts /\ t[j] # e
      /\ NULL \notin Elts /\ Proper(t, e)
  BY LLParts, OrderIs, ProperIn DEF Outside, StackAssumption
<1>1. l.next[t[i]] = At(t, i + 1) /\ l.next[t[i]] \in Nodes
  BY <1>0 DEF Linked, Linkage
<1>2. LLIs(k, ord)
  BY <1>1, LLOutside DEF Orders
<1>3. List!LL_REPLACE_ELEM(l, h, t[i], e) = r
  <2>1. [l EXCEPT !.next[e] = l.next[t[i]]] = k
    BY <1>0
  <2>2. List!Redirect(k, h, t[i], e)
          = SLL(HeadTo(k.head, h, i, e), LinkTo(k.next, t, i, e))
    <3> HIDE DEF k
    <3> QED BY <1>2, RedirectIs
  <2>3. k.head = l.head /\ k.next = ex
    OBVIOUS
  <2> HIDE DEF k, ex
  <2> QED BY <2>1, <2>2, <2>3 DEF List!LL_REPLACE_ELEM, SLL
<1>4. i # 1 => i - 1 \in 1 .. Len(t) /\ i > 1
  BY <1>0
<1>5. ex \in Linkage /\ ex[e] = At(t, i + 1) /\ \A y \in Elts \ {e} : ex[y] = l.next[y]
  BY <1>0, <1>1 DEF Linkage
<1> HIDE DEF ex
<1>6. /\ nx \in Linkage /\ nx[e] = At(t, i + 1) /\ (i > 1 => nx[t[i - 1]] = e)
      /\ Changed(nx, l.next, e, x)
  BY <1>0, <1>4, <1>5 DEF Linkage, Changed, Nodes, LinkTo
<1> HIDE DEF nx
<1>7. Linked(v, nx)
  <2> HIDE DEF t
  <2> QED BY <1>0, <1>6, ReplaceLinked DEF t
<1>8. At(v, 1) = IF i = 1 THEN e ELSE l.head[h]
  BY <1>0 DEF At
<1>9. r \in Single /\ r.head = hd /\ r.next = nx
  <2>1. hd \in [Heads -> Nodes]
    BY <1>0 DEF Nodes, HeadTo
  <2> HIDE DEF hd
  <2> QED BY <1>6, <2>1, SingleIs
<1>10. Spares(nx, l.next, ord, h)
  <2>1. x = e \/ \E j \in 1 .. Len(t) : x = t[j]
    BY <1>4
  <2> HIDE DEF x
  <2> QED BY <1>6, <2>1, SparesTwo
<1>11. r.head = [l.head EXCEPT ![h] = At(v, 1)]
  BY <1>8, <1>9 DEF HeadTo
<1> HIDE DEF r, v
<1>12. LLIs(r, [ord EXCEPT ![h] = v])
  BY <1>7, <1>9, <1>10, <1>11, LLChanges
<1> QED BY <1>3, <1>12 DEF Replaced, v

LEMMA LLDeletes ==
  ASSUME StackAssumption, NEW ord \in Orders, NEW h \in Heads, NEW i \in 1 .. Len(ord[h]),
         NEW l, LLIs(l, ord)
  PROVE  LLIs(List!LL_DELETE(l, h, ord[h][i]), Removed(ord, h, i))
<1> DEFINE t == ord[h]
           v == List!Order!RemoveAt(t, i)
           p == At(t, i + 1)
           hd == HeadTo(l.head, h, i, p)
           nx == LinkTo(l.next, t, i, p)
           x == IF i = 1 THEN t[i] ELSE t[i - 1]
           r == [head |-> hd, next |-> nx]
<1>0. /\ l = [head |-> l.head, next |-> l.next] /\ l.head[h] = At(t, 1) /\ Linked(t, l.next)
      /\ l.head \in [Heads -> Nodes] /\ l.next \in Linkage /\ Len(t) \in Nat /\ t \in Seq(Elts)
      /\ \A j \in 1 .. Len(t) : t[j] \in Elts
      /\ NULL \notin Elts /\ Distinct(t) /\ i \in 1 .. Len(t)
  BY LLParts, OrderIs, DistinctIn DEF StackAssumption
<1>1. l.next[t[i]] = p /\ p \in Nodes
  BY <1>0 DEF Linked, Linkage
<1>2. List!LL_DELETE(l, h, t[i]) = r
  <2> HIDE DEF p
  <2>1. List!Redirect(l, h, t[i], p)
          = SLL(HeadTo(l.head, h, i, p), LinkTo(l.next, t, i, p))
    BY RedirectIs
  <2> HIDE DEF r, t
  <2> QED BY <1>1, <2>1 DEF List!LL_DELETE, SLL, r
<1>3. i # 1 => i - 1 \in 1 .. Len(t) /\ i > 1
  BY <1>0
<1> HIDE DEF p
<1>4. /\ nx \in Linkage /\ (i > 1 => nx[t[i - 1]] = p)
      /\ Changed(nx, l.next, t[i], x)
  BY <1>0, <1>1, <1>3 DEF Linkage, Changed, Nodes, LinkTo
<1> HIDE DEF nx
<1>5. Linked(v, nx)
  <2> HIDE DEF t
  <2> QED BY <1>0, <1>4, RemoveLinked DEF t, p
<1>6. At(v, 1) = IF i = 1 THEN p ELSE l.head[h]
  <2>1. Len(v) = Len(t) - 1 /\ \A j \in 1 .. Len(t) - 1 : v[j] = IF j < i THEN t[j] ELSE t[j + 1]
    <3> HIDE DEF t
    <3> QED BY <1>0, RemovedIs
  <2> HIDE DEF v, t
  <2>2. CASE Len(t) = 1
    <3>1. i = 1 /\ At(v, 1) = NULL /\ p = NULL
      BY <1>0, <2>1, <2>2 DEF At, p
    <3> QED BY <3>1
  <2>3. CASE Len(t) # 1
    <3>0. Len(t) >= 1
      BY <1>0
    <3>1. 1 \in 1 .. Len(t) - 1 /\ Len(t) >= 2
      <4>1. \A n \in Nat : n # 1 /\ n >= 1 => 1 \in 1 .. n - 1 /\ n >= 2
        OBVIOUS
      <4> QED BY <1>0, <2>3, <3>0, <4>1
    <3>2. At(v, 1) = IF 1 < i THEN t[1] ELSE t[1 + 1]
      BY <1>0, <2>1, <3>1 DEF At
    <3>3. i = 1 => p = t[1 + 1]
      BY <3>1 DEF At, p
    <3>4. l.head[h] = t[1]
      BY <1>0, <3>1 DEF At
    <3> QED BY <1>0, <3>2, <3>3, <3>4
  <2> QED BY <2>2, <2>3
<1>7. r \in Single /\ r.head = hd /\ r.next = nx
  <2>1. hd \in [Heads -> Nodes]
    BY <1>0, <1>1 DEF HeadTo
  <2> HIDE DEF hd
  <2> QED BY <1>4, <2>1, SingleIs
<1>8. Spares(nx, l.next, ord, h)
  <2>1. \E j \in 1 .. Len(t) : x = t[j]
    BY <1>3
  <2>2. \E j \in 1 .. Len(t) : t[i] = t[j]
    OBVIOUS
  <2> HIDE DEF x
  <2> QED BY <1>4, <2>1, <2>2, SparesTwo
<1>9. r.head = [l.head EXCEPT ![h] = At(v, 1)]
  BY <1>6, <1>7 DEF HeadTo
<1> HIDE DEF r, v
<1>10. LLIs(r, [ord EXCEPT ![h] = v])
  BY <1>5, <1>7, <1>8, <1>9, LLChanges
<1> QED BY <1>2, <1>10 DEF Removed, v

\* The second list's elements come behind the first's; the other lists stay.
LEMMA JoinedIs ==
  ASSUME NEW ord \in Orders, NEW h \in Heads, NEW g \in Heads, h # g
  PROVE  /\ Joined(ord, h, g)[h] = ord[h] \o ord[g] /\ Joined(ord, h, g)[g] = <<>>
         /\ \A f \in Heads : f # h /\ f # g => Joined(ord, h, g)[f] = ord[f]
BY DEF Joined, Orders

LEMMA JoinSpares ==
  ASSUME NEW ord \in Orders, NEW h \in Heads, NEW g \in Heads, NEW L, NEW link,
         \A x \in Elts : \/ L[x] = link[x] \/ \E j \in 1 .. Len(ord[h]) : x = ord[h][j]
                         \/ \E j \in 1 .. Len(ord[g]) : x = ord[g][j],
         NEW f \in Heads, f # h, f # g
  PROVE  \A j \in 1 .. Len(ord[f]) : L[ord[f][j]] = link[ord[f][j]]
<1> SUFFICES ASSUME NEW j \in 1 .. Len(ord[f]) PROVE L[ord[f][j]] = link[ord[f][j]]
  OBVIOUS
<1>1. ord[f][j] \in Elts
  BY OrderIs
<1>2. /\ \A k \in 1 .. Len(ord[h]) : ord[f][j] # ord[h][k]
      /\ \A k \in 1 .. Len(ord[g]) : ord[f][j] # ord[g][k]
  BY DEF Orders, Separate
<1> QED BY <1>1, <1>2

LEMMA JoinedFirst ==
  ASSUME NEW t, Distinct(t), NEW u, Distinct(u)
  PROVE  At(t \o u, 1) = IF Len(t) = 0 THEN At(u, 1) ELSE At(t, 1)
<1> DEFINE n == Len(t)
           m == Len(u)
           v == t \o u
<1>1. n \in Nat /\ m \in Nat
  BY DEF Distinct
<1>2. Len(v) = n + m /\ \A j \in 1 .. n + m : v[j] = IF j <= n THEN t[j] ELSE u[j - n]
  BY ConcatProperties DEF Distinct
<1>3. At(t, 1) = (IF 1 <= n THEN t[1] ELSE NULL) /\ At(u, 1) = IF 1 <= m THEN u[1] ELSE NULL
  BY DEF At
<1> HIDE DEF n, m, v
<1>4. At(v, 1) = IF 1 <= n + m THEN v[1] ELSE NULL
  BY <1>2 DEF At
<1>5. CASE n = 0
  <2>1. 1 <= m => 1 \in 1 .. n + m /\ ~ (1 <= n) /\ 1 - n = 1
    BY <1>1, <1>5
  <2>2. 1 <= m => v[1] = u[1]
    BY <1>2, <2>1
  <2>3. 1 <= n + m <=> 1 <= m
    BY <1>1, <1>5
  <2> QED BY <1>3, <1>4, <1>5, <2>2, <2>3 DEF n, v
<1>6. CASE n # 0
  <2>1. 1 \in 1 .. n + m /\ 1 <= n /\ 1 <= n + m
    BY <1>1, <1>6
  <2> QED BY <1>2, <1>3, <1>4, <1>6, <2>1 DEF n, v
<1> QED BY <1>5, <1>6

LEMMA LLJoins ==
  ASSUME StackAssumption, NEW ord \in Orders, NEW h \in Heads, NEW g \in Heads, h # g,
         NEW l, LLIs(l, ord)
  PROVE  LLIs([List!LL_CONCAT(l, h, g) EXCEPT !.head[g] = NULL], Joined(ord, h, g))
<1> DEFINE t == ord[h]
           u == ord[g]
           n == Len(t)
           v == t \o u
           new == Joined(ord, h, g)
           mid == IF n = 0 THEN [l.head EXCEPT ![h] = l.head[g]] ELSE l.head
           hd == [mid EXCEPT ![g] = NULL]
           nx == IF n = 0 THEN l.next ELSE [l.next EXCEPT ![t[n]] = l.head[g]]
           r == [head |-> hd, next |-> nx]
<1>0. /\ l = [head |-> l.head, next |-> l.next] /\ l.head \in [Heads -> Nodes] /\ l.next \in Linkage
      /\ l.head[h] = At(t, 1) /\ l.head[g] = At(u, 1) /\ Linked(t, l.next) /\ Linked(u, l.next)
      /\ Distinct(t) /\ Distinct(u) /\ NULL \notin Elts /\ NULL \in Nodes
  BY LLParts, DistinctIn DEF StackAssumption, Nodes
<1>1. /\ n \in Nat /\ \A j \in 1 .. n : t[j] \in Elts
      /\ \A j \in 1 .. n, k \in 1 .. Len(u) : t[j] # u[k]
  BY <1>0 DEF Distinct, Orders, Separate
<1>2. l.head[h] = NULL <=> n = 0
  BY <1>0, <1>1 DEF At
<1>3. [List!LL_CONCAT(l, h, g) EXCEPT !.head[g] = NULL] = r
  <2>1. List!Last(List!LL_FOREACH(l, h)) = t[n]
    BY WalksAre DEF List!Last
  <2>2. List!LL_CONCAT(l, h, g) = [head |-> mid, next |-> nx]
    <3>1. CASE n = 0
      <4>1. List!LL_CONCAT(l, h, g) = [l EXCEPT !.head = mid] /\ nx = l.next
        BY <1>2, <3>1 DEF List!LL_CONCAT
      <4> HIDE DEF mid
      <4> QED BY <1>0, <4>1
    <3>2. CASE n # 0
      <4>1. List!LL_CONCAT(l, h, g) = [l EXCEPT !.next = nx] /\ mid = l.head
        BY <1>2, <2>1, <3>2 DEF List!LL_CONCAT
      <4> HIDE DEF nx
      <4> QED BY <1>0, <4>1
    <3> QED BY <3>1, <3>2
  <2> HIDE DEF mid, nx
  <2> QED BY <2>2
<1>4. Linked(v, nx)
  <2>1. \A y \in Elts : (n = 0 \/ y # t[n]) => nx[y] = l.next[y]
    BY <1>0 DEF Linkage
  <2>2. n # 0 => nx[t[n]] = At(u, 1)
    BY <1>0, <1>1 DEF Linkage
  <2> HIDE DEF nx, t, u
  <2> QED BY <1>0, <1>1, <2>1, <2>2, JoinLinked
<1>5. /\ nx \in Linkage /\ hd \in [Heads -> Nodes]
      /\ \A x \in Elts : nx[x] = l.next[x] \/ \E j \in 1 .. n : x = t[j]
  BY <1>0, <1>1 DEF Linkage
<1>6. hd[h] = At(v, 1) /\ hd[g] = NULL /\ \A f \in Heads : f # h /\ f # g => hd[f] = l.head[f]
  <2>1. At(v, 1) = IF n = 0 THEN At(u, 1) ELSE At(t, 1)
    BY <1>0, JoinedFirst
  <2> HIDE DEF v, n, t, u
  <2> QED BY <1>0, <2>1
<1> HIDE DEF nx, hd
<1>7. r \in Single /\ r.head = hd /\ r.next = nx
  BY <1>5, SingleIs
<1>8. new[h] = v /\ new[g] = <<>> /\ \A f \in Heads : f # h /\ f # g => new[f] = ord[f]
  BY JoinedIs
<1> HIDE DEF r, v, new
<1>9. ASSUME NEW f \in Heads PROVE hd[f] = At(new[f], 1) /\ Linked(new[f], nx)
  <2>1. CASE f = h
    BY <1>4, <1>6, <1>8, <2>1
  <2>2. CASE f = g
    BY <1>6, <1>8, <2>2 DEF At, Linked
  <2>3. CASE f # h /\ f # g
    <3>1. hd[f] = At(ord[f], 1) /\ Linked(ord[f], l.next)
      BY <1>6, <2>3, LLParts
    <3>2. \A j \in 1 .. Len(ord[f]) : nx[ord[f][j]] = l.next[ord[f][j]]
      <4> DEFINE link == l.next
      <4>1. \A x \in Elts : \/ nx[x] = link[x] \/ \E j \in 1 .. Len(ord[h]) : x = ord[h][j]
                            \/ \E j \in 1 .. Len(ord[g]) : x = ord[g][j]
        BY <1>5
      <4> HIDE DEF link
      <4>2. \A j \in 1 .. Len(ord[f]) : nx[ord[f][j]] = link[ord[f][j]]
        BY <2>3, <4>1, JoinSpares
      <4> QED BY <4>2 DEF link
    <3> QED BY <1>8, <2>3, <3>1, <3>2 DEF Linked
  <2> QED BY <2>1, <2>2, <2>3
<1> QED BY <1>3, <1>7, <1>9 DEF LLIs, new

-----------------------------------------------------------------------------
(* A list linked both ways *)

DLL(hd, nx, pv) == [head |-> hd, next |-> nx, prev |-> pv]

\* The assignments of a macro to the fields, in its order.
SetH(l, hd) == [l EXCEPT !.head = hd]
SetNP(l, nx, pv) == [l EXCEPT !.next = nx, !.prev = pv]
SetPN(l, nx, pv) == [l EXCEPT !.prev = pv, !.next = nx]
SetPH(l, hd, pv) == [l EXCEPT !.prev = pv, !.head = hd]
SetHNP(l, hd, nx, pv) == [l EXCEPT !.head = hd, !.next = nx, !.prev = pv]
SetHPN(l, hd, nx, pv) == [l EXCEPT !.head = hd, !.prev = pv, !.next = nx]
SetPHN(l, hd, nx, pv) == [l EXCEPT !.prev = pv, !.head = hd, !.next = nx]
SetPNH(l, hd, nx, pv) == [l EXCEPT !.prev = pv, !.next = nx, !.head = hd]
SetNPH(l, hd, nx, pv) == [l EXCEPT !.next = nx, !.prev = pv, !.head = hd]

LEMMA DoubleSet ==
  ASSUME NEW l, l = DLL(l.head, l.next, l.prev), NEW hd, NEW nx, NEW pv
  PROVE  /\ SetH(l, hd) = DLL(hd, l.next, l.prev)
         /\ SetNP(l, nx, pv) = DLL(l.head, nx, pv)
         /\ SetPN(l, nx, pv) = DLL(l.head, nx, pv)
         /\ SetPH(l, hd, pv) = DLL(hd, l.next, pv)
         /\ SetHNP(l, hd, nx, pv) = DLL(hd, nx, pv)
         /\ SetHPN(l, hd, nx, pv) = DLL(hd, nx, pv)
         /\ SetPHN(l, hd, nx, pv) = DLL(hd, nx, pv)
         /\ SetPNH(l, hd, nx, pv) = DLL(hd, nx, pv)
         /\ SetNPH(l, hd, nx, pv) = DLL(hd, nx, pv)
<1> DEFINE Fields == {"head", "next", "prev"}
           as(x, y, z) == [g \in Fields |-> IF g = "head" THEN x ELSE IF g = "next" THEN y ELSE z]
<1>1. DOMAIN l = Fields
  BY DEF DLL
<1>2. \A x, y, z : DLL(x, y, z) = as(x, y, z)
  BY DEF DLL
<1>3. l.head = l["head"] /\ l.next = l["next"] /\ l.prev = l["prev"]
  OBVIOUS
<1>4. SetH(l, hd) = as(hd, l.next, l.prev)
  BY <1>1 DEF SetH
<1>5. SetNP(l, nx, pv) = as(l.head, nx, pv)
  BY <1>1 DEF SetNP
<1>6. SetPN(l, nx, pv) = as(l.head, nx, pv)
  BY <1>1 DEF SetPN
<1>7. SetPH(l, hd, pv) = as(hd, l.next, pv)
  BY <1>1 DEF SetPH
<1>8. SetHNP(l, hd, nx, pv) = as(hd, nx, pv)
  BY <1>1 DEF SetHNP
<1>9. SetHPN(l, hd, nx, pv) = as(hd, nx, pv)
  BY <1>1 DEF SetHPN
<1>10. SetPHN(l, hd, nx, pv) = as(hd, nx, pv)
  BY <1>1 DEF SetPHN
<1>11. SetPNH(l, hd, nx, pv) = as(hd, nx, pv)
  BY <1>1 DEF SetPNH
<1>12. SetNPH(l, hd, nx, pv) = as(hd, nx, pv)
  BY <1>1 DEF SetNPH
<1> HIDE DEF as
<1> QED BY <1>2, <1>4, <1>5, <1>6, <1>7, <1>8, <1>9, <1>10, <1>11, <1>12

LEMMA DLLIs ==
  ASSUME NEW hd \in [Heads -> Nodes], NEW nx \in Linkage, NEW pv \in Linkage
  PROVE  LET r == DLL(hd, nx, pv)
         IN  r \in Double /\ r.head = hd /\ r.next = nx /\ r.prev = pv
BY DEF Double, DLL

LEMMA DLParts ==
  ASSUME NEW l, NEW ord, DLIs(l, ord)
  PROVE  /\ l = DLL(l.head, l.next, l.prev)
         /\ l.head \in [Heads -> Nodes] /\ l.next \in Linkage /\ l.prev \in Linkage
         /\ \A h \in Heads : /\ l.head[h] = At(ord[h], 1) /\ Linked(ord[h], l.next)
                             /\ Backward(ord[h], l.prev)
BY DEF DLIs, Double, DLL

LEMMA CDLParts ==
  ASSUME NEW l, NEW ord, CDLIs(l, ord)
  PROVE  /\ l = DLL(l.head, l.next, l.prev)
         /\ l.head \in [Heads -> Nodes] /\ l.next \in Linkage /\ l.prev \in Linkage
         /\ \A h \in Heads : /\ l.head[h] = At(ord[h], 1) /\ Onward(ord[h], l.next)
                             /\ Backward(ord[h], l.prev)
BY DEF CDLIs, Double, DLL

LEMMA EnteredFirst ==
  ASSUME NEW t \in Seq(Elts), Len(t) \in Nat, NEW i \in 1 .. Len(t) + 1, NEW e \in Elts
  PROVE  At(List!Order!Enter(t, i, e), 1) = IF i = 1 THEN e ELSE At(t, 1)
<1> DEFINE v == List!Order!Enter(t, i, e)
           n == Len(t)
<1>1. Len(v) = n + 1 /\ \A j \in 1 .. n + 1 : v[j] = IF j < i THEN t[j] ELSE IF j = i THEN e ELSE t[j - 1]
  BY EnteredIs
<1>2. n \in Nat /\ 1 \in 1 .. n + 1 /\ 1 <= n + 1 /\ (i # 1 => 1 < i /\ 1 <= n)
  OBVIOUS
<1>3. At(t, 1) = IF 1 <= n THEN t[1] ELSE NULL
  BY DEF At
<1> HIDE DEF v, n
<1>4. v[1] = IF 1 < i THEN t[1] ELSE IF 1 = i THEN e ELSE t[1 - 1]
  BY <1>1, <1>2
<1>5. At(v, 1) = v[1]
  BY <1>1, <1>2 DEF At
<1> QED BY <1>2, <1>3, <1>4, <1>5 DEF v

LEMMA Rings ==
  ASSUME NEW ord \in Orders, NEW h \in Heads, NEW i \in 1 .. Len(ord[h]) + 1, NEW e
  PROVE  /\ Pred(ord[h], i, e) = e \/ \E j \in 1 .. Len(ord[h]) : Pred(ord[h], i, e) = ord[h][j]
         /\ Succ(ord[h], i, e) = e \/ \E j \in 1 .. Len(ord[h]) : Succ(ord[h], i, e) = ord[h][j]
<1> DEFINE t == ord[h]
           n == Len(t)
           b == IF i = 1 THEN n ELSE i - 1
           c == IF i <= n THEN i ELSE 1
<1>1. n \in Nat /\ i \in 1 .. n + 1
  BY OrderIs
<1>2. Pred(t, i, e) = (IF n = 0 THEN e ELSE t[b]) /\ Succ(t, i, e) = (IF n = 0 THEN e ELSE t[c])
  BY DEF Pred, Succ
<1>3. n # 0 => b \in 1 .. n /\ c \in 1 .. n
  BY <1>1
<1> QED BY <1>2, <1>3

LEMMA DLInserts ==
  ASSUME NEW ord \in Orders, NEW h \in Heads, NEW i \in 1 .. Len(ord[h]) + 1,
         NEW e \in Elts, Outside(ord, e), NEW l, DLIs(l, ord),
         NEW hd, NEW nx \in Linkage, NEW pv \in Linkage,
         hd = [l.head EXCEPT ![h] = IF i = 1 THEN e ELSE @],
         nx[e] = At(ord[h], i),
         Changed(nx, l.next, e, IF i = 1 THEN e ELSE ord[h][i - 1]),
         i > 1 => nx[ord[h][i - 1]] = e,
         pv[e] = Pred(ord[h], i, e), pv[Succ(ord[h], i, e)] = e,
         Changed(pv, l.prev, e, Succ(ord[h], i, e))
  PROVE  DLIs(DLL(hd, nx, pv), Inserted(ord, h, i, e))
<1> DEFINE t == ord[h]
           v == List!Order!Enter(t, i, e)
           r == DLL(hd, nx, pv)
           x == IF i = 1 THEN e ELSE t[i - 1]
           y == Succ(t, i, e)
<1>0. /\ Proper(t, e) /\ t \in Seq(Elts) /\ Len(t) \in Nat /\ Linked(t, l.next)
      /\ Backward(t, l.prev) /\ l.head \in [Heads -> Nodes] /\ l.head[h] = At(t, 1)
  BY ProperIn, OrderIs, DLParts
<1>1. Linked(v, nx) /\ Backward(v, pv)
  BY <1>0, EnterLinked, EnterBackward
<1>2. At(v, 1) = IF i = 1 THEN e ELSE l.head[h]
  BY <1>0, EnteredFirst
<1>3. hd \in [Heads -> Nodes]
  BY <1>0 DEF Nodes
<1>4. r \in Double /\ r.head = hd /\ r.next = nx /\ r.prev = pv
  BY <1>3, DLLIs
<1>5. Spares(nx, l.next, ord, h) /\ Spares(pv, l.prev, ord, h)
  <2>1. x = e \/ \E j \in 1 .. Len(t) : x = t[j]
    <3>1. i # 1 => i - 1 \in 1 .. Len(t)
      BY <1>0
    <3> QED BY <3>1
  <2>2. y = e \/ \E j \in 1 .. Len(t) : y = t[j]
    BY Rings
  <2> HIDE DEF x, y
  <2>3. Changed(nx, l.next, e, x) /\ Changed(pv, l.prev, e, y)
    BY DEF x, y
  <2> QED BY <2>1, <2>2, <2>3, SparesTwo
<1>6. r.head = [l.head EXCEPT ![h] = At(v, 1)]
  BY <1>2, <1>4
<1> HIDE DEF r, v
<1>7. DLIs(r, [ord EXCEPT ![h] = v])
  BY <1>1, <1>4, <1>5, <1>6, DLChanges
<1> QED BY <1>7 DEF Inserted, r, v

LEMMA CDLInserts ==
  ASSUME NEW ord \in Orders, NEW h \in Heads, NEW i \in 1 .. Len(ord[h]) + 1,
         NEW e \in Elts, Outside(ord, e), NEW l, CDLIs(l, ord),
         NEW hd, NEW nx \in Linkage, NEW pv \in Linkage,
         hd = [l.head EXCEPT ![h] = IF i = 1 THEN e ELSE @],
         nx[e] = Succ(ord[h], i, e), nx[Pred(ord[h], i, e)] = e,
         Changed(nx, l.next, e, Pred(ord[h], i, e)),
         pv[e] = Pred(ord[h], i, e), pv[Succ(ord[h], i, e)] = e,
         Changed(pv, l.prev, e, Succ(ord[h], i, e))
  PROVE  CDLIs(DLL(hd, nx, pv), Inserted(ord, h, i, e))
<1> DEFINE t == ord[h]
           v == List!Order!Enter(t, i, e)
           r == DLL(hd, nx, pv)
           x == Pred(t, i, e)
           y == Succ(t, i, e)
<1>0. /\ Proper(t, e) /\ t \in Seq(Elts) /\ Len(t) \in Nat /\ Onward(t, l.next)
      /\ Backward(t, l.prev) /\ l.head \in [Heads -> Nodes] /\ l.head[h] = At(t, 1)
  BY ProperIn, OrderIs, CDLParts
<1>1. Onward(v, nx) /\ Backward(v, pv)
  BY <1>0, EnterOnward, EnterBackward
<1>2. At(v, 1) = IF i = 1 THEN e ELSE l.head[h]
  BY <1>0, EnteredFirst
<1>3. hd \in [Heads -> Nodes]
  BY <1>0 DEF Nodes
<1>4. r \in Double /\ r.head = hd /\ r.next = nx /\ r.prev = pv
  BY <1>3, DLLIs
<1>5. Spares(nx, l.next, ord, h) /\ Spares(pv, l.prev, ord, h)
  <2>1. /\ x = e \/ \E j \in 1 .. Len(t) : x = t[j]
        /\ y = e \/ \E j \in 1 .. Len(t) : y = t[j]
    BY Rings
  <2> HIDE DEF x, y
  <2>2. Changed(nx, l.next, e, x) /\ Changed(pv, l.prev, e, y)
    BY DEF x, y
  <2> QED BY <2>1, <2>2, SparesTwo
<1>6. r.head = [l.head EXCEPT ![h] = At(v, 1)]
  BY <1>2, <1>4
<1> HIDE DEF r, v
<1>7. CDLIs(r, [ord EXCEPT ![h] = v])
  BY <1>1, <1>4, <1>5, <1>6, CDLChanges
<1> QED BY <1>7 DEF Inserted, r, v

LEMMA ReplacedFirst ==
  ASSUME NEW t \in Seq(Elts), Len(t) \in Nat, NEW i \in 1 .. Len(t), NEW e \in Elts
  PROVE  At([t EXCEPT ![i] = e], 1) = IF i = 1 THEN e ELSE At(t, 1)
<1> DEFINE v == [t EXCEPT ![i] = e]
           n == Len(t)
<1>1. Len(v) = n /\ \A j \in 1 .. n : v[j] = IF j = i THEN e ELSE t[j]
  BY ExceptSeq
<1>2. n \in Nat /\ 1 \in 1 .. n /\ 1 <= n
  OBVIOUS
<1>3. At(t, 1) = IF 1 <= n THEN t[1] ELSE NULL
  BY DEF At
<1> HIDE DEF v, n
<1>4. At(v, 1) = v[1]
  BY <1>1, <1>2 DEF At
<1> QED BY <1>1, <1>2, <1>3, <1>4 DEF v

LEMMA RemovedFirst ==
  ASSUME NEW t \in Seq(Elts), Len(t) \in Nat, NEW i \in 1 .. Len(t)
  PROVE  At(List!Order!RemoveAt(t, i), 1) = IF i = 1 THEN At(t, 2) ELSE At(t, 1)
<1> DEFINE v == List!Order!RemoveAt(t, i)
           n == Len(t)
<1>1. Len(v) = n - 1 /\ \A j \in 1 .. n - 1 : v[j] = IF j < i THEN t[j] ELSE t[j + 1]
  BY RemovedIs
<1>2. n \in Nat /\ 1 <= n /\ i \in 1 .. n
  OBVIOUS
<1>3. At(t, 1) = (IF 1 <= n THEN t[1] ELSE NULL) /\ At(t, 2) = (IF 2 <= n THEN t[2] ELSE NULL)
  BY DEF At
<1> HIDE DEF v, n
<1>4. At(v, 1) = IF 1 <= n - 1 THEN v[1] ELSE NULL
  BY <1>1 DEF At
<1>5. CASE n = 1
  <2>1. i = 1 /\ ~ (1 <= n - 1) /\ ~ (2 <= n)
    BY <1>2, <1>5
  <2> QED BY <1>3, <1>4, <2>1 DEF v
<1>6. CASE n # 1
  <2>1. 1 \in 1 .. n - 1 /\ 1 <= n - 1 /\ 2 <= n /\ 1 + 1 = 2 /\ (1 < i <=> i # 1)
    BY <1>2, <1>6
  <2>2. v[1] = IF i = 1 THEN t[2] ELSE t[1]
    BY <1>1, <2>1
  <2> QED BY <1>2, <1>3, <1>4, <2>1, <2>2 DEF v
<1> QED BY <1>5, <1>6

\* The neighbours of the i-th are those of an element that takes its place, or
\* of one that enters before it or behind it.
LEMMA RingIs ==
  ASSUME NEW t, Len(t) \in Nat, NEW i \in 1 .. Len(t), NEW e
  PROVE  /\ Pred(t, i, e) = t[Ahead(t, i)] /\ Succ(t, i, e) = t[i]
         /\ Pred(t, i + 1, e) = t[i] /\ Succ(t, i + 1, e) = t[After(t, i)]
<1> DEFINE n == Len(t)
<1>1. n # 0 /\ i <= n /\ i + 1 # 1 /\ i + 1 - 1 = i /\ (i + 1 <= n <=> i # n)
  OBVIOUS
<1>2. Pred(t, i, e) = (IF n = 0 THEN e ELSE t[IF i = 1 THEN n ELSE i - 1])
  BY DEF Pred
<1>3. Pred(t, i + 1, e) = (IF n = 0 THEN e ELSE t[IF i + 1 = 1 THEN n ELSE i + 1 - 1])
  BY DEF Pred
<1>4. /\ Succ(t, i, e) = (IF n = 0 THEN e ELSE t[IF i <= n THEN i ELSE 1])
      /\ Succ(t, i + 1, e) = (IF n = 0 THEN e ELSE t[IF i + 1 <= n THEN i + 1 ELSE 1])
  BY DEF Succ
<1>5. Ahead(t, i) = (IF i = 1 THEN n ELSE i - 1) /\ After(t, i) = (IF i = n THEN 1 ELSE i + 1)
  BY DEF Ahead, After
<1> HIDE DEF n
<1> QED BY <1>1, <1>2, <1>3, <1>4, <1>5

\* Of one that enters before the first or behind the last: the two ends.
LEMMA EndsAre ==
  ASSUME NEW t, Len(t) \in Nat, NEW e
  PROVE  /\ Pred(t, 1, e) = (IF Len(t) = 0 THEN e ELSE t[Len(t)])
         /\ Succ(t, 1, e) = (IF Len(t) = 0 THEN e ELSE t[1])
         /\ Pred(t, Len(t) + 1, e) = (IF Len(t) = 0 THEN e ELSE t[Len(t)])
         /\ Succ(t, Len(t) + 1, e) = (IF Len(t) = 0 THEN e ELSE t[1])
<1> DEFINE n == Len(t)
<1>1. n + 1 - 1 = n /\ ~ (n + 1 <= n) /\ (n # 0 => n + 1 # 1 /\ 1 <= n)
  OBVIOUS
<1>2. /\ Pred(t, 1, e) = (IF n = 0 THEN e ELSE t[IF 1 = 1 THEN n ELSE 1 - 1])
      /\ Pred(t, n + 1, e) = (IF n = 0 THEN e ELSE t[IF n + 1 = 1 THEN n ELSE n + 1 - 1])
  BY DEF Pred
<1>3. /\ Succ(t, 1, e) = (IF n = 0 THEN e ELSE t[IF 1 <= n THEN 1 ELSE 1])
      /\ Succ(t, n + 1, e) = (IF n = 0 THEN e ELSE t[IF n + 1 <= n THEN n + 1 ELSE 1])
  BY DEF Succ
<1> HIDE DEF n
<1> QED BY <1>1, <1>2, <1>3 DEF n

LEMMA DLReplacing ==
  ASSUME NEW ord \in Orders, NEW h \in Heads, NEW i \in 1 .. Len(ord[h]),
         NEW e \in Elts, Outside(ord, e), NEW l, DLIs(l, ord),
         NEW hd, NEW nx \in Linkage, NEW pv \in Linkage,
         hd = [l.head EXCEPT ![h] = IF i = 1 THEN e ELSE @],
         nx[e] = At(ord[h], i + 1),
         Changed(nx, l.next, e, IF i = 1 THEN e ELSE ord[h][i - 1]),
         i > 1 => nx[ord[h][i - 1]] = e,
         pv[e] = IF Len(ord[h]) = 1 THEN e ELSE ord[h][Ahead(ord[h], i)],
         Changed(pv, l.prev, e, IF Len(ord[h]) = 1 THEN e ELSE ord[h][After(ord[h], i)]),
         Len(ord[h]) # 1 => pv[ord[h][After(ord[h], i)]] = e
  PROVE  DLIs(DLL(hd, nx, pv), Replaced(ord, h, i, e))
<1> DEFINE t == ord[h]
           v == [t EXCEPT ![i] = e]
           r == DLL(hd, nx, pv)
           x == IF i = 1 THEN e ELSE t[i - 1]
           y == IF Len(t) = 1 THEN e ELSE t[After(t, i)]
<1>0. /\ Proper(t, e) /\ t \in Seq(Elts) /\ Len(t) \in Nat /\ Linked(t, l.next)
      /\ Backward(t, l.prev) /\ l.head \in [Heads -> Nodes] /\ l.head[h] = At(t, 1)
  BY ProperIn, OrderIs, DLParts
<1>1. Linked(v, nx) /\ Backward(v, pv)
  BY <1>0, ReplaceLinked, ReplaceBackward
<1>2. At(v, 1) = IF i = 1 THEN e ELSE l.head[h]
  BY <1>0, ReplacedFirst
<1>3. hd \in [Heads -> Nodes]
  BY <1>0 DEF Nodes
<1>4. r \in Double /\ r.head = hd /\ r.next = nx /\ r.prev = pv
  BY <1>3, DLLIs
<1>5. Spares(nx, l.next, ord, h) /\ Spares(pv, l.prev, ord, h)
  <2>1. x = e \/ \E j \in 1 .. Len(t) : x = t[j]
    <3>1. i # 1 => i - 1 \in 1 .. Len(t)
      BY <1>0
    <3> QED BY <3>1
  <2>2. y = e \/ \E j \in 1 .. Len(t) : y = t[j]
    BY <1>0, Neighbours
  <2> HIDE DEF x, y
  <2>3. Changed(nx, l.next, e, x) /\ Changed(pv, l.prev, e, y)
    BY DEF x, y
  <2> QED BY <2>1, <2>2, <2>3, SparesTwo
<1>6. r.head = [l.head EXCEPT ![h] = At(v, 1)]
  BY <1>2, <1>4
<1> HIDE DEF r, v
<1>7. DLIs(r, [ord EXCEPT ![h] = v])
  BY <1>1, <1>4, <1>5, <1>6, DLChanges
<1> QED BY <1>7 DEF Replaced, r, v

LEMMA CDLReplacing ==
  ASSUME NEW ord \in Orders, NEW h \in Heads, NEW i \in 1 .. Len(ord[h]),
         NEW e \in Elts, Outside(ord, e), NEW l, CDLIs(l, ord),
         NEW hd, NEW nx \in Linkage, NEW pv \in Linkage,
         hd = [l.head EXCEPT ![h] = IF i = 1 THEN e ELSE @],
         nx[e] = IF Len(ord[h]) = 1 THEN e ELSE ord[h][After(ord[h], i)],
         Changed(nx, l.next, e, IF Len(ord[h]) = 1 THEN e ELSE ord[h][Ahead(ord[h], i)]),
         Len(ord[h]) # 1 => nx[ord[h][Ahead(ord[h], i)]] = e,
         pv[e] = IF Len(ord[h]) = 1 THEN e ELSE ord[h][Ahead(ord[h], i)],
         Changed(pv, l.prev, e, IF Len(ord[h]) = 1 THEN e ELSE ord[h][After(ord[h], i)]),
         Len(ord[h]) # 1 => pv[ord[h][After(ord[h], i)]] = e
  PROVE  CDLIs(DLL(hd, nx, pv), Replaced(ord, h, i, e))
<1> DEFINE t == ord[h]
           v == [t EXCEPT ![i] = e]
           r == DLL(hd, nx, pv)
           x == IF Len(t) = 1 THEN e ELSE t[Ahead(t, i)]
           y == IF Len(t) = 1 THEN e ELSE t[After(t, i)]
<1>0. /\ Proper(t, e) /\ t \in Seq(Elts) /\ Len(t) \in Nat /\ Onward(t, l.next)
      /\ Backward(t, l.prev) /\ l.head \in [Heads -> Nodes] /\ l.head[h] = At(t, 1)
  BY ProperIn, OrderIs, CDLParts
<1>1. Onward(v, nx) /\ Backward(v, pv)
  BY <1>0, ReplaceOnward, ReplaceBackward
<1>2. At(v, 1) = IF i = 1 THEN e ELSE l.head[h]
  BY <1>0, ReplacedFirst
<1>3. hd \in [Heads -> Nodes]
  BY <1>0 DEF Nodes
<1>4. r \in Double /\ r.head = hd /\ r.next = nx /\ r.prev = pv
  BY <1>3, DLLIs
<1>5. Spares(nx, l.next, ord, h) /\ Spares(pv, l.prev, ord, h)
  <2>1. /\ x = e \/ \E j \in 1 .. Len(t) : x = t[j]
        /\ y = e \/ \E j \in 1 .. Len(t) : y = t[j]
    BY <1>0, Neighbours
  <2> HIDE DEF x, y
  <2>2. Changed(nx, l.next, e, x) /\ Changed(pv, l.prev, e, y)
    BY DEF x, y
  <2> QED BY <2>1, <2>2, SparesTwo
<1>6. r.head = [l.head EXCEPT ![h] = At(v, 1)]
  BY <1>2, <1>4
<1> HIDE DEF r, v
<1>7. CDLIs(r, [ord EXCEPT ![h] = v])
  BY <1>1, <1>4, <1>5, <1>6, CDLChanges
<1> QED BY <1>7 DEF Replaced, r, v

LEMMA DLRemoving ==
  ASSUME NEW ord \in Orders, NEW h \in Heads, NEW i \in 1 .. Len(ord[h]), NEW l, DLIs(l, ord),
         NEW hd, NEW nx \in Linkage, NEW pv \in Linkage,
         hd = [l.head EXCEPT ![h] = IF i = 1 THEN At(ord[h], 2) ELSE @],
         Changed(nx, l.next, ord[h][i], IF i = 1 THEN ord[h][i] ELSE ord[h][i - 1]),
         i > 1 => nx[ord[h][i - 1]] = At(ord[h], i + 1),
         Changed(pv, l.prev, ord[h][i], ord[h][After(ord[h], i)]),
         Len(ord[h]) # 1 => pv[ord[h][After(ord[h], i)]] = ord[h][Ahead(ord[h], i)]
  PROVE  DLIs(DLL(hd, nx, pv), Removed(ord, h, i))
<1> DEFINE t == ord[h]
           v == List!Order!RemoveAt(t, i)
           r == DLL(hd, nx, pv)
           x == IF i = 1 THEN t[i] ELSE t[i - 1]
           y == t[After(t, i)]
<1>0. /\ Distinct(t) /\ t \in Seq(Elts) /\ Len(t) \in Nat /\ Linked(t, l.next)
      /\ Backward(t, l.prev) /\ l.head \in [Heads -> Nodes] /\ l.head[h] = At(t, 1)
      /\ \A j \in 1 .. Len(t) : t[j] \in Elts
  BY DistinctIn, OrderIs, DLParts
<1>1. Linked(v, nx) /\ Backward(v, pv)
  BY <1>0, RemoveLinked, RemoveBackward
<1>2. At(v, 1) = IF i = 1 THEN At(t, 2) ELSE l.head[h]
  BY <1>0, RemovedFirst
<1>3. hd \in [Heads -> Nodes]
  <2>1. At(t, 2) \in Nodes
    BY <1>0 DEF At, Nodes
  <2> QED BY <1>0, <2>1
<1>4. r \in Double /\ r.head = hd /\ r.next = nx /\ r.prev = pv
  BY <1>3, DLLIs
<1>5. Spares(nx, l.next, ord, h) /\ Spares(pv, l.prev, ord, h)
  <2>1. \E j \in 1 .. Len(t) : x = t[j]
    <3>1. i # 1 => i - 1 \in 1 .. Len(t)
      BY <1>0
    <3> QED BY <3>1
  <2>2. (\E j \in 1 .. Len(t) : y = t[j]) /\ \E j \in 1 .. Len(t) : t[i] = t[j]
    BY <1>0, Neighbours
  <2> HIDE DEF x, y
  <2>3. Changed(nx, l.next, t[i], x) /\ Changed(pv, l.prev, t[i], y)
    BY DEF x, y
  <2> QED BY <2>1, <2>2, <2>3, SparesTwo
<1>6. r.head = [l.head EXCEPT ![h] = At(v, 1)]
  BY <1>2, <1>4
<1> HIDE DEF r, v
<1>7. DLIs(r, [ord EXCEPT ![h] = v])
  BY <1>1, <1>4, <1>5, <1>6, DLChanges
<1> QED BY <1>7 DEF Removed, r, v

LEMMA CDLRemoving ==
  ASSUME NEW ord \in Orders, NEW h \in Heads, NEW i \in 1 .. Len(ord[h]), NEW l, CDLIs(l, ord),
         NEW hd, NEW nx \in Linkage, NEW pv \in Linkage,
         hd = [l.head EXCEPT ![h] = IF i = 1 THEN At(ord[h], 2) ELSE @],
         Changed(nx, l.next, ord[h][i], ord[h][Ahead(ord[h], i)]),
         Len(ord[h]) # 1 => nx[ord[h][Ahead(ord[h], i)]] = ord[h][After(ord[h], i)],
         Changed(pv, l.prev, ord[h][i], ord[h][After(ord[h], i)]),
         Len(ord[h]) # 1 => pv[ord[h][After(ord[h], i)]] = ord[h][Ahead(ord[h], i)]
  PROVE  CDLIs(DLL(hd, nx, pv), Removed(ord, h, i))
<1> DEFINE t == ord[h]
           v == List!Order!RemoveAt(t, i)
           r == DLL(hd, nx, pv)
           x == t[Ahead(t, i)]
           y == t[After(t, i)]
<1>0. /\ Distinct(t) /\ t \in Seq(Elts) /\ Len(t) \in Nat /\ Onward(t, l.next)
      /\ Backward(t, l.prev) /\ l.head \in [Heads -> Nodes] /\ l.head[h] = At(t, 1)
      /\ \A j \in 1 .. Len(t) : t[j] \in Elts
  BY DistinctIn, OrderIs, CDLParts
<1>1. Onward(v, nx) /\ Backward(v, pv)
  BY <1>0, RemoveOnward, RemoveBackward
<1>2. At(v, 1) = IF i = 1 THEN At(t, 2) ELSE l.head[h]
  BY <1>0, RemovedFirst
<1>3. hd \in [Heads -> Nodes]
  <2>1. At(t, 2) \in Nodes
    BY <1>0 DEF At, Nodes
  <2> QED BY <1>0, <2>1
<1>4. r \in Double /\ r.head = hd /\ r.next = nx /\ r.prev = pv
  BY <1>3, DLLIs
<1>5. Spares(nx, l.next, ord, h) /\ Spares(pv, l.prev, ord, h)
  <2>1. /\ \E j \in 1 .. Len(t) : x = t[j]
        /\ \E j \in 1 .. Len(t) : y = t[j]
        /\ \E j \in 1 .. Len(t) : t[i] = t[j]
    BY <1>0, Neighbours
  <2> HIDE DEF x, y
  <2>2. Changed(nx, l.next, t[i], x) /\ Changed(pv, l.prev, t[i], y)
    BY DEF x, y
  <2> QED BY <2>1, <2>2, SparesTwo
<1>6. r.head = [l.head EXCEPT ![h] = At(v, 1)]
  BY <1>2, <1>4
<1> HIDE DEF r, v
<1>7. CDLIs(r, [ord EXCEPT ![h] = v])
  BY <1>1, <1>4, <1>5, <1>6, CDLChanges
<1> QED BY <1>7 DEF Removed, r, v

LEMMA DLAt ==
  ASSUME StackAssumption, NEW ord \in Orders, NEW h \in Heads, NEW l, DLIs(l, ord)
  PROVE  LET t == ord[h]
         IN  /\ (l.head[h] = NULL <=> Len(t) = 0) /\ (Len(t) # 0 => l.head[h] = t[1] /\ l.prev[t[1]] = t[Len(t)])
             /\ \A j \in 1 .. Len(t) :
                  /\ t[j] \in Elts /\ t[j] # NULL
                  /\ l.next[t[j]] = At(t, j + 1) /\ l.prev[t[j]] = t[Ahead(t, j)]
                  /\ (l.head[h] = t[j] <=> j = 1) /\ (l.prev[t[j]] = t[j] <=> Len(t) = 1)
                  /\ (j # 1 => l.prev[t[j]] = t[j - 1])
                  /\ (l.next[t[j]] = NULL <=> j = Len(t))
                  /\ (j # Len(t) => l.next[t[j]] = t[After(t, j)])
                  /\ (j = Len(t) => l.head[h] = t[After(t, j)])
<1> DEFINE t == ord[h]
           n == Len(t)
<1>0. /\ n \in Nat /\ \A j \in 1 .. n : t[j] \in Elts
      /\ \A j, k \in 1 .. n : t[j] = t[k] => j = k
      /\ NULL \notin Elts
  BY OrderIs DEF StackAssumption
<1>1. /\ l.head[h] = At(t, 1)
      /\ \A j \in 1 .. n : l.next[t[j]] = At(t, j + 1) /\ l.prev[t[j]] = t[Ahead(t, j)]
  BY DLParts DEF Linked, Backward, Ahead
<1>2. \A j : At(t, j) = IF j <= n THEN t[j] ELSE NULL
  BY DEF At
<1>3. /\ \A j : Ahead(t, j) = IF j = 1 THEN n ELSE j - 1
      /\ \A j : After(t, j) = IF j = n THEN 1 ELSE j + 1
  BY DEF Ahead, After
<1> HIDE DEF t, n
<1>4. /\ (l.head[h] = NULL <=> n = 0)
      /\ (n # 0 => l.head[h] = t[1] /\ l.prev[t[1]] = t[n])
  <2>1. n # 0 => 1 \in 1 .. n /\ 1 <= n
    BY <1>0
  <2> QED BY <1>0, <1>1, <1>2, <1>3, <2>1
<1>5. ASSUME NEW j \in 1 .. n
      PROVE  /\ t[j] \in Elts /\ t[j] # NULL
             /\ l.next[t[j]] = At(t, j + 1) /\ l.prev[t[j]] = t[Ahead(t, j)]
             /\ (l.head[h] = t[j] <=> j = 1) /\ (l.prev[t[j]] = t[j] <=> n = 1)
             /\ (j # 1 => l.prev[t[j]] = t[j - 1])
             /\ (l.next[t[j]] = NULL <=> j = n)
             /\ (j # n => l.next[t[j]] = t[After(t, j)])
             /\ (j = n => l.head[h] = t[After(t, j)])
  <2>1. n # 0 /\ 1 \in 1 .. n /\ Ahead(t, j) \in 1 .. n /\ (Ahead(t, j) = j <=> n = 1)
    BY <1>0, <1>3
  <2>2. (j + 1 <= n <=> j # n) /\ (j + 1 <= n => j + 1 \in 1 .. n)
    BY <1>0
  <2>3. l.next[t[j]] = IF j + 1 <= n THEN t[j + 1] ELSE NULL
    BY <1>1, <1>2
  <2>4. l.prev[t[j]] = t[j] <=> n = 1
    BY <1>0, <1>1, <2>1
  <2> QED BY <1>0, <1>1, <1>3, <1>4, <2>1, <2>2, <2>3, <2>4
<1> QED BY <1>4, <1>5 DEF t, n

LEMMA DLPrepends ==
  ASSUME StackAssumption, NEW ord \in Orders, NEW h \in Heads, NEW e \in Elts, Outside(ord, e),
         NEW l, DLIs(l, ord)
  PROVE  DLIs(List!DL_PREPEND(l, h, e), Inserted(ord, h, 1, e))
<1> DEFINE t == ord[h]
           n == Len(t)
           hd == [l.head EXCEPT ![h] = e]
           nx == [l.next EXCEPT ![e] = l.head[h]]
           pv == IF n = 0 THEN [l.prev EXCEPT ![e] = e]
                 ELSE [l.prev EXCEPT ![e] = t[n], ![t[1]] = e]
<1>0. /\ l = DLL(l.head, l.next, l.prev) /\ l.head \in [Heads -> Nodes] /\ l.next \in Linkage
      /\ l.prev \in Linkage /\ l.head[h] = At(t, 1) /\ n \in Nat
      /\ \A j \in 1 .. n : t[j] \in Elts /\ t[j] # e
  BY DLParts, OrderIs DEF Outside
<1>1. (l.head[h] = NULL <=> n = 0) /\ (n # 0 => l.head[h] = t[1] /\ l.prev[t[1]] = t[n])
  BY DLAt
<1>2. List!DL_PREPEND(l, h, e) = DLL(hd, nx, pv)
  <2>1. List!DL_PREPEND(l, h, e) = SetHNP(l, hd, nx, pv)
    <3>1. CASE n = 0
      BY <1>1, <3>1 DEF List!DL_PREPEND, SetHNP
    <3>2. CASE n # 0
      BY <1>1, <3>2 DEF List!DL_PREPEND, SetHNP
    <3> QED BY <3>1, <3>2
  <2> HIDE DEF hd, nx, pv
  <2> QED BY <1>0, <2>1, DoubleSet
<1>3. nx \in Linkage /\ nx[e] = At(t, 1) /\ Changed(nx, l.next, e, e)
  BY <1>0 DEF Linkage, Changed
<1>4. /\ pv \in Linkage /\ pv[e] = Pred(t, 1, e) /\ pv[Succ(t, 1, e)] = e
      /\ Changed(pv, l.prev, e, Succ(t, 1, e))
  <2>1. /\ Pred(t, 1, e) = (IF n = 0 THEN e ELSE t[n])
        /\ Succ(t, 1, e) = (IF n = 0 THEN e ELSE t[1])
    BY <1>0, EndsAre
  <2>2. n # 0 => n \in 1 .. n /\ 1 \in 1 .. n
    BY <1>0
  <2> HIDE DEF n, t
  <2> QED BY <1>0, <2>1, <2>2 DEF Linkage, Changed, Nodes
<1>5. 1 \in 1 .. n + 1 /\ ~ (1 > 1) /\ hd = [l.head EXCEPT ![h] = IF 1 = 1 THEN e ELSE @]
  BY <1>0
<1> HIDE DEF hd, nx, pv
<1> QED BY <1>2, <1>3, <1>4, <1>5, DLInserts

LEMMA DLAppends ==
  ASSUME StackAssumption, NEW ord \in Orders, NEW h \in Heads, NEW e \in Elts, Outside(ord, e),
         NEW l, DLIs(l, ord)
  PROVE  DLIs(List!DL_APPEND(l, h, e), Inserted(ord, h, Len(ord[h]) + 1, e))
<1> DEFINE t == ord[h]
           n == Len(t)
           hd == IF n = 0 THEN [l.head EXCEPT ![h] = e] ELSE l.head
           nx == IF n = 0 THEN [l.next EXCEPT ![e] = NULL]
                 ELSE [l.next EXCEPT ![t[n]] = e, ![e] = NULL]
           pv == IF n = 0 THEN [l.prev EXCEPT ![e] = e]
                 ELSE [l.prev EXCEPT ![e] = t[n], ![t[1]] = e]
<1>0. /\ l = DLL(l.head, l.next, l.prev) /\ l.head \in [Heads -> Nodes] /\ l.next \in Linkage
      /\ l.prev \in Linkage /\ l.head[h] = At(t, 1) /\ n \in Nat
      /\ \A j \in 1 .. n : t[j] \in Elts /\ t[j] # e
  BY DLParts, OrderIs DEF Outside
<1>1. (l.head[h] = NULL <=> n = 0) /\ (n # 0 => l.head[h] = t[1] /\ l.prev[t[1]] = t[n])
  BY DLAt
<1>2. List!DL_APPEND(l, h, e) = DLL(hd, nx, pv)
  <2>1. CASE n = 0
    <3>1. List!DL_APPEND(l, h, e) = SetHPN(l, hd, nx, pv)
      BY <1>1, <2>1 DEF List!DL_APPEND, SetHPN, SetPN
    <3> HIDE DEF hd, nx, pv
    <3> QED BY <1>0, <3>1, DoubleSet
  <2>2. CASE n # 0
    <3>1. List!DL_APPEND(l, h, e) = SetPN(l, nx, pv) /\ hd = l.head
      BY <1>1, <2>2 DEF List!DL_APPEND, SetHPN, SetPN
    <3> HIDE DEF hd, nx, pv
    <3> QED BY <1>0, <3>1, DoubleSet
  <2> QED BY <2>1, <2>2
<1>3. n # 0 => n \in 1 .. n /\ 1 \in 1 .. n
  BY <1>0
<1>4. At(t, n + 1) = NULL
  BY <1>0 DEF At
<1>5. n + 1 \in 1 .. n + 1 /\ (n + 1 = 1 <=> n = 0) /\ (n + 1 > 1 <=> n # 0) /\ n + 1 - 1 = n
  BY <1>0
<1>6. /\ Pred(t, n + 1, e) = (IF n = 0 THEN e ELSE t[n])
      /\ Succ(t, n + 1, e) = (IF n = 0 THEN e ELSE t[1])
  BY <1>0, EndsAre
<1> HIDE DEF n, t
<1>7. /\ nx \in Linkage /\ nx[e] = At(t, n + 1) /\ (n + 1 > 1 => nx[t[n + 1 - 1]] = e)
      /\ Changed(nx, l.next, e, IF n + 1 = 1 THEN e ELSE t[n + 1 - 1])
  BY <1>0, <1>3, <1>4, <1>5 DEF Linkage, Changed, Nodes
<1>8. /\ pv \in Linkage /\ pv[e] = Pred(t, n + 1, e) /\ pv[Succ(t, n + 1, e)] = e
      /\ Changed(pv, l.prev, e, Succ(t, n + 1, e))
  BY <1>0, <1>3, <1>6 DEF Linkage, Changed, Nodes
<1>9. hd = [l.head EXCEPT ![h] = IF n + 1 = 1 THEN e ELSE @]
  BY <1>0, <1>5
<1> HIDE DEF hd, nx, pv
<1> QED BY <1>2, <1>5, <1>7, <1>8, <1>9, DLInserts DEF n, t

LEMMA DLPrependsElem ==
  ASSUME StackAssumption, NEW ord \in Orders, NEW h \in Heads, NEW i \in 1 .. Len(ord[h]),
         NEW e \in Elts, Outside(ord, e), NEW l, DLIs(l, ord)
  PROVE  DLIs(List!DL_PREPEND_ELEM(l, h, ord[h][i], e), Inserted(ord, h, i, e))
<1> DEFINE t == ord[h]
           n == Len(t)
           hd == HeadTo(l.head, h, i, e)
           mx == LinkTo(l.next, t, i, e)
           nx == [mx EXCEPT ![e] = t[i]]
           pv == [l.prev EXCEPT ![e] = t[Ahead(t, i)], ![t[i]] = e]
<1>0. /\ l = DLL(l.head, l.next, l.prev) /\ l.head \in [Heads -> Nodes] /\ l.next \in Linkage
      /\ l.prev \in Linkage /\ n \in Nat /\ \A j \in 1 .. n : t[j] \in Elts /\ t[j] # e
  BY DLParts, OrderIs DEF Outside
<1>1. /\ (l.head[h] = t[i] <=> i = 1) /\ l.prev[t[i]] = t[Ahead(t, i)] /\ t[i] # NULL
      /\ (i # 1 => l.prev[t[i]] = t[i - 1])
  BY DLAt
<1>2. List!DL_PREPEND_ELEM(l, h, t[i], e) = DLL(hd, nx, pv)
  <2>1. List!DL_PREPEND_ELEM(l, h, t[i], e) = SetPHN(l, hd, nx, pv)
    <3>1. CASE i = 1
      BY <1>1, <3>1 DEF List!DL_PREPEND_ELEM, SetPHN, HeadTo, LinkTo
    <3>2. CASE i # 1
      BY <1>1, <3>2 DEF List!DL_PREPEND_ELEM, SetPHN, HeadTo, LinkTo
    <3> QED BY <3>1, <3>2
  <2> HIDE DEF hd, nx, pv
  <2> QED BY <1>0, <2>1, DoubleSet
<1>3. i \in 1 .. n /\ (i # 1 => i - 1 \in 1 .. n /\ i > 1)
  BY <1>0
<1>4. /\ i \in 1 .. n + 1 /\ At(t, i) = t[i] /\ Ahead(t, i) \in 1 .. n
      /\ Pred(t, i, e) = t[Ahead(t, i)] /\ Succ(t, i, e) = t[i]
  BY <1>0, RingIs, Neighbours DEF At
<1> HIDE DEF n, t
<1>5. mx \in Linkage /\ (\A y \in Elts : i = 1 \/ y # t[i - 1] => mx[y] = l.next[y])
      /\ (i # 1 => mx[t[i - 1]] = e)
  BY <1>0, <1>3 DEF Linkage, Nodes, LinkTo
<1> HIDE DEF mx
<1>6. /\ nx \in Linkage /\ nx[e] = At(t, i) /\ (i > 1 => nx[t[i - 1]] = e)
      /\ Changed(nx, l.next, e, IF i = 1 THEN e ELSE t[i - 1])
  BY <1>0, <1>3, <1>4, <1>5 DEF Linkage, Nodes, Changed
<1>7. /\ pv \in Linkage /\ pv[e] = Pred(t, i, e) /\ pv[Succ(t, i, e)] = e
      /\ Changed(pv, l.prev, e, Succ(t, i, e))
  BY <1>0, <1>3, <1>4 DEF Linkage, Nodes, Changed
<1>8. hd = [l.head EXCEPT ![h] = IF i = 1 THEN e ELSE @]
  BY DEF HeadTo
<1> HIDE DEF hd, nx, pv
<1>9. DLIs(DLL(hd, nx, pv), Inserted(ord, h, i, e))
  BY <1>4, <1>6, <1>7, <1>8, DLInserts DEF n, t
<1> QED BY <1>2, <1>9 DEF t

LEMMA DLAppendsElem ==
  ASSUME StackAssumption, NEW ord \in Orders, NEW h \in Heads, NEW i \in 1 .. Len(ord[h]),
         NEW e \in Elts, Outside(ord, e), NEW l, DLIs(l, ord)
  PROVE  DLIs(List!DL_APPEND_ELEM(l, h, ord[h][i], e), Inserted(ord, h, i + 1, e))
<1> DEFINE t == ord[h]
           n == Len(t)
           nx == [l.next EXCEPT ![e] = At(t, i + 1), ![t[i]] = e]
           pv == [l.prev EXCEPT ![e] = t[i], ![t[After(t, i)]] = e]
<1>0. /\ l = DLL(l.head, l.next, l.prev) /\ l.head \in [Heads -> Nodes] /\ l.next \in Linkage
      /\ l.prev \in Linkage /\ n \in Nat /\ \A j \in 1 .. n : t[j] \in Elts /\ t[j] # e
  BY DLParts, OrderIs DEF Outside
<1>1. /\ l.next[t[i]] = At(t, i + 1) /\ t[i] # NULL
      /\ (IF l.next[t[i]] # NULL THEN l.next[t[i]] ELSE l.head[h]) = t[After(t, i)]
  BY DLAt
<1>2. List!DL_APPEND_ELEM(l, h, t[i], e) = DLL(l.head, nx, pv)
  <2>1. List!DL_APPEND_ELEM(l, h, t[i], e) = SetNP(l, nx, pv)
    BY <1>1 DEF List!DL_APPEND_ELEM, SetNP
  <2> HIDE DEF nx, pv
  <2> QED BY <1>0, <2>1, DoubleSet
<1>3. i + 1 \in 1 .. n + 1 /\ i + 1 - 1 = i /\ i + 1 # 1 /\ i + 1 > 1 /\ i \in 1 .. n
  BY <1>0
<1>4. /\ After(t, i) \in 1 .. n /\ Pred(t, i + 1, e) = t[i] /\ Succ(t, i + 1, e) = t[After(t, i)]
      /\ At(t, i + 1) \in Nodes
  <2>1. At(t, i + 1) \in Nodes
    BY <1>0 DEF At, Nodes
  <2>2. Len(t) \in Nat /\ i \in 1 .. Len(t)
    BY <1>0
  <2> HIDE DEF t, n
  <2>3. Pred(t, i + 1, e) = t[i] /\ Succ(t, i + 1, e) = t[After(t, i)]
    BY <2>2, RingIs
  <2>4. After(t, i) \in 1 .. Len(t)
    BY <2>2, Neighbours
  <2> QED BY <2>1, <2>3, <2>4 DEF n
<1> HIDE DEF n, t
<1>5. /\ nx \in Linkage /\ nx[e] = At(t, i + 1) /\ (i + 1 > 1 => nx[t[i + 1 - 1]] = e)
      /\ Changed(nx, l.next, e, IF i + 1 = 1 THEN e ELSE t[i + 1 - 1])
  BY <1>0, <1>3, <1>4 DEF Linkage, Nodes, Changed
<1>6. /\ pv \in Linkage /\ pv[e] = Pred(t, i + 1, e) /\ pv[Succ(t, i + 1, e)] = e
      /\ Changed(pv, l.prev, e, Succ(t, i + 1, e))
  BY <1>0, <1>3, <1>4 DEF Linkage, Nodes, Changed
<1>7. l.head = [l.head EXCEPT ![h] = IF i + 1 = 1 THEN e ELSE @]
  BY <1>0, <1>3
<1> HIDE DEF nx, pv
<1>8. DLIs(DLL(l.head, nx, pv), Inserted(ord, h, i + 1, e))
  BY <1>3, <1>5, <1>6, <1>7, DLInserts DEF n, t
<1> QED BY <1>2, <1>8 DEF t

LEMMA DLReplaces ==
  ASSUME StackAssumption, NEW ord \in Orders, NEW h \in Heads, NEW i \in 1 .. Len(ord[h]),
         NEW e \in Elts, Outside(ord, e), NEW l, DLIs(l, ord)
  PROVE  DLIs(List!DL_REPLACE_ELEM(l, h, ord[h][i], e), Replaced(ord, h, i, e))
<1> DEFINE t == ord[h]
           n == Len(t)
           hd == HeadTo(l.head, h, i, e)
           ex == [l.next EXCEPT ![e] = At(t, i + 1)]
           nx == LinkTo(ex, t, i, e)
           pv == IF n = 1 THEN [l.prev EXCEPT ![e] = e]
                 ELSE [l.prev EXCEPT ![e] = t[Ahead(t, i)], ![t[After(t, i)]] = e]
<1>0. /\ l = DLL(l.head, l.next, l.prev) /\ l.head \in [Heads -> Nodes] /\ l.next \in Linkage
      /\ l.prev \in Linkage /\ n \in Nat /\ \A j \in 1 .. n : t[j] \in Elts /\ t[j] # e
  BY DLParts, OrderIs DEF Outside
<1>1. /\ (l.head[h] = t[i] <=> i = 1) /\ l.prev[t[i]] = t[Ahead(t, i)]
      /\ (i # 1 => l.prev[t[i]] = t[i - 1]) /\ l.next[t[i]] = At(t, i + 1)
      /\ (IF l.next[t[i]] = NULL THEN l.head[h] ELSE l.next[t[i]]) = t[After(t, i)]
      /\ (l.next[t[i]] = NULL <=> i = n)
  BY DLAt
<1>2. List!DL_REPLACE_ELEM(l, h, t[i], e) = DLL(hd, nx, pv)
  <2>1. CASE i = 1
    <3>1. l.next[t[i]] = NULL <=> n = 1
      BY <1>0, <1>1, <2>1
    <3> HIDE DEF n
    <3>2. List!DL_REPLACE_ELEM(l, h, t[i], e) = SetHNP(l, hd, nx, pv)
      <4>1. CASE n = 1
        BY <1>1, <2>1, <3>1, <4>1 DEF List!DL_REPLACE_ELEM, SetHNP, HeadTo, LinkTo
      <4>2. CASE n # 1
        BY <1>1, <2>1, <3>1, <4>2 DEF List!DL_REPLACE_ELEM, SetHNP, HeadTo, LinkTo
      <4> QED BY <4>1, <4>2
    <3> HIDE DEF hd, nx, pv
    <3> QED BY <1>0, <3>2, DoubleSet
  <2>2. CASE i # 1
    <3>1. n # 1
      BY <1>0, <2>2
    <3> HIDE DEF n
    <3>2. List!DL_REPLACE_ELEM(l, h, t[i], e) = SetNP(l, nx, pv) /\ hd = l.head
      BY <1>0, <1>1, <2>2, <3>1 DEF List!DL_REPLACE_ELEM, SetNP, HeadTo, LinkTo
    <3> HIDE DEF hd, nx, pv
    <3> QED BY <1>0, <3>2, DoubleSet
  <2> QED BY <2>1, <2>2
<1>3. i \in 1 .. n /\ (i # 1 => i - 1 \in 1 .. n /\ i > 1)
  BY <1>0
<1>4. Ahead(t, i) \in 1 .. n /\ After(t, i) \in 1 .. n /\ At(t, i + 1) \in Nodes
  <2>1. At(t, i + 1) \in Nodes
    BY <1>0 DEF At, Nodes
  <2> QED BY <1>0, <2>1, Neighbours
<1> HIDE DEF n, t
<1>5. ex \in Linkage /\ ex[e] = At(t, i + 1) /\ \A y \in Elts \ {e} : ex[y] = l.next[y]
  BY <1>0, <1>4 DEF Linkage
<1> HIDE DEF ex
<1>6. /\ nx \in Linkage /\ nx[e] = At(t, i + 1) /\ (i > 1 => nx[t[i - 1]] = e)
      /\ Changed(nx, l.next, e, IF i = 1 THEN e ELSE t[i - 1])
  BY <1>0, <1>3, <1>5 DEF Linkage, Nodes, Changed, LinkTo
<1>7. /\ pv \in Linkage /\ pv[e] = (IF n = 1 THEN e ELSE t[Ahead(t, i)])
      /\ Changed(pv, l.prev, e, IF n = 1 THEN e ELSE t[After(t, i)])
      /\ (n # 1 => pv[t[After(t, i)]] = e)
  BY <1>0, <1>4 DEF Linkage, Nodes, Changed
<1>8. hd = [l.head EXCEPT ![h] = IF i = 1 THEN e ELSE @]
  BY DEF HeadTo
<1> HIDE DEF hd, nx, pv
<1>9. DLIs(DLL(hd, nx, pv), Replaced(ord, h, i, e))
  BY <1>6, <1>7, <1>8, DLReplacing DEF n, t
<1> QED BY <1>2, <1>9 DEF t

LEMMA DLDeletes ==
  ASSUME StackAssumption, NEW ord \in Orders, NEW h \in Heads, NEW i \in 1 .. Len(ord[h]),
         NEW l, DLIs(l, ord)
  PROVE  DLIs(List!DL_DELETE(l, h, ord[h][i]), Removed(ord, h, i))
<1> DEFINE t == ord[h]
           n == Len(t)
           hd == HeadTo(l.head, h, i, At(t, 2))
           nx == LinkTo(l.next, t, i, At(t, i + 1))
           pv == IF n = 1 THEN l.prev ELSE [l.prev EXCEPT ![t[After(t, i)]] = t[Ahead(t, i)]]
<1>0. /\ l = DLL(l.head, l.next, l.prev) /\ l.head \in [Heads -> Nodes] /\ l.next \in Linkage
      /\ l.prev \in Linkage /\ n \in Nat /\ \A j \in 1 .. n : t[j] \in Elts
      /\ \A j, k \in 1 .. n : t[j] = t[k] => j = k
  BY DLParts, OrderIs
<1>1. /\ (l.head[h] = t[i] <=> i = 1) /\ l.prev[t[i]] = t[Ahead(t, i)]
      /\ (i # 1 => l.prev[t[i]] = t[i - 1]) /\ l.next[t[i]] = At(t, i + 1)
      /\ (IF l.next[t[i]] # NULL THEN l.next[t[i]] ELSE l.head[h]) = t[After(t, i)]
      /\ (l.prev[t[i]] = t[i] <=> n = 1) /\ (l.next[t[i]] = NULL <=> i = n)
  BY DLAt
<1>2. List!DL_DELETE(l, h, t[i]) = DLL(hd, nx, pv)
  <2>1. CASE n = 1
    <3>1. i = 1
      BY <1>0, <2>1
    <3>2. At(t, 2) = NULL
      BY <2>1 DEF At
    <3> HIDE DEF n
    <3>3. List!DL_DELETE(l, h, t[i]) = SetH(l, hd) /\ nx = l.next /\ pv = l.prev
      BY <1>1, <2>1, <3>1, <3>2 DEF List!DL_DELETE, SetH, HeadTo, LinkTo
    <3> HIDE DEF hd, nx, pv
    <3> QED BY <1>0, <3>3, DoubleSet
  <2>2. CASE n # 1 /\ i = 1
    <3>1. i + 1 = 2 /\ i # n
      BY <2>2
    <3>2. l.next[t[i]] = At(t, 2) /\ l.next[t[i]] = t[After(t, i)]
      BY <1>1, <2>2, <3>1
    <3> HIDE DEF n
    <3>3. List!DL_DELETE(l, h, t[i]) = SetPH(l, hd, pv) /\ nx = l.next
      <4>1. List!DL_DELETE(l, h, t[i])
              = [l EXCEPT !.prev[l.next[t[i]]] = l.prev[t[i]], !.head[h] = l.next[t[i]]]
        BY <1>1, <2>2 DEF List!DL_DELETE
      <4>2. /\ pv = [l.prev EXCEPT ![l.next[t[i]]] = l.prev[t[i]]]
            /\ hd = [l.head EXCEPT ![h] = l.next[t[i]]]
        BY <1>1, <2>2, <3>2 DEF HeadTo
      <4>3. nx = l.next
        BY <2>2 DEF LinkTo
      <4> HIDE DEF t, nx
      <4> QED BY <4>1, <4>2, <4>3 DEF SetPH
    <3> HIDE DEF hd, nx, pv
    <3> QED BY <1>0, <3>3, DoubleSet
  <2>3. CASE n # 1 /\ i # 1
    <3> HIDE DEF n
    <3>1. List!DL_DELETE(l, h, t[i]) = SetNP(l, nx, pv) /\ hd = l.head
      <4>1. List!DL_DELETE(l, h, t[i])
              = [l EXCEPT !.next[l.prev[t[i]]] = l.next[t[i]],
                          !.prev[IF l.next[t[i]] # NULL THEN l.next[t[i]] ELSE l.head[h]]
                             = l.prev[t[i]]]
        BY <1>1, <2>3 DEF List!DL_DELETE
      <4>2. /\ pv = [l.prev EXCEPT ![IF l.next[t[i]] # NULL THEN l.next[t[i]] ELSE l.head[h]]
                                     = l.prev[t[i]]]
            /\ nx = [l.next EXCEPT ![l.prev[t[i]]] = l.next[t[i]]]
        BY <1>1, <2>3 DEF LinkTo
      <4>3. hd = l.head
        BY <1>0, <2>3 DEF HeadTo
      <4> HIDE DEF t, hd
      <4> QED BY <4>1, <4>2, <4>3 DEF SetNP
    <3> HIDE DEF hd, nx, pv
    <3> QED BY <1>0, <3>1, DoubleSet
  <2> QED BY <2>1, <2>2, <2>3
<1>3. i \in 1 .. n /\ (i # 1 => i - 1 \in 1 .. n /\ i > 1)
  BY <1>0
<1>4. Ahead(t, i) \in 1 .. n /\ After(t, i) \in 1 .. n /\ At(t, i + 1) \in Nodes
  <2>1. At(t, i + 1) \in Nodes
    BY <1>0 DEF At, Nodes
  <2> QED BY <1>0, <2>1, Neighbours
<1> HIDE DEF n, t
<1>5. /\ nx \in Linkage /\ (i > 1 => nx[t[i - 1]] = At(t, i + 1))
      /\ Changed(nx, l.next, t[i], IF i = 1 THEN t[i] ELSE t[i - 1])
  BY <1>0, <1>3, <1>4 DEF Linkage, Nodes, Changed, LinkTo
<1>6. /\ pv \in Linkage /\ Changed(pv, l.prev, t[i], t[After(t, i)])
      /\ (n # 1 => pv[t[After(t, i)]] = t[Ahead(t, i)])
  BY <1>0, <1>4 DEF Linkage, Nodes, Changed
<1>7. hd = [l.head EXCEPT ![h] = IF i = 1 THEN At(t, 2) ELSE @]
  BY DEF HeadTo
<1> HIDE DEF hd, nx, pv
<1>8. DLIs(DLL(hd, nx, pv), Removed(ord, h, i))
  BY <1>5, <1>6, <1>7, DLRemoving DEF n, t
<1> QED BY <1>2, <1>8 DEF t

LEMMA NothingJoined ==
  ASSUME NEW t, Distinct(t), NEW u, Distinct(u)
  PROVE  (Len(t) = 0 => t \o u = u) /\ (Len(u) = 0 => t \o u = t)
<1>1. t \in Seq(Elts) /\ u \in Seq(Elts)
  BY DEF Distinct
<1>2. (Len(t) = 0 => t = <<>>) /\ (Len(u) = 0 => u = <<>>)
  BY <1>1, EmptySeq
<1> QED BY <1>1, <1>2, ConcatEmptySeq

LEMMA DLJoins ==
  ASSUME StackAssumption, NEW ord \in Orders, NEW h \in Heads, NEW g \in Heads, h # g,
         NEW l, DLIs(l, ord)
  PROVE  DLIs([List!DL_CONCAT(l, h, g) EXCEPT !.head[g] = NULL], Joined(ord, h, g))
<1> DEFINE t == ord[h]
           u == ord[g]
           n == Len(t)
           m == Len(u)
           v == t \o u
           new == Joined(ord, h, g)
           mid == IF n = 0 THEN [l.head EXCEPT ![h] = l.head[g]] ELSE l.head
           hd == [mid EXCEPT ![g] = NULL]
           nx == IF n = 0 \/ m = 0 THEN l.next ELSE [l.next EXCEPT ![t[n]] = u[1]]
           pv == IF n = 0 \/ m = 0 THEN l.prev ELSE [l.prev EXCEPT ![u[1]] = t[n], ![t[1]] = u[m]]
           r == DLL(hd, nx, pv)
<1>0. /\ l = DLL(l.head, l.next, l.prev) /\ l.head \in [Heads -> Nodes]
      /\ l.next \in Linkage /\ l.prev \in Linkage
      /\ l.head[h] = At(t, 1) /\ l.head[g] = At(u, 1) /\ Linked(t, l.next) /\ Linked(u, l.next)
      /\ Backward(t, l.prev) /\ Backward(u, l.prev)
      /\ Distinct(t) /\ Distinct(u) /\ NULL \in Nodes
  BY DLParts, DistinctIn DEF Nodes
<1>1. /\ n \in Nat /\ m \in Nat /\ \A j \in 1 .. n : t[j] \in Elts /\ t[j] \in Nodes
      /\ \A j \in 1 .. m : u[j] \in Elts /\ u[j] \in Nodes
      /\ \A j \in 1 .. n, k \in 1 .. m : t[j] # u[k]
  BY <1>0 DEF Distinct, Orders, Separate, Nodes
<1>2. /\ (l.head[h] = NULL <=> n = 0) /\ (n # 0 => l.head[h] = t[1] /\ l.prev[t[1]] = t[n])
      /\ (l.head[g] = NULL <=> m = 0) /\ (m # 0 => l.head[g] = u[1] /\ l.prev[u[1]] = u[m])
  BY DLAt
<1>3. [List!DL_CONCAT(l, h, g) EXCEPT !.head[g] = NULL] = r
  <2>1. List!DL_CONCAT(l, h, g) = DLL(mid, nx, pv)
    <3>1. CASE m = 0
      <4>1. mid = l.head
        BY <1>0, <1>2, <3>1
      <4> QED BY <1>0, <1>2, <3>1, <4>1 DEF List!DL_CONCAT
    <3>2. CASE m # 0 /\ n = 0
      <4>1. List!DL_CONCAT(l, h, g) = SetH(l, mid) /\ nx = l.next /\ pv = l.prev
        BY <1>2, <3>2 DEF List!DL_CONCAT, SetH
      <4> HIDE DEF mid, nx, pv
      <4> QED BY <1>0, <4>1, DoubleSet
    <3>3. CASE m # 0 /\ n # 0
      <4>1. List!DL_CONCAT(l, h, g) = SetPN(l, nx, pv) /\ mid = l.head
        <5> HIDE DEF n, m, t, u
        <5> QED BY <1>2, <3>3 DEF List!DL_CONCAT, SetPN
      <4> HIDE DEF mid, nx, pv
      <4> QED BY <1>0, <4>1, DoubleSet
    <3> QED BY <3>1, <3>2, <3>3
  <2>2. [DLL(mid, nx, pv) EXCEPT !.head = hd] = DLL(hd, nx, pv)
    <3>1. DLL(mid, nx, pv) = DLL(DLL(mid, nx, pv).head, DLL(mid, nx, pv).next, DLL(mid, nx, pv).prev)
      BY DEF DLL
    <3>2. SetH(DLL(mid, nx, pv), hd) = DLL(hd, DLL(mid, nx, pv).next, DLL(mid, nx, pv).prev)
      <4> HIDE DEF mid, nx, pv, hd
      <4> QED BY <3>1, DoubleSet
    <3> HIDE DEF mid, nx, pv, hd
    <3> QED BY <3>2 DEF SetH, DLL
  <2>3. DLL(mid, nx, pv).head = mid
    BY DEF DLL
  <2> HIDE DEF mid, nx, pv
  <2> QED BY <2>1, <2>2, <2>3
<1>4. n # 0 => 1 \in 1 .. n /\ n \in 1 .. n
  BY <1>1
<1>5. m # 0 => 1 \in 1 .. m /\ m \in 1 .. m
  BY <1>1
<1>6. At(v, 1) = IF n = 0 THEN At(u, 1) ELSE At(t, 1)
  BY <1>0, JoinedFirst
<1>7. /\ At(u, 1) = (IF m = 0 THEN NULL ELSE u[1])
      /\ (n # 0 => l.next[t[n]] = NULL)
  <2>1. At(t, n + 1) = NULL
    BY <1>1 DEF At
  <2> QED BY <1>0, <1>1, <1>4, <2>1 DEF Linked, At
<1>8. (n = 0 => v = u) /\ (m = 0 => v = t)
  BY <1>0, NothingJoined
<1>9. new[h] = v /\ new[g] = <<>> /\ \A f \in Heads : f # h /\ f # g => new[f] = ord[f]
  BY JoinedIs
<1> HIDE DEF v, new, n, m
<1>10. Linked(v, nx)
  <2>1. \A y \in Elts : (n = 0 \/ y # t[n]) => nx[y] = l.next[y]
    BY <1>0 DEF Linkage
  <2>2. n # 0 => nx[t[n]] = At(u, 1)
    BY <1>0, <1>1, <1>4, <1>7 DEF Linkage
  <2> HIDE DEF nx, t, u
  <2> QED BY <1>0, <1>1, <2>1, <2>2, JoinLinked DEF v, n, m
<1>11. Backward(v, pv)
  <2>1. CASE n = 0
    BY <1>0, <1>8, <2>1
  <2>2. CASE n # 0 /\ m = 0
    BY <1>0, <1>8, <2>2
  <2>3. CASE n # 0 /\ m # 0
    <3>1. pv[u[1]] = t[n] /\ pv[t[1]] = u[m] /\ Changed(pv, l.prev, u[1], t[1])
      BY <1>0, <1>1, <1>4, <1>5, <2>3 DEF Linkage, Changed
    <3> HIDE DEF pv, t, u
    <3> QED BY <1>0, <1>1, <2>3, <3>1, JoinBackward DEF v, n, m
  <2> QED BY <2>1, <2>2, <2>3
<1>12. /\ nx \in Linkage /\ pv \in Linkage /\ hd \in [Heads -> Nodes]
       /\ \A x \in Elts : \/ nx[x] = l.next[x] \/ \E j \in 1 .. n : x = t[j]
                          \/ \E j \in 1 .. m : x = u[j]
       /\ \A x \in Elts : \/ pv[x] = l.prev[x] \/ \E j \in 1 .. n : x = t[j]
                          \/ \E j \in 1 .. m : x = u[j]
  <2> HIDE DEF t, u
  <2>1. nx \in Linkage /\ pv \in Linkage
    BY <1>0, <1>1, <1>4, <1>5 DEF Linkage
  <2>2. mid \in [Heads -> Nodes]
    BY <1>0
  <2>3. hd \in [Heads -> Nodes]
    <3> HIDE DEF mid
    <3> QED BY <1>0, <2>2
  <2>4. \A x \in Elts : nx[x] = l.next[x] \/ \E j \in 1 .. n : x = t[j]
    BY <1>0, <1>4 DEF Linkage
  <2>5. \A x \in Elts : \/ pv[x] = l.prev[x] \/ \E j \in 1 .. n : x = t[j]
                        \/ \E j \in 1 .. m : x = u[j]
    BY <1>0, <1>4, <1>5 DEF Linkage
  <2> QED BY <2>1, <2>3, <2>4, <2>5
<1>13. hd[h] = At(v, 1) /\ hd[g] = NULL /\ \A f \in Heads : f # h /\ f # g => hd[f] = l.head[f]
  <2> HIDE DEF t, u
  <2> QED BY <1>0, <1>6
<1> HIDE DEF nx, hd, pv
<1>14. r \in Double /\ r.head = hd /\ r.next = nx /\ r.prev = pv
  BY <1>12, DLLIs
<1> HIDE DEF r
<1>15. ASSUME NEW f \in Heads
       PROVE  hd[f] = At(new[f], 1) /\ Linked(new[f], nx) /\ Backward(new[f], pv)
  <2>1. CASE f = h
    BY <1>9, <1>10, <1>11, <1>13, <2>1
  <2>2. CASE f = g
    BY <1>9, <1>13, <2>2 DEF At, Linked, Backward
  <2>3. CASE f # h /\ f # g
    <3>1. hd[f] = At(ord[f], 1) /\ Linked(ord[f], l.next) /\ Backward(ord[f], l.prev)
      BY <1>13, <2>3, DLParts
    <3>2. /\ \A j \in 1 .. Len(ord[f]) : nx[ord[f][j]] = l.next[ord[f][j]]
          /\ \A j \in 1 .. Len(ord[f]) : pv[ord[f][j]] = l.prev[ord[f][j]]
      <4> DEFINE link == l.next
                 back == l.prev
      <4>1. /\ \A x \in Elts : \/ nx[x] = link[x] \/ \E j \in 1 .. Len(ord[h]) : x = ord[h][j]
                               \/ \E j \in 1 .. Len(ord[g]) : x = ord[g][j]
            /\ \A x \in Elts : \/ pv[x] = back[x] \/ \E j \in 1 .. Len(ord[h]) : x = ord[h][j]
                               \/ \E j \in 1 .. Len(ord[g]) : x = ord[g][j]
        BY <1>12 DEF n, m
      <4> HIDE DEF link, back
      <4>2. \A j \in 1 .. Len(ord[f]) : nx[ord[f][j]] = link[ord[f][j]]
        BY <2>3, <4>1, JoinSpares
      <4>3. \A j \in 1 .. Len(ord[f]) : pv[ord[f][j]] = back[ord[f][j]]
        BY <2>3, <4>1, JoinSpares
      <4> QED BY <4>2, <4>3 DEF link, back
    <3> QED BY <1>9, <2>3, <3>1, <3>2 DEF Linked, Backward
  <2> QED BY <2>1, <2>2, <2>3
<1>16. DLIs(r, new)
  BY <1>14, <1>15 DEF DLIs
<1> QED BY <1>3, <1>16 DEF new

\* What leaves every list forgets its links.
LEMMA Frees ==
  ASSUME NEW ord \in Orders, NEW e \in Elts, Outside(ord, e), NEW l
  PROVE  /\ LLIs(l, ord) => LLIs(List!FreedLL(l, e), ord)
         /\ DLIs(l, ord) => DLIs(List!Freed(l, e), ord)
         /\ CDLIs(l, ord) => CDLIs(List!Freed(l, e), ord)
<1>0. \A h \in Heads : \A j \in 1 .. Len(ord[h]) : ord[h][j] \in Elts \ {e}
  BY OrderIs DEF Outside
<1>1. ASSUME LLIs(l, ord) PROVE LLIs(List!FreedLL(l, e), ord)
  <2>1. List!FreedLL(l, e) = [head |-> l.head, next |-> [l.next EXCEPT ![e] = NULL]]
    BY <1>1, LLParts DEF List!FreedLL, List!Unlinked
  <2>2. NULL \in Nodes /\ \A h \in Heads : ord[h] \in Seq(Elts)
    BY OrderIs DEF Nodes
  <2> QED BY <1>1, <2>1, <2>2, LLOutside
<1> DEFINE nx == [l.next EXCEPT ![e] = NULL]
           pv == [l.prev EXCEPT ![e] = NULL]
<1>2. ASSUME l = DLL(l.head, l.next, l.prev), l.head \in [Heads -> Nodes],
             l.next \in Linkage, l.prev \in Linkage
      PROVE  LET r == List!Freed(l, e)
             IN  /\ r \in Double /\ r.head = l.head
                 /\ \A x \in Elts \ {e} : r.next[x] = l.next[x] /\ r.prev[x] = l.prev[x]
  <2>1. List!Freed(l, e) = SetNP(l, nx, pv)
    BY DEF List!Freed, List!Unlinked, SetNP
  <2>2. /\ nx \in Linkage /\ pv \in Linkage
        /\ \A x \in Elts \ {e} : nx[x] = l.next[x] /\ pv[x] = l.prev[x]
    BY <1>2 DEF Linkage, Nodes
  <2> HIDE DEF nx, pv
  <2>3. List!Freed(l, e) = DLL(l.head, nx, pv)
    BY <1>2, <2>1, DoubleSet
  <2> QED BY <1>2, <2>2, <2>3, DLLIs
<1>3. ASSUME DLIs(l, ord) PROVE DLIs(List!Freed(l, e), ord)
  <2> DEFINE r == List!Freed(l, e)
  <2>1. /\ r \in Double /\ r.head = l.head
        /\ \A x \in Elts \ {e} : r.next[x] = l.next[x] /\ r.prev[x] = l.prev[x]
    BY <1>2, <1>3, DLParts
  <2>2. ASSUME NEW h \in Heads
        PROVE  r.head[h] = At(ord[h], 1) /\ Linked(ord[h], r.next) /\ Backward(ord[h], r.prev)
    <3>1. \A j \in 1 .. Len(ord[h]) : /\ r.next[ord[h][j]] = l.next[ord[h][j]]
                                      /\ r.prev[ord[h][j]] = l.prev[ord[h][j]]
      BY <1>0, <2>1
    <3>2. l.head[h] = At(ord[h], 1) /\ Linked(ord[h], l.next) /\ Backward(ord[h], l.prev)
      BY <1>3, DLParts
    <3> HIDE DEF r
    <3>3. Linked(ord[h], r.next)
      BY <3>1, <3>2 DEF Linked
    <3>4. Backward(ord[h], r.prev)
      BY <3>1, <3>2 DEF Backward
    <3> QED BY <2>1, <3>2, <3>3, <3>4
  <2> QED BY <2>1, <2>2 DEF DLIs
<1>4. ASSUME CDLIs(l, ord) PROVE CDLIs(List!Freed(l, e), ord)
  <2> DEFINE r == List!Freed(l, e)
  <2>1. /\ r \in Double /\ r.head = l.head
        /\ \A x \in Elts \ {e} : r.next[x] = l.next[x] /\ r.prev[x] = l.prev[x]
    BY <1>2, <1>4, CDLParts
  <2>2. ASSUME NEW h \in Heads
        PROVE  r.head[h] = At(ord[h], 1) /\ Onward(ord[h], r.next) /\ Backward(ord[h], r.prev)
    <3>1. \A j \in 1 .. Len(ord[h]) : /\ r.next[ord[h][j]] = l.next[ord[h][j]]
                                      /\ r.prev[ord[h][j]] = l.prev[ord[h][j]]
      BY <1>0, <2>1
    <3>2. l.head[h] = At(ord[h], 1) /\ Onward(ord[h], l.next) /\ Backward(ord[h], l.prev)
      BY <1>4, CDLParts
    <3> HIDE DEF r
    <3>3. Onward(ord[h], r.next)
      BY <3>1, <3>2 DEF Onward
    <3>4. Backward(ord[h], r.prev)
      BY <3>1, <3>2 DEF Backward
    <3> QED BY <2>1, <3>2, <3>3, <3>4
  <2> QED BY <2>1, <2>2 DEF CDLIs
<1> QED BY <1>1, <1>3, <1>4

-----------------------------------------------------------------------------
(* A circular list *)

LEMMA CDLAt ==
  ASSUME StackAssumption, NEW ord \in Orders, NEW h \in Heads, NEW l, CDLIs(l, ord)
  PROVE  LET t == ord[h]
         IN  /\ (l.head[h] = NULL <=> Len(t) = 0) /\ (Len(t) # 0 => l.head[h] = t[1] /\ l.prev[t[1]] = t[Len(t)])
             /\ \A j \in 1 .. Len(t) :
                  /\ t[j] \in Elts /\ t[j] # NULL
                  /\ l.next[t[j]] = t[After(t, j)] /\ l.prev[t[j]] = t[Ahead(t, j)]
                  /\ (l.head[h] = t[j] <=> j = 1) /\ (l.next[t[j]] = t[j] <=> Len(t) = 1)
<1> DEFINE t == ord[h]
           n == Len(t)
<1>0. /\ n \in Nat /\ \A j \in 1 .. n : t[j] \in Elts
      /\ \A j, k \in 1 .. n : t[j] = t[k] => j = k
      /\ NULL \notin Elts
  BY OrderIs DEF StackAssumption
<1>1. /\ l.head[h] = At(t, 1)
      /\ \A j \in 1 .. n : l.next[t[j]] = t[After(t, j)] /\ l.prev[t[j]] = t[Ahead(t, j)]
  <2>1. l.head[h] = At(t, 1) /\ Onward(t, l.next) /\ Backward(t, l.prev)
    BY CDLParts
  <2>2. \A j \in 1 .. n : l.next[t[j]] = t[After(t, j)]
    BY <2>1 DEF Onward, After
  <2>3. \A j \in 1 .. n : l.prev[t[j]] = t[Ahead(t, j)]
    BY <2>1 DEF Backward, Ahead
  <2> QED BY <2>1, <2>2, <2>3
<1>2. At(t, 1) = IF 1 <= n THEN t[1] ELSE NULL
  BY DEF At
<1>3. /\ \A j : Ahead(t, j) = IF j = 1 THEN n ELSE j - 1
      /\ \A j : After(t, j) = IF j = n THEN 1 ELSE j + 1
  BY DEF Ahead, After
<1> HIDE DEF t, n
<1>4. /\ (l.head[h] = NULL <=> n = 0)
      /\ (n # 0 => l.head[h] = t[1] /\ l.prev[t[1]] = t[n])
  <2>1. n # 0 => 1 \in 1 .. n /\ 1 <= n
    BY <1>0
  <2> QED BY <1>0, <1>1, <1>2, <1>3, <2>1
<1>5. ASSUME NEW j \in 1 .. n
      PROVE  /\ t[j] \in Elts /\ t[j] # NULL
             /\ l.next[t[j]] = t[After(t, j)] /\ l.prev[t[j]] = t[Ahead(t, j)]
             /\ (l.head[h] = t[j] <=> j = 1) /\ (l.next[t[j]] = t[j] <=> n = 1)
  <2>1. n # 0 /\ 1 \in 1 .. n /\ After(t, j) \in 1 .. n /\ (After(t, j) = j <=> n = 1)
    BY <1>0, <1>3
  <2> QED BY <1>0, <1>1, <1>4, <2>1
<1> QED BY <1>4, <1>5 DEF t, n

\* Between the tail and the head an element is the last, or the first: that is
\* for the head to say.
LEMMA CDLEnters ==
  ASSUME StackAssumption, NEW ord \in Orders, NEW h \in Heads, NEW e \in Elts, Outside(ord, e),
         NEW l, CDLIs(l, ord)
  PROVE  /\ CDLIs(List!CDL_APPEND(l, h, e), Inserted(ord, h, Len(ord[h]) + 1, e))
         /\ CDLIs(List!CDL_PREPEND(l, h, e), Inserted(ord, h, 1, e))
<1> DEFINE t == ord[h]
           n == Len(t)
           hd == IF n = 0 THEN [l.head EXCEPT ![h] = e] ELSE l.head
           fd == [l.head EXCEPT ![h] = e]
           nx == IF n = 0 THEN [l.next EXCEPT ![e] = e]
                 ELSE [l.next EXCEPT ![e] = t[1], ![t[n]] = e]
           pv == IF n = 0 THEN [l.prev EXCEPT ![e] = e]
                 ELSE [l.prev EXCEPT ![e] = t[n], ![t[1]] = e]
<1>0. /\ l = DLL(l.head, l.next, l.prev) /\ l.head \in [Heads -> Nodes] /\ l.next \in Linkage
      /\ l.prev \in Linkage /\ n \in Nat
      /\ \A j \in 1 .. n : t[j] \in Elts /\ t[j] # e
  BY CDLParts, OrderIs DEF Outside
<1>1. (l.head[h] = NULL <=> n = 0) /\ (n # 0 => l.head[h] = t[1] /\ l.prev[t[1]] = t[n])
  BY CDLAt
<1>2. List!CDL_APPEND(l, h, e) = DLL(hd, nx, pv)
  <2>1. CASE n = 0
    <3>1. List!CDL_APPEND(l, h, e) = SetHPN(l, hd, nx, pv)
      BY <1>1, <2>1 DEF List!CDL_APPEND, SetHPN
    <3> HIDE DEF hd, nx, pv
    <3> QED BY <1>0, <3>1, DoubleSet
  <2>2. CASE n # 0
    <3>1. List!CDL_APPEND(l, h, e) = SetPN(l, nx, pv) /\ hd = l.head
      BY <1>1, <2>2 DEF List!CDL_APPEND, SetPN
    <3> HIDE DEF hd, nx, pv
    <3> QED BY <1>0, <3>1, DoubleSet
  <2> QED BY <2>1, <2>2
<1>3. List!CDL_PREPEND(l, h, e) = DLL(fd, nx, pv)
  <2>0. fd = [hd EXCEPT ![h] = e]
    BY <1>0
  <2> HIDE DEF hd, fd, nx, pv
  <2>1. LET k == DLL(hd, nx, pv)
        IN  k.head = hd /\ k.next = nx /\ k.prev = pv
    BY DEF DLL
  <2> DEFINE k == DLL(hd, nx, pv)
  <2>2. k = DLL(k.head, k.next, k.prev)
    BY <2>1
  <2>3. List!CDL_PREPEND(l, h, e) = SetH(k, fd)
    BY <1>2, <2>0, <2>1 DEF List!CDL_PREPEND, SetH
  <2> HIDE DEF k
  <2>4. SetH(k, fd) = DLL(fd, k.next, k.prev)
    BY <2>2, DoubleSet
  <2> QED BY <2>1, <2>3, <2>4 DEF k
<1>4. n # 0 => n \in 1 .. n /\ 1 \in 1 .. n
  BY <1>0
<1>5. n + 1 \in 1 .. n + 1 /\ (n + 1 = 1 <=> n = 0) /\ 1 \in 1 .. n + 1
  BY <1>0
<1>6. /\ Pred(t, n + 1, e) = (IF n = 0 THEN e ELSE t[n])
      /\ Succ(t, n + 1, e) = (IF n = 0 THEN e ELSE t[1])
      /\ Pred(t, 1, e) = (IF n = 0 THEN e ELSE t[n])
      /\ Succ(t, 1, e) = (IF n = 0 THEN e ELSE t[1])
  BY <1>0, EndsAre
<1> HIDE DEF n, t
<1>7. nx \in Linkage /\ pv \in Linkage
  BY <1>0, <1>4 DEF Linkage, Nodes
<1>8. ASSUME NEW i \in {1, n + 1}
      PROVE  /\ nx[e] = Succ(t, i, e) /\ nx[Pred(t, i, e)] = e
             /\ Changed(nx, l.next, e, Pred(t, i, e))
             /\ pv[e] = Pred(t, i, e) /\ pv[Succ(t, i, e)] = e
             /\ Changed(pv, l.prev, e, Succ(t, i, e))
  <2>1. Pred(t, i, e) = (IF n = 0 THEN e ELSE t[n]) /\ Succ(t, i, e) = (IF n = 0 THEN e ELSE t[1])
    BY <1>6
  <2> QED BY <1>0, <1>4, <2>1 DEF Linkage, Changed
<1>9. /\ hd = [l.head EXCEPT ![h] = IF n + 1 = 1 THEN e ELSE @]
      /\ fd = [l.head EXCEPT ![h] = IF 1 = 1 THEN e ELSE @]
  BY <1>0, <1>5
<1> HIDE DEF hd, fd, nx, pv
<1>10. CDLIs(DLL(hd, nx, pv), Inserted(ord, h, n + 1, e))
  BY <1>5, <1>7, <1>8, <1>9, CDLInserts DEF n, t
<1>11. CDLIs(DLL(fd, nx, pv), Inserted(ord, h, 1, e))
  BY <1>5, <1>7, <1>8, <1>9, CDLInserts DEF n, t
<1> QED BY <1>2, <1>3, <1>10, <1>11 DEF n, t

LEMMA CDLEntersElem ==
  ASSUME StackAssumption, NEW ord \in Orders, NEW h \in Heads, NEW i \in 1 .. Len(ord[h]),
         NEW e \in Elts, Outside(ord, e), NEW l, CDLIs(l, ord)
  PROVE  /\ CDLIs(List!CDL_PREPEND_ELEM(l, h, ord[h][i], e), Inserted(ord, h, i, e))
         /\ CDLIs(List!CDL_APPEND_ELEM(l, h, ord[h][i], e), Inserted(ord, h, i + 1, e))
<1> DEFINE t == ord[h]
           n == Len(t)
           hd == HeadTo(l.head, h, i, e)
           nx == [l.next EXCEPT ![e] = t[i], ![t[Ahead(t, i)]] = e]
           pv == [l.prev EXCEPT ![e] = t[Ahead(t, i)], ![t[i]] = e]
           mx == [l.next EXCEPT ![e] = t[After(t, i)], ![t[i]] = e]
           qv == [l.prev EXCEPT ![e] = t[i], ![t[After(t, i)]] = e]
<1>0. /\ l = DLL(l.head, l.next, l.prev) /\ l.head \in [Heads -> Nodes] /\ l.next \in Linkage
      /\ l.prev \in Linkage /\ n \in Nat /\ \A j \in 1 .. n : t[j] \in Elts /\ t[j] # e
  BY CDLParts, OrderIs DEF Outside
<1>1. /\ (l.head[h] = t[i] <=> i = 1) /\ l.prev[t[i]] = t[Ahead(t, i)] /\ t[i] # NULL
      /\ l.next[t[i]] = t[After(t, i)]
  BY CDLAt
<1>2. List!CDL_PREPEND_ELEM(l, h, t[i], e) = DLL(hd, nx, pv)
  <2>1. List!CDL_PREPEND_ELEM(l, h, t[i], e) = SetNPH(l, hd, nx, pv)
    BY <1>1 DEF List!CDL_PREPEND_ELEM, SetNPH, HeadTo
  <2> HIDE DEF hd, nx, pv
  <2> QED BY <1>0, <2>1, DoubleSet
<1>3. List!CDL_APPEND_ELEM(l, h, t[i], e) = DLL(l.head, mx, qv)
  <2>1. List!CDL_APPEND_ELEM(l, h, t[i], e) = SetNP(l, mx, qv)
    BY <1>1 DEF List!CDL_APPEND_ELEM, SetNP
  <2> HIDE DEF mx, qv
  <2> QED BY <1>0, <2>1, DoubleSet
<1>4. i \in 1 .. n /\ i \in 1 .. n + 1 /\ i + 1 \in 1 .. n + 1 /\ i + 1 # 1
  BY <1>0
<1> HIDE DEF n, t
<1>5. /\ After(t, i) \in 1 .. n /\ Ahead(t, i) \in 1 .. n
      /\ Pred(t, i, e) = t[Ahead(t, i)] /\ Succ(t, i, e) = t[i]
      /\ Pred(t, i + 1, e) = t[i] /\ Succ(t, i + 1, e) = t[After(t, i)]
  BY <1>0, <1>4, RingIs, Neighbours DEF n
<1>6. /\ nx \in Linkage /\ nx[e] = Succ(t, i, e) /\ nx[Pred(t, i, e)] = e
      /\ Changed(nx, l.next, e, Pred(t, i, e))
  BY <1>0, <1>4, <1>5 DEF Linkage, Nodes, Changed
<1>7. /\ pv \in Linkage /\ pv[e] = Pred(t, i, e) /\ pv[Succ(t, i, e)] = e
      /\ Changed(pv, l.prev, e, Succ(t, i, e))
  BY <1>0, <1>4, <1>5 DEF Linkage, Nodes, Changed
<1>8. /\ mx \in Linkage /\ mx[e] = Succ(t, i + 1, e) /\ mx[Pred(t, i + 1, e)] = e
      /\ Changed(mx, l.next, e, Pred(t, i + 1, e))
  BY <1>0, <1>4, <1>5 DEF Linkage, Nodes, Changed
<1>9. /\ qv \in Linkage /\ qv[e] = Pred(t, i + 1, e) /\ qv[Succ(t, i + 1, e)] = e
      /\ Changed(qv, l.prev, e, Succ(t, i + 1, e))
  BY <1>0, <1>4, <1>5 DEF Linkage, Nodes, Changed
<1>10. /\ hd = [l.head EXCEPT ![h] = IF i = 1 THEN e ELSE @]
       /\ l.head = [l.head EXCEPT ![h] = IF i + 1 = 1 THEN e ELSE @]
  BY <1>0, <1>4 DEF HeadTo
<1> HIDE DEF hd, nx, pv, mx, qv
<1>11. CDLIs(DLL(hd, nx, pv), Inserted(ord, h, i, e))
  BY <1>4, <1>6, <1>7, <1>10, CDLInserts DEF n, t
<1>12. CDLIs(DLL(l.head, mx, qv), Inserted(ord, h, i + 1, e))
  BY <1>4, <1>8, <1>9, <1>10, CDLInserts DEF n, t
<1> QED BY <1>2, <1>3, <1>11, <1>12 DEF t

LEMMA CDLReplaces ==
  ASSUME StackAssumption, NEW ord \in Orders, NEW h \in Heads, NEW i \in 1 .. Len(ord[h]),
         NEW e \in Elts, Outside(ord, e), NEW l, CDLIs(l, ord)
  PROVE  CDLIs(List!CDL_REPLACE_ELEM(l, h, ord[h][i], e), Replaced(ord, h, i, e))
<1> DEFINE t == ord[h]
           n == Len(t)
           hd == HeadTo(l.head, h, i, e)
           nx == IF n = 1 THEN [l.next EXCEPT ![e] = e]
                 ELSE [l.next EXCEPT ![e] = t[After(t, i)], ![t[Ahead(t, i)]] = e]
           pv == IF n = 1 THEN [l.prev EXCEPT ![e] = e]
                 ELSE [l.prev EXCEPT ![e] = t[Ahead(t, i)], ![t[After(t, i)]] = e]
<1>0. /\ l = DLL(l.head, l.next, l.prev) /\ l.head \in [Heads -> Nodes] /\ l.next \in Linkage
      /\ l.prev \in Linkage /\ n \in Nat /\ \A j \in 1 .. n : t[j] \in Elts /\ t[j] # e
      /\ i \in 1 .. n
  BY CDLParts, OrderIs DEF Outside
<1>1. /\ (l.head[h] = t[i] <=> i = 1) /\ l.prev[t[i]] = t[Ahead(t, i)]
      /\ l.next[t[i]] = t[After(t, i)] /\ (l.next[t[i]] = t[i] <=> n = 1)
  BY CDLAt
<1>2. n = 1 => i = 1
  BY <1>0
<1> HIDE DEF n, t
<1>3. List!CDL_REPLACE_ELEM(l, h, t[i], e) = DLL(hd, nx, pv)
  <2>1. List!CDL_REPLACE_ELEM(l, h, t[i], e) = SetNPH(l, hd, nx, pv)
    <3>1. CASE n = 1
      BY <1>1, <1>2, <3>1 DEF List!CDL_REPLACE_ELEM, SetNPH, HeadTo
    <3>2. CASE n # 1
      BY <1>1, <3>2 DEF List!CDL_REPLACE_ELEM, SetNPH, HeadTo
    <3> QED BY <3>1, <3>2
  <2> HIDE DEF hd, nx, pv
  <2> QED BY <1>0, <2>1, DoubleSet
<1>4. After(t, i) \in 1 .. n /\ Ahead(t, i) \in 1 .. n
  BY <1>0, Neighbours DEF n
<1>5. /\ nx \in Linkage /\ nx[e] = (IF n = 1 THEN e ELSE t[After(t, i)])
      /\ Changed(nx, l.next, e, IF n = 1 THEN e ELSE t[Ahead(t, i)])
      /\ (n # 1 => nx[t[Ahead(t, i)]] = e)
  BY <1>0, <1>4 DEF Linkage, Nodes, Changed
<1>6. /\ pv \in Linkage /\ pv[e] = (IF n = 1 THEN e ELSE t[Ahead(t, i)])
      /\ Changed(pv, l.prev, e, IF n = 1 THEN e ELSE t[After(t, i)])
      /\ (n # 1 => pv[t[After(t, i)]] = e)
  BY <1>0, <1>4 DEF Linkage, Nodes, Changed
<1>7. hd = [l.head EXCEPT ![h] = IF i = 1 THEN e ELSE @]
  BY DEF HeadTo
<1> HIDE DEF hd, nx, pv
<1>8. CDLIs(DLL(hd, nx, pv), Replaced(ord, h, i, e))
  BY <1>5, <1>6, <1>7, CDLReplacing DEF n, t
<1> QED BY <1>3, <1>8 DEF t

LEMMA CDLDeletes ==
  ASSUME StackAssumption, NEW ord \in Orders, NEW h \in Heads, NEW i \in 1 .. Len(ord[h]),
         NEW l, CDLIs(l, ord)
  PROVE  CDLIs(List!CDL_DELETE(l, h, ord[h][i]), Removed(ord, h, i))
<1> DEFINE t == ord[h]
           n == Len(t)
           hd == HeadTo(l.head, h, i, At(t, 2))
           nx == IF n = 1 THEN l.next ELSE [l.next EXCEPT ![t[Ahead(t, i)]] = t[After(t, i)]]
           pv == IF n = 1 THEN l.prev ELSE [l.prev EXCEPT ![t[After(t, i)]] = t[Ahead(t, i)]]
<1>0. /\ l = DLL(l.head, l.next, l.prev) /\ l.head \in [Heads -> Nodes] /\ l.next \in Linkage
      /\ l.prev \in Linkage /\ n \in Nat /\ i \in 1 .. n /\ \A j \in 1 .. n : t[j] \in Elts
  BY CDLParts, OrderIs
<1>1. /\ (l.head[h] = t[i] <=> i = 1) /\ l.prev[t[i]] = t[Ahead(t, i)]
      /\ l.next[t[i]] = t[After(t, i)] /\ (l.next[t[i]] = t[i] <=> n = 1)
  BY CDLAt
<1>2. n = 1 => i = 1 /\ At(t, 2) = NULL
  BY <1>0 DEF At
<1>3. n # 1 /\ i = 1 => t[After(t, i)] = At(t, 2)
  <2>1. After(t, i) = (IF i = n THEN 1 ELSE i + 1) /\ At(t, 2) = (IF 2 <= n THEN t[2] ELSE NULL)
    BY DEF At, After
  <2> HIDE DEF n, t
  <2>2. n # 1 /\ i = 1 => 2 <= n /\ i # n /\ i + 1 = 2
    BY <1>0
  <2> QED BY <2>1, <2>2
<1> HIDE DEF n, t
<1>4. List!CDL_DELETE(l, h, t[i]) = DLL(hd, nx, pv)
  <2>1. CASE n = 1
    <3>1. List!CDL_DELETE(l, h, t[i]) = SetH(l, hd) /\ nx = l.next /\ pv = l.prev
      BY <1>1, <1>2, <2>1 DEF List!CDL_DELETE, SetH, HeadTo
    <3> HIDE DEF hd, nx, pv
    <3> QED BY <1>0, <3>1, DoubleSet
  <2>2. CASE n # 1
    <3>1. List!CDL_DELETE(l, h, t[i]) = SetPNH(l, hd, nx, pv)
      <4>1. List!CDL_DELETE(l, h, t[i])
              = [l EXCEPT !.prev[l.next[t[i]]] = l.prev[t[i]],
                          !.next[l.prev[t[i]]] = l.next[t[i]],
                          !.head[h] = IF @ = t[i] THEN l.next[t[i]] ELSE @]
        BY <1>1, <2>2 DEF List!CDL_DELETE
      <4>2. /\ pv = [l.prev EXCEPT ![l.next[t[i]]] = l.prev[t[i]]]
            /\ nx = [l.next EXCEPT ![l.prev[t[i]]] = l.next[t[i]]]
        BY <1>1, <2>2
      <4>3. hd = [l.head EXCEPT ![h] = IF @ = t[i] THEN l.next[t[i]] ELSE @]
        BY <1>1, <1>3, <2>2 DEF HeadTo
      <4> HIDE DEF hd, nx, pv
      <4> QED BY <4>1, <4>2, <4>3 DEF SetPNH
    <3> HIDE DEF hd, nx, pv
    <3> QED BY <1>0, <3>1, DoubleSet
  <2> QED BY <2>1, <2>2
<1>5. After(t, i) \in 1 .. n /\ Ahead(t, i) \in 1 .. n
  <2>1. Len(t) \in Nat /\ i \in 1 .. Len(t)
    BY <1>0 DEF n
  <2> QED BY <2>1, Neighbours DEF n
<1>6. /\ nx \in Linkage /\ Changed(nx, l.next, t[i], t[Ahead(t, i)])
      /\ (n # 1 => nx[t[Ahead(t, i)]] = t[After(t, i)])
  BY <1>0, <1>5 DEF Linkage, Nodes, Changed
<1>7. /\ pv \in Linkage /\ Changed(pv, l.prev, t[i], t[After(t, i)])
      /\ (n # 1 => pv[t[After(t, i)]] = t[Ahead(t, i)])
  BY <1>0, <1>5 DEF Linkage, Nodes, Changed
<1>8. hd = [l.head EXCEPT ![h] = IF i = 1 THEN At(t, 2) ELSE @]
  BY DEF HeadTo
<1> HIDE DEF hd, nx, pv
<1>9. CDLIs(DLL(hd, nx, pv), Removed(ord, h, i))
  BY <1>6, <1>7, <1>8, CDLRemoving DEF n, t
<1> QED BY <1>4, <1>9 DEF t

-----------------------------------------------------------------------------
(* The circular list that moves, element by element *)

LEMMA ShiftIs ==
  ASSUME NEW t \in Seq(Elts), NEW u \in Seq(Elts), NEW k \in 1 .. Len(u)
  PROVE  LET v == SubSeq(u, k, Len(u))
             p == t \o SubSeq(u, 1, k - 1)
         IN  /\ v \in Seq(Elts) /\ 1 \in 1 .. Len(v) /\ v[1] = u[k]
             /\ List!Order!RemoveAt(v, 1) = SubSeq(u, k + 1, Len(u))
             /\ p \in Seq(Elts)
             /\ List!Order!Enter(p, Len(p) + 1, u[k]) = t \o SubSeq(u, 1, k)
<1> DEFINE n == Len(t)
           m == Len(u)
           v == SubSeq(u, k, m)
           r == SubSeq(u, k + 1, m)
           c == SubSeq(u, 1, k - 1)
           d == SubSeq(u, 1, k)
           p == t \o c
           q == t \o d
           x == List!Order!RemoveAt(v, 1)
           y == List!Order!Enter(p, Len(p) + 1, u[k])
<1>0. n \in Nat /\ m \in Nat /\ k \in 1 .. m /\ u[k] \in Elts
  BY LenProperties, ElementOfSeq
<1>1. /\ v \in Seq(Elts) /\ Len(v) = m - k + 1 /\ \A j \in 1 .. m - k + 1 : v[j] = u[k + j - 1]
      /\ r \in Seq(Elts) /\ Len(r) = m - k /\ \A j \in 1 .. m - k : r[j] = u[k + j]
  <2>1. /\ v \in Seq(Elts) /\ Len(v) = m - k + 1 /\ \A j \in 1 .. m - k + 1 : v[j] = u[k + j - 1]
    BY <1>0
  <2>2. /\ r \in Seq(Elts) /\ Len(r) = m - k /\ \A j \in 1 .. m - k : r[j] = u[k + j]
    BY <1>0
  <2> QED BY <2>1, <2>2
<1>2. /\ c \in Seq(Elts) /\ Len(c) = k - 1 /\ \A j \in 1 .. k - 1 : c[j] = u[j]
      /\ d \in Seq(Elts) /\ Len(d) = k /\ \A j \in 1 .. k : d[j] = u[j]
  <2>1. c \in Seq(Elts) /\ Len(c) = k - 1 /\ \A j \in 1 .. k - 1 : c[j] = u[j]
    BY <1>0
  <2>2. d \in Seq(Elts) /\ Len(d) = k /\ \A j \in 1 .. k : d[j] = u[j]
    BY <1>0
  <2> QED BY <2>1, <2>2
<1> HIDE DEF v, r, c, d
<1>3. /\ p \in Seq(Elts) /\ Len(p) = n + k - 1
      /\ \A j \in 1 .. n + k - 1 : p[j] = IF j <= n THEN t[j] ELSE u[j - n]
  <2>1. p \in Seq(Elts) /\ Len(p) = n + Len(c)
        /\ \A j \in 1 .. n + Len(c) : p[j] = IF j <= n THEN t[j] ELSE c[j - n]
    BY <1>0, <1>2, ConcatProperties
  <2> HIDE DEF p, n, m
  <2> QED BY <1>0, <1>2, <2>1
<1>4. /\ q \in Seq(Elts) /\ Len(q) = n + k
      /\ \A j \in 1 .. n + k : q[j] = IF j <= n THEN t[j] ELSE u[j - n]
  <2>1. q \in Seq(Elts) /\ Len(q) = n + Len(d)
        /\ \A j \in 1 .. n + Len(d) : q[j] = IF j <= n THEN t[j] ELSE d[j - n]
    BY <1>0, <1>2, ConcatProperties
  <2> HIDE DEF q, n, m
  <2>2. \A j \in 1 .. n + k : ~ (j <= n) => j - n \in 1 .. k
    BY <1>0
  <2> QED BY <1>2, <2>1, <2>2
<1> HIDE DEF n, m, p, q
<1>5. 1 \in 1 .. Len(v) /\ v[1] = u[k]
  <2>1. 1 \in 1 .. m - k + 1 /\ k + 1 - 1 = k
    BY <1>0
  <2> QED BY <1>1, <2>1
<1>6. x = r
  <2>1. /\ x \in Seq(Elts) /\ Len(x) = Len(v) - 1
        /\ \A j \in 1 .. Len(v) - 1 : x[j] = IF j < 1 THEN v[j] ELSE v[j + 1]
    BY <1>1, <1>5, RemovedIs
  <2> HIDE DEF x
  <2>2. Len(x) = Len(r)
    BY <1>0, <1>1, <2>1
  <2>3. \A j \in 1 .. Len(x) : x[j] = r[j]
    BY <1>0, <1>1, <2>1
  <2> QED BY <1>1, <2>1, <2>2, <2>3, SeqEqual
<1>7. y = q
  <2>1. /\ y \in Seq(Elts) /\ Len(y) = Len(p) + 1
        /\ \A j \in 1 .. Len(p) + 1 :
             y[j] = IF j < Len(p) + 1 THEN p[j] ELSE IF j = Len(p) + 1 THEN u[k] ELSE p[j - 1]
    <3>1. Len(p) + 1 \in 1 .. Len(p) + 1
      BY <1>0, <1>3
    <3>2. p \in Seq(Elts) /\ u[k] \in Elts
      BY <1>0, <1>3
    <3>3. IsEntered(p, Len(p) + 1, u[k], y)
      BY <3>1, <3>2, EnteredNamed
    <3> HIDE DEF y
    <3> QED BY <3>3 DEF IsEntered
  <2> HIDE DEF y
  <2>2. Len(y) = Len(q)
    BY <1>0, <1>3, <1>4, <2>1
  <2>3. ASSUME NEW j \in 1 .. n + k PROVE y[j] = q[j]
    <3>1. j \in 1 .. Len(p) + 1 /\ Len(p) + 1 = n + k
      BY <1>0, <1>3
    <3>2. CASE j = n + k
      BY <1>0, <1>4, <2>1, <3>1, <3>2
    <3>3. CASE j # n + k
      <4>1. j \in 1 .. n + k - 1 /\ j < n + k
        BY <1>0, <3>3
      <4> QED BY <1>3, <1>4, <2>1, <3>1, <4>1
    <3> QED BY <3>2, <3>3
  <2> QED BY <1>4, <2>1, <2>2, <2>3, SeqEqual
<1> QED BY <1>1, <1>3, <1>5, <1>6, <1>7 DEF v, r, c, d, p, q, m

\* The first k elements of g have moved to the end of h.
Shifted(ord, h, g, k) ==
  [ord EXCEPT ![h] = ord[h] \o SubSeq(ord[g], 1, k), ![g] = SubSeq(ord[g], k + 1, Len(ord[g]))]

LEMMA ShiftedEnds ==
  ASSUME NEW ord \in Orders, NEW h \in Heads, NEW g \in Heads, h # g
  PROVE  Shifted(ord, h, g, 0) = ord /\ Shifted(ord, h, g, Len(ord[g])) = Joined(ord, h, g)
<1> DEFINE t == ord[h]
           u == ord[g]
           m == Len(u)
<1>0. ord \in [Heads -> Seq(Elts)] /\ t \in Seq(Elts) /\ u \in Seq(Elts) /\ m \in Nat
  BY OrderIs DEF Orders
<1>1. SubSeq(u, 1, 0) = <<>> /\ SubSeq(u, m + 1, m) = <<>>
  BY <1>0, SubSeqEmpty
<1>2. SubSeq(u, 1, m) = u /\ t \o <<>> = t /\ SubSeq(u, 0 + 1, m) = u
  <2>1. SubSeq(u, 1, m) = u
    BY <1>0, SubSeqFull
  <2>2. t \o <<>> = t
    BY <1>0, ConcatEmptySeq
  <2> QED BY <2>1, <2>2
<1>3. Shifted(ord, h, g, 0) = ord
  <2>1. Shifted(ord, h, g, 0) = [ord EXCEPT ![h] = t, ![g] = u]
    BY <1>1, <1>2 DEF Shifted
  <2> QED BY <1>0, <2>1
<1>4. Shifted(ord, h, g, m) = Joined(ord, h, g)
  BY <1>1, <1>2 DEF Shifted, Joined
<1> QED BY <1>3, <1>4

LEMMA ShiftedNext ==
  ASSUME NEW ord \in Orders, NEW h \in Heads, NEW g \in Heads, h # g,
         NEW k \in 1 .. Len(ord[g])
  PROVE  LET b == Shifted(ord, h, g, k - 1)
             x == Removed(b, g, 1)
         IN  /\ 1 \in 1 .. Len(b[g]) /\ b[g][1] = ord[g][k]
             /\ Shifted(ord, h, g, k) = Inserted(x, h, Len(x[h]) + 1, ord[g][k])
<1> DEFINE t == ord[h]
           u == ord[g]
           m == Len(u)
           b == Shifted(ord, h, g, k - 1)
           x == Removed(b, g, 1)
           v == SubSeq(u, k, m)
           p == t \o SubSeq(u, 1, k - 1)
           r == SubSeq(u, k + 1, m)
           q == t \o SubSeq(u, 1, k)
<1>0. ord \in [Heads -> Seq(Elts)] /\ t \in Seq(Elts) /\ u \in Seq(Elts) /\ m \in Nat /\ k \in 1 .. m
  BY OrderIs DEF Orders
<1>1. /\ 1 \in 1 .. Len(v) /\ v[1] = u[k]
      /\ List!Order!RemoveAt(v, 1) = r
      /\ List!Order!Enter(p, Len(p) + 1, u[k]) = q
  BY <1>0, ShiftIs
<1>2. b = [ord EXCEPT ![h] = p, ![g] = v]
  <2>1. k - 1 + 1 = k
    BY <1>0
  <2> QED BY <2>1 DEF Shifted
<1>3. Shifted(ord, h, g, k) = [ord EXCEPT ![h] = q, ![g] = r]
  BY DEF Shifted
<1> HIDE DEF t, u, m, b, v, p, r, q
<1>4. b[g] = v /\ b[h] = p /\ DOMAIN b = Heads
  BY <1>0, <1>2
<1>5. x = [b EXCEPT ![g] = r]
  BY <1>1, <1>4 DEF Removed
<1>6. x[h] = p
  BY <1>4, <1>5
<1>7. Inserted(x, h, Len(x[h]) + 1, u[k]) = [x EXCEPT ![h] = q]
  BY <1>1, <1>6 DEF Inserted
<1>8. [[[ord EXCEPT ![h] = p, ![g] = v] EXCEPT ![g] = r] EXCEPT ![h] = q]
        = [ord EXCEPT ![h] = q, ![g] = r]
  BY <1>0
<1>9. [x EXCEPT ![h] = q] = Shifted(ord, h, g, k)
  BY <1>2, <1>3, <1>5, <1>8
<1> QED BY <1>1, <1>4, <1>7, <1>9 DEF u, b

LEMMA CDLMoves ==
  ASSUME StackAssumption, NEW ord \in Orders, NEW h \in Heads, NEW g \in Heads, h # g,
         NEW l, CDLIs(l, ord)
  PROVE  CDLIs(List!Moved(l, h, g), Joined(ord, h, g))
<1> DEFINE u == ord[g]
           m == Len(u)
           Turn(b, k) == List!CDL_APPEND(List!CDL_DELETE(b, g, u[k]), h, u[k])
           Body(f, n) == [k \in 0 .. n |-> IF k = 0 THEN l ELSE Turn(f[k - 1], k)]
           f0 == CHOOSE f : f = Body(f, m)
           Is(b, k) == CDLIs(b, Shifted(ord, h, g, k)) /\ Shifted(ord, h, g, k) \in Orders
<1>0. m \in Nat /\ u \in Seq(Elts) /\ \A j \in 1 .. m : u[j] \in Elts
  BY OrderIs
<1>1. List!CDL_FOREACH(l, g) = u
  BY WalksAre
<1>2. List!Moved(l, h, g) = f0[m]
  BY <1>1 DEF List!Moved
<1> HIDE DEF u, m
<1>3. \A n \in Nat : \E f : f = Body(f, n)
  <2> DEFINE Q == { n \in Nat : \E f : f = Body(f, n) }
  <2>1. 0 \in Q
    <3>1. [k \in 0 .. 0 |-> l] = Body([k \in 0 .. 0 |-> l], 0)
      OBVIOUS
    <3> QED BY <3>1
  <2>2. ASSUME NEW n \in Nat, n \in Q PROVE n + 1 \in Q
    <3>1. PICK f : f = Body(f, n)
      BY <2>2
    <3> DEFINE e == [k \in 0 .. n + 1 |-> IF k = n + 1 THEN Turn(f[n], n + 1) ELSE f[k]]
    <3>2. \A k \in 0 .. n : f[k] = IF k = 0 THEN l ELSE Turn(f[k - 1], k)
      BY <3>1
    <3> HIDE DEF Turn
    <3>3. ASSUME NEW k \in 0 .. n + 1
          PROVE  e[k] = IF k = 0 THEN l ELSE Turn(e[k - 1], k)
      <4>1. CASE k = n + 1
        <5>1. k - 1 = n /\ n \in 0 .. n + 1 /\ n # n + 1 /\ k # 0
          BY <4>1
        <5> QED BY <4>1, <5>1
      <4>2. CASE k # n + 1
        <5>1. k \in 0 .. n /\ (k # 0 => k - 1 \in 0 .. n + 1 /\ k - 1 # n + 1)
          BY <4>2
        <5> QED BY <3>2, <4>2, <5>1
      <4> QED BY <4>1, <4>2
    <3>4. e = Body(e, n + 1)
      BY <3>3
    <3> HIDE DEF e
    <3> QED BY <3>4
  <2> HIDE DEF Q
  <2>3. \A n \in Nat : n \in Q
    BY <2>1, <2>2, Induction
  <2> QED BY <2>3 DEF Q
<1>4. f0 = Body(f0, m)
  <2> HIDE DEF Body
  <2> QED BY <1>0, <1>3
<1> HIDE DEF f0
<1>5. f0[0] = l /\ \A k \in 1 .. m : f0[k] = Turn(f0[k - 1], k)
  <2>1. \A k \in 0 .. m : f0[k] = IF k = 0 THEN l ELSE Turn(f0[k - 1], k)
    BY <1>4
  <2> HIDE DEF Turn, Body
  <2> QED BY <1>0, <2>1
<1>6. ASSUME NEW k \in 1 .. m, NEW b, Is(b, k - 1)
      PROVE  Is(Turn(b, k), k)
  <2> DEFINE c == Shifted(ord, h, g, k - 1)
             x == Removed(c, g, 1)
             r == List!CDL_DELETE(b, g, u[k])
  <2>1. /\ 1 \in 1 .. Len(c[g]) /\ c[g][1] = u[k]
        /\ Shifted(ord, h, g, k) = Inserted(x, h, Len(x[h]) + 1, u[k])
    BY ShiftedNext DEF u, m
  <2>2. CDLIs(b, c) /\ c \in Orders
    BY <1>6
  <2> HIDE DEF c
  <2>3. CDLIs(r, x)
    BY <2>1, <2>2, CDLDeletes
  <2>4. x \in Orders /\ Outside(x, u[k])
    BY <2>1, <2>2, RemovedOrder
  <2> HIDE DEF x, r
  <2>5. u[k] \in Elts
    BY <1>0
  <2>6. CDLIs(List!CDL_APPEND(r, h, u[k]), Inserted(x, h, Len(x[h]) + 1, u[k]))
    BY <2>3, <2>4, <2>5, CDLEnters
  <2>7. Inserted(x, h, Len(x[h]) + 1, u[k]) \in Orders
    <3>1. Len(x[h]) + 1 \in 1 .. Len(x[h]) + 1
      BY <2>4, OrderIs
    <3> QED BY <2>4, <2>5, <3>1, InsertedOrder
  <2> QED BY <2>1, <2>6, <2>7 DEF r
<1>7. Is(l, 0) /\ Shifted(ord, h, g, m) = Joined(ord, h, g)
  BY ShiftedEnds DEF u, m
<1> HIDE DEF Is, Turn
<1>8. \A k \in Nat : k <= m => Is(f0[k], k)
  <2> DEFINE Q == { k \in Nat : k <= m => Is(f0[k], k) }
  <2>1. 0 \in Q
    BY <1>5, <1>7
  <2>2. ASSUME NEW k \in Nat, k \in Q PROVE k + 1 \in Q
    <3> SUFFICES ASSUME k + 1 <= m PROVE Is(f0[k + 1], k + 1)
      OBVIOUS
    <3>1. k + 1 \in 1 .. m /\ k + 1 - 1 = k /\ k <= m
      BY <1>0
    <3>2. Is(f0[k + 1 - 1], k + 1 - 1)
      BY <2>2, <3>1
    <3>3. Is(Turn(f0[k + 1 - 1], k + 1), k + 1)
      BY <1>6, <3>1, <3>2
    <3> QED BY <1>5, <3>1, <3>3
  <2> HIDE DEF Q
  <2>3. \A k \in Nat : k \in Q
    BY <2>1, <2>2, Induction
  <2> QED BY <2>3 DEF Q
<1>9. Is(f0[m], m)
  BY <1>0, <1>8
<1> QED BY <1>2, <1>7, <1>9 DEF Is

-----------------------------------------------------------------------------
(* In order, and next to NULL *)

LEMMA LastLessIs ==
  ASSUME NEW t \in Seq(Elts), NEW e
  PROVE  \E i \in 0 .. Len(t) : List!LastLess(t, e) = IF i = 0 THEN NULL ELSE t[i]
<1> DEFINE less == { i \in DOMAIN t : \A j \in 1 .. i : RankOf[t[j]] < RankOf[e] }
           most == CHOOSE i \in less : \A j \in less : j <= i
<1>0. Len(t) \in Nat /\ DOMAIN t = 1 .. Len(t)
  BY LenProperties
<1>1. List!LastLess(t, e) = IF less = {} THEN NULL ELSE t[most]
  BY DEF List!LastLess
<1>2. less \subseteq 1 .. Len(t)
  BY <1>0
<1> HIDE DEF less
<1>3. CASE less = {}
  <2>1. 0 \in 0 .. Len(t)
    BY <1>0
  <2> QED BY <1>1, <1>3, <2>1
<1>4. CASE less # {}
  <2> DEFINE down == { Len(t) - j : j \in less }
  <2>1. down \in SUBSET Nat /\ down # {}
    <3>1. \A j \in less : Len(t) - j \in Nat
      BY <1>0, <1>2
    <3>2. PICK j \in less : TRUE
      BY <1>4
    <3>3. Len(t) - j \in down
      BY <3>2
    <3> QED BY <3>1, <3>3
  <2> HIDE DEF down
  <2>2. PICK m \in down : \A k \in down : m <= k
    BY <2>1, LeastNatural
  <2> USE DEF down
  <2>3. PICK i \in less : m = Len(t) - i
    BY <2>2
  <2>4. \A j \in less : Len(t) - i <= Len(t) - j
    BY <2>2, <2>3
  <2>5. \A j \in less : j <= i
    BY <1>0, <1>2, <2>4
  <2> HIDE DEF down
  <2>6. most \in less
    BY <2>5
  <2> HIDE DEF most
  <2>7. most \in 0 .. Len(t) /\ most # 0
    BY <1>0, <1>2, <2>6
  <2> QED BY <1>1, <1>4, <2>7
<1> QED BY <1>3, <1>4

LEMMA FirstsAre ==
  ASSUME StackAssumption, NEW ord \in Orders, NEW h \in Heads, NEW l
  PROVE  /\ LLIs(l, ord) => (l.head[h] = NULL <=> Len(ord[h]) = 0)
         /\ DLIs(l, ord) => (l.head[h] = NULL <=> Len(ord[h]) = 0)
         /\ CDLIs(l, ord) => (l.head[h] = NULL <=> Len(ord[h]) = 0)
<1>1. LLIs(l, ord) \/ DLIs(l, ord) \/ CDLIs(l, ord) => l.head[h] = At(ord[h], 1)
  BY LLParts, DLParts, CDLParts
<1>2. At(ord[h], 1) = NULL <=> Len(ord[h]) = 0
  <2>1. At(ord[h], 1) = IF 1 <= Len(ord[h]) THEN ord[h][1] ELSE NULL
    BY DEF At
  <2>2. Len(ord[h]) \in Nat /\ \A j \in 1 .. Len(ord[h]) : ord[h][j] \in Elts
    BY OrderIs
  <2>3. 1 <= Len(ord[h]) => 1 \in 1 .. Len(ord[h])
    BY <2>2
  <2> QED BY <2>1, <2>2, <2>3 DEF StackAssumption
<1> QED BY <1>1, <1>2

LEMMA InsertsInorder ==
  ASSUME StackAssumption, NEW ord \in Orders, NEW h \in Heads, NEW e \in Elts, Outside(ord, e),
         NEW l, LLIs(l, ord), NEW d, DLIs(d, ord), NEW c, CDLIs(c, ord)
  PROVE  \E i \in 1 .. Len(ord[h]) + 1 :
           /\ LLIs(List!LL_INSERT_INORDER(l, h, e), Inserted(ord, h, i, e))
           /\ DLIs(List!DL_INSERT_INORDER(d, h, e), Inserted(ord, h, i, e))
           /\ CDLIs(List!CDL_INSERT_INORDER(c, h, e), Inserted(ord, h, i, e))
<1> DEFINE t == ord[h]
           n == Len(t)
<1>0. n \in Nat /\ t \in Seq(Elts) /\ \A j \in 1 .. n : t[j] \in Elts
  BY OrderIs
<1>1. (l.head[h] = NULL <=> n = 0) /\ (d.head[h] = NULL <=> n = 0) /\ (c.head[h] = NULL <=> n = 0)
  BY FirstsAre
<1>2. /\ List!LL_FOREACH(l, h) = t /\ List!DL_FOREACH(d, h) = t /\ List!CDL_FOREACH(c, h) = t
  BY WalksAre
<1>3. CASE n = 0
  <2>1. List!LL_INSERT_INORDER(l, h, e) = List!LL_APPEND(l, h, e)
    <3>1. List!LL_INSERT_INORDER(l, h, e) = [l EXCEPT !.head[h] = e, !.next[e] = NULL]
      BY <1>1, <1>3 DEF List!LL_INSERT_INORDER
    <3>2. List!LL_APPEND(l, h, e) = [l EXCEPT !.next[e] = NULL, !.head[h] = e]
      BY <1>1, <1>3 DEF List!LL_APPEND
    <3>3. l = [head |-> l.head, next |-> l.next]
      BY LLParts
    <3> QED BY <3>1, <3>2, <3>3
  <2>2. List!DL_INSERT_INORDER(d, h, e) = List!DL_APPEND(d, h, e)
    BY <1>1, <1>3 DEF List!DL_INSERT_INORDER, List!DL_APPEND
  <2>3. List!CDL_INSERT_INORDER(c, h, e) = List!CDL_APPEND(c, h, e)
    BY <1>1, <1>3 DEF List!CDL_INSERT_INORDER, List!CDL_APPEND
  <2>4. n + 1 \in 1 .. n + 1
    BY <1>0
  <2>5. LLIs(List!LL_APPEND(l, h, e), Inserted(ord, h, n + 1, e))
    BY LLAppends
  <2>6. DLIs(List!DL_APPEND(d, h, e), Inserted(ord, h, n + 1, e))
    BY DLAppends
  <2>7. CDLIs(List!CDL_APPEND(c, h, e), Inserted(ord, h, n + 1, e))
    BY CDLEnters
  <2> HIDE DEF n
  <2> QED BY <2>1, <2>2, <2>3, <2>4, <2>5, <2>6, <2>7 DEF n
<1>4. CASE n # 0
  <2> DEFINE at == List!LastLess(t, e)
  <2>1. PICK i \in 0 .. n : at = IF i = 0 THEN NULL ELSE t[i]
    BY <1>0, LastLessIs
  <2>2. /\ List!LL_INSERT_INORDER(l, h, e) = List!LL_APPEND_ELEM(l, h, at, e)
        /\ List!DL_INSERT_INORDER(d, h, e) = List!DL_APPEND_ELEM(d, h, at, e)
        /\ List!CDL_INSERT_INORDER(c, h, e) = List!CDL_APPEND_ELEM(c, h, at, e)
    BY <1>1, <1>2, <1>4 DEF List!LL_INSERT_INORDER, List!DL_INSERT_INORDER, List!CDL_INSERT_INORDER,
       List!LL_LOWER_BOUND, List!DL_LOWER_BOUND, List!CDL_LOWER_BOUND
  <2> HIDE DEF at
  <2>3. i + 1 \in 1 .. n + 1
    BY <1>0, <2>1
  <2>4. CASE i = 0
    <3>1. /\ List!LL_APPEND_ELEM(l, h, at, e) = List!LL_PREPEND(l, h, e)
          /\ List!DL_APPEND_ELEM(d, h, at, e) = List!DL_PREPEND(d, h, e)
          /\ List!CDL_APPEND_ELEM(c, h, at, e) = List!CDL_PREPEND(c, h, e)
      BY <2>1, <2>4 DEF List!LL_APPEND_ELEM, List!DL_APPEND_ELEM, List!CDL_APPEND_ELEM
    <3>2. LLIs(List!LL_PREPEND(l, h, e), Inserted(ord, h, 1, e))
      BY LLPrepends
    <3>3. DLIs(List!DL_PREPEND(d, h, e), Inserted(ord, h, 1, e))
      BY DLPrepends
    <3>4. CDLIs(List!CDL_PREPEND(c, h, e), Inserted(ord, h, 1, e))
      BY CDLEnters
    <3>5. 1 \in 1 .. n + 1
      BY <1>0
    <3> HIDE DEF n
    <3> QED BY <2>2, <3>1, <3>2, <3>3, <3>4, <3>5 DEF n
  <2>5. CASE i # 0
    <3>1. i \in 1 .. n /\ at = t[i]
      BY <2>1, <2>5
    <3>2. LLIs(List!LL_APPEND_ELEM(l, h, t[i], e), Inserted(ord, h, i + 1, e))
      BY <3>1, LLAppendsElem
    <3>3. DLIs(List!DL_APPEND_ELEM(d, h, t[i], e), Inserted(ord, h, i + 1, e))
      BY <3>1, DLAppendsElem
    <3>4. CDLIs(List!CDL_APPEND_ELEM(c, h, t[i], e), Inserted(ord, h, i + 1, e))
      BY <3>1, CDLEntersElem
    <3> HIDE DEF n, t
    <3> QED BY <2>2, <2>3, <3>1, <3>2, <3>3, <3>4 DEF n, t
  <2> QED BY <2>4, <2>5
<1> QED BY <1>3, <1>4

=============================================================================
