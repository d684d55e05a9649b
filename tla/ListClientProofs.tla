--------------------------- MODULE ListClientProofs ---------------------------
(***************************************************************************)
(* The sort of utlist.h, and the client of the lists: after every step of  *)
(* it the three kinds follow one order, whatever the constants, and every  *)
(* walk over a list meets all of it.                                       *)
(***************************************************************************)
EXTENDS ListProofs

-----------------------------------------------------------------------------
(* Sorting: the links of what the sort puts in order *)

Permutes(v, t) ==
  /\ v \in Seq(Elts) /\ Len(v) = Len(t)
  /\ \A j \in 1 .. Len(t) : \E i \in 1 .. Len(t) : v[j] = t[i]
  /\ \A j, k \in 1 .. Len(t) : v[j] = v[k] => j = k

LEMMA PermutesIs ==
  ASSUME NEW ord \in Orders, NEW h \in Heads, NEW v, Permutes(v, ord[h])
  PROVE  [ord EXCEPT ![h] = v] \in Orders /\ Distinct(v)
<1>0. ord[h] \in Seq(Elts) /\ Len(ord[h]) \in Nat
  BY OrderIs
<1>1. v \in Seq(Elts) /\ Len(v) = Len(ord[h]) /\ \A j, k \in 1 .. Len(v) : v[j] = v[k] => j = k
  BY DEF Permutes
<1>2. \A j \in 1 .. Len(v) : \/ \E k \in 1 .. Len(ord[h]) : v[j] = ord[h][k]
                             \/ Outside(ord, v[j])
  BY <1>1 DEF Permutes
<1>3. [ord EXCEPT ![h] = v] \in Orders
  BY <1>1, <1>2, OneChanges
<1>4. Distinct(v)
  BY <1>0, <1>1, ElementOfSeq DEF Distinct
<1> QED BY <1>3, <1>4

LEMMA ChainedIs ==
  ASSUME NEW v, Distinct(v), NEW link \in Linkage, NEW end \in Nodes
  PROVE  LET c == List!Chained(link, v, end)
         IN  /\ c \in Linkage
             /\ \A i \in 1 .. Len(v) : c[v[i]] = IF i = Len(v) THEN end ELSE v[i + 1]
             /\ \A y \in Elts : (\A i \in 1 .. Len(v) : y # v[i]) => c[y] = link[y]
<1> DEFINE n == Len(v)
           at(y) == CHOOSE i \in DOMAIN v : v[i] = y
           c == [y \in Elts |-> IF y \notin List!ToSet(v) THEN link[y]
                                ELSE IF at(y) = n THEN end ELSE v[at(y) + 1]]
<1>0. /\ n \in Nat /\ DOMAIN v = 1 .. n /\ \A j \in 1 .. n : v[j] \in Elts
      /\ \A j, k \in 1 .. n : v[j] = v[k] => j = k
  BY LenProperties DEF Distinct
<1>1. List!Chained(link, v, end) = c
  BY DEF List!Chained
<1>2. \A y : y \in List!ToSet(v) <=> \E i \in 1 .. n : v[i] = y
  BY <1>0 DEF List!ToSet
<1> HIDE DEF n
<1>3. \A i \in 1 .. n : at(v[i]) = i
  BY <1>0
<1> HIDE DEF at
<1>4. \A i \in 1 .. n : c[v[i]] = IF i = n THEN end ELSE v[i + 1]
  BY <1>0, <1>2, <1>3
<1>5. \A y \in Elts : (\A i \in 1 .. n : y # v[i]) => c[y] = link[y]
  BY <1>2
<1>6. ASSUME NEW y \in Elts PROVE c[y] \in Nodes
  <2>1. CASE \A i \in 1 .. n : y # v[i]
    BY <1>5, <2>1 DEF Linkage
  <2>2. ASSUME NEW i \in 1 .. n, y = v[i] PROVE c[y] \in Nodes
    <3>1. i # n => i + 1 \in 1 .. n
      BY <1>0
    <3> HIDE DEF c
    <3> QED BY <1>0, <1>4, <2>2, <3>1 DEF Nodes
  <2> QED BY <2>1, <2>2
<1>7. c \in Linkage
  BY <1>6 DEF Linkage
<1> HIDE DEF c
<1> QED BY <1>1, <1>4, <1>5, <1>7 DEF n

LEMMA ReversedIs ==
  ASSUME NEW v, Distinct(v)
  PROVE  LET r == List!Reverse(v)
         IN  Distinct(r) /\ Len(r) = Len(v) /\ \A j \in 1 .. Len(v) : r[j] = v[Len(v) - j + 1]
<1> DEFINE n == Len(v)
           r == List!Reverse(v)
<1>0. /\ n \in Nat /\ v \in Seq(Elts) /\ \A j \in 1 .. n : v[j] \in Elts
      /\ \A j, k \in 1 .. n : v[j] = v[k] => j = k
  BY DEF Distinct
<1>1. r = [i \in 1 .. n |-> v[(n - i) + 1]]
  BY DEF List!Reverse
<1> HIDE DEF n, r
<1>2. \A j \in 1 .. n : n - j + 1 \in 1 .. n
  BY <1>0
<1>3. r \in [1 .. n -> Elts] /\ \A j \in 1 .. n : r[j] = v[n - j + 1]
  BY <1>0, <1>1, <1>2
<1>4. r \in Seq(Elts) /\ Len(r) = n
  BY <1>0, <1>3
<1>5. \A j, k \in 1 .. n : r[j] = r[k] => j = k
  <2> SUFFICES ASSUME NEW j \in 1 .. n, NEW k \in 1 .. n, r[j] = r[k] PROVE j = k
    OBVIOUS
  <2>1. n - j + 1 = n - k + 1
    BY <1>0, <1>2, <1>3
  <2> QED BY <1>0, <2>1
<1> QED BY <1>0, <1>3, <1>4, <1>5 DEF Distinct, n, r

\* The links that the sort makes, of an order that is not empty.
LEMMA ChainsAre ==
  ASSUME NEW ord \in Orders, NEW h \in Heads, NEW v, Permutes(v, ord[h]), Len(ord[h]) # 0,
         NEW link \in Linkage
  PROVE  LET x == List!Chained(link, v, NULL)
             y == List!Chained(link, v, Head(v))
             z == List!Chained(link, List!Reverse(v), List!Last(v))
         IN  /\ x \in Linkage /\ Linked(v, x) /\ Spares(x, link, ord, h)
             /\ y \in Linkage /\ Onward(v, y) /\ Spares(y, link, ord, h)
             /\ z \in Linkage /\ Backward(v, z) /\ Spares(z, link, ord, h)
<1> DEFINE t == ord[h]
           n == Len(v)
           r == List!Reverse(v)
           x == List!Chained(link, v, NULL)
           y == List!Chained(link, v, Head(v))
           z == List!Chained(link, r, List!Last(v))
<1>0. Distinct(v) /\ n = Len(t)
  BY PermutesIs DEF Permutes
<1>1. /\ n \in Nat /\ n # 0 /\ 1 \in 1 .. n /\ n \in 1 .. n /\ v \in Seq(Elts)
      /\ \A j \in 1 .. n : v[j] \in Elts
  BY <1>0 DEF Distinct
<1>2. Head(v) = v[1] /\ List!Last(v) = v[n]
  BY <1>1 DEF List!Last
<1>3. /\ Distinct(r) /\ Len(r) = n
      /\ \A j \in 1 .. n : r[j] = v[n - j + 1]
  BY <1>0, ReversedIs
<1>4. \A j \in 1 .. n : \E k \in 1 .. Len(t) : v[j] = t[k]
  BY <1>0 DEF Permutes
<1>5. /\ NULL \in Nodes /\ v[1] \in Nodes /\ v[n] \in Nodes
  BY <1>1 DEF Nodes
<1>6. /\ x \in Linkage
      /\ \A i \in 1 .. n : x[v[i]] = IF i = n THEN NULL ELSE v[i + 1]
      /\ \A e \in Elts : (\A i \in 1 .. n : e # v[i]) => x[e] = link[e]
  <2>1. /\ x \in Linkage
        /\ \A i \in 1 .. Len(v) : x[v[i]] = IF i = Len(v) THEN NULL ELSE v[i + 1]
        /\ \A e \in Elts : (\A i \in 1 .. Len(v) : e # v[i]) => x[e] = link[e]
    <3>1. NULL \in Nodes
      BY <1>2, <1>5
    <3> HIDE DEF n
    <3> QED BY <1>0, <3>1, ChainedIs
  <2> HIDE DEF x
  <2> QED BY <1>2, <2>1
<1>7. /\ y \in Linkage
      /\ \A i \in 1 .. n : y[v[i]] = IF i = n THEN v[1] ELSE v[i + 1]
      /\ \A e \in Elts : (\A i \in 1 .. n : e # v[i]) => y[e] = link[e]
  <2>1. /\ y \in Linkage
        /\ \A i \in 1 .. Len(v) : y[v[i]] = IF i = Len(v) THEN Head(v) ELSE v[i + 1]
        /\ \A e \in Elts : (\A i \in 1 .. Len(v) : e # v[i]) => y[e] = link[e]
    <3>1. Head(v) \in Nodes
      BY <1>2, <1>5
    <3> HIDE DEF n
    <3> QED BY <1>0, <3>1, ChainedIs
  <2> HIDE DEF y
  <2> QED BY <1>2, <2>1
<1>8. /\ z \in Linkage
      /\ \A i \in 1 .. n : z[r[i]] = IF i = n THEN v[n] ELSE r[i + 1]
      /\ \A e \in Elts : (\A i \in 1 .. n : e # r[i]) => z[e] = link[e]
  <2>1. Distinct(r) /\ List!Last(v) \in Nodes
    BY <1>2, <1>3, <1>5
  <2>2. /\ z \in Linkage
        /\ \A i \in 1 .. Len(r) : z[r[i]] = IF i = Len(r) THEN List!Last(v) ELSE r[i + 1]
        /\ \A e \in Elts : (\A i \in 1 .. Len(r) : e # r[i]) => z[e] = link[e]
    <3> HIDE DEF r, n
    <3> QED BY <2>1, ChainedIs
  <2> HIDE DEF r, n, z
  <2> QED BY <1>2, <1>3, <2>2
<1> HIDE DEF n, r, x, y, z, t
<1>9. Linked(v, x)
  <2>1. \A j \in 1 .. n : At(v, j + 1) = IF j = n THEN NULL ELSE v[j + 1]
    <3>1. \A j \in 1 .. n : At(v, j + 1) = IF j + 1 <= n THEN v[j + 1] ELSE NULL
      BY DEF At, n
    <3>2. \A j \in 1 .. n : (j + 1 <= n <=> j # n)
      BY <1>1
    <3> QED BY <3>1, <3>2
  <2>2. \A j \in 1 .. n : x[v[j]] = At(v, j + 1)
    BY <1>6, <2>1
  <2> QED BY <2>2 DEF Linked, n
<1>10. Onward(v, y)
  <2>1. \A j \in 1 .. n : y[v[j]] = v[IF j = n THEN 1 ELSE j + 1]
    BY <1>7
  <2> QED BY <2>1 DEF Onward, n
<1>11. \A j \in 1 .. n : n - j + 1 \in 1 .. n /\ r[n - j + 1] = v[j]
  <2>1. \A j \in 1 .. n : n - j + 1 \in 1 .. n /\ n - (n - j + 1) + 1 = j
    BY <1>1
  <2> QED BY <1>3, <2>1
<1>12. Backward(v, z)
  <2>1. ASSUME NEW j \in 1 .. n PROVE z[v[j]] = v[IF j = 1 THEN n ELSE j - 1]
    <3>1. CASE j = 1
      <4>1. n - j + 1 = n
        BY <1>1, <3>1
      <4> QED BY <1>8, <1>11, <3>1, <4>1
    <3>2. CASE j # 1
      <4> DEFINE k == n - j + 1
      <4>1. k \in 1 .. n /\ r[k] = v[j] /\ k # n /\ k + 1 \in 1 .. n /\ n - (k + 1) + 1 = j - 1
        BY <1>1, <1>11, <3>2
      <4> HIDE DEF k
      <4>2. z[r[k]] = r[k + 1] /\ r[k + 1] = v[j - 1]
        BY <1>3, <1>8, <4>1
      <4> QED BY <3>2, <4>1, <4>2
    <3> QED BY <3>1, <3>2
  <2> QED BY <2>1 DEF Backward, n
<1>13. Spares(x, link, ord, h) /\ Spares(y, link, ord, h)
  BY <1>4, <1>6, <1>7 DEF Spares, t
<1>14. Spares(z, link, ord, h)
  <2>1. \A e \in Elts : (\A i \in 1 .. n : e # v[i]) => z[e] = link[e]
    <3>1. \A i \in 1 .. n : n - i + 1 \in 1 .. n
      BY <1>1
    <3> QED BY <1>3, <1>8, <3>1
  <2> QED BY <1>4, <2>1 DEF Spares, t
<1> QED BY <1>6, <1>7, <1>8, <1>9, <1>10, <1>12, <1>13, <1>14 DEF x, y, z, r

\* What it puts in order; it leaves an empty list alone.
SortsInto(v, t) == Permutes(v, t) /\ (Len(t) # 0 => List!MergeSort(t) = v)

LEMMA NothingSorted ==
  ASSUME NEW ord \in Orders, NEW h \in Heads, NEW v, Permutes(v, ord[h]), Len(ord[h]) = 0
  PROVE  [ord EXCEPT ![h] = v] = ord
<1>1. ord[h] \in Seq(Elts) /\ ord \in [Heads -> Seq(Elts)]
  BY OrderIs DEF Orders
<1>2. v \in Seq(Elts) /\ Len(v) = 0
  BY DEF Permutes
<1>3. v = ord[h]
  BY <1>1, <1>2, EmptySeq
<1> QED BY <1>1, <1>3

LEMMA LLSorts ==
  ASSUME StackAssumption, NEW ord \in Orders, NEW h \in Heads, NEW l, LLIs(l, ord),
         NEW v, SortsInto(v, ord[h])
  PROVE  LLIs(List!LL_SORT(l, h), [ord EXCEPT ![h] = v])
<1> DEFINE t == ord[h]
           nx == List!Chained(l.next, v, NULL)
           hd == [l.head EXCEPT ![h] = v[1]]
<1>0. /\ l = [head |-> l.head, next |-> l.next] /\ l.head \in [Heads -> Nodes] /\ l.next \in Linkage
      /\ List!LL_FOREACH(l, h) = t /\ (l.head[h] = NULL <=> Len(t) = 0)
      /\ Permutes(v, t) /\ (Len(t) # 0 => List!MergeSort(t) = v)
  BY LLParts, WalksAre, FirstsAre DEF SortsInto
<1>1. CASE Len(t) = 0
  <2>1. List!LL_SORT(l, h) = l
    BY <1>0, <1>1 DEF List!LL_SORT
  <2> QED BY <1>0, <1>1, <2>1, NothingSorted
<1>2. CASE Len(t) # 0
  <2>1. v \in Seq(Elts) /\ Len(v) \in Nat /\ Len(v) # 0
    BY <1>0, <1>2, OrderIs DEF Permutes
  <2>2. Head(v) = v[1] /\ v[1] \in Elts /\ At(v, 1) = v[1]
    BY <2>1 DEF At
  <2>3. List!LL_SORT(l, h) = SLL(hd, nx)
    <3>1. List!LL_SORT(l, h) = [l EXCEPT !.head[h] = v[1], !.next = nx]
      BY <1>0, <1>2, <2>2 DEF List!LL_SORT
    <3> HIDE DEF nx
    <3> QED BY <1>0, <3>1 DEF SLL
  <2>4. nx \in Linkage /\ Linked(v, nx) /\ Spares(nx, l.next, ord, h)
    BY <1>0, <1>2, ChainsAre
  <2>5. hd \in [Heads -> Nodes] /\ hd = [l.head EXCEPT ![h] = At(v, 1)]
    BY <1>0, <2>2 DEF Nodes
  <2> HIDE DEF hd, nx
  <2> DEFINE q == SLL(hd, nx)
  <2>6. q \in Single /\ q.head = hd /\ q.next = nx
    BY <2>4, <2>5, SingleIs DEF SLL
  <2> HIDE DEF q
  <2>7. LLIs(q, [ord EXCEPT ![h] = v])
    BY <2>4, <2>5, <2>6, LLChanges
  <2> QED BY <2>3, <2>7 DEF q
<1> QED BY <1>1, <1>2

LEMMA DLSorts ==
  ASSUME StackAssumption, NEW ord \in Orders, NEW h \in Heads, NEW l, DLIs(l, ord),
         NEW v, SortsInto(v, ord[h])
  PROVE  DLIs(List!DL_SORT(l, h), [ord EXCEPT ![h] = v])
<1> DEFINE t == ord[h]
           nx == List!Chained(l.next, v, NULL)
           pv == List!Chained(l.prev, List!Reverse(v), List!Last(v))
           hd == [l.head EXCEPT ![h] = v[1]]
<1>0. /\ l = DLL(l.head, l.next, l.prev) /\ l.head \in [Heads -> Nodes] /\ l.next \in Linkage
      /\ l.prev \in Linkage
      /\ List!DL_FOREACH(l, h) = t /\ (l.head[h] = NULL <=> Len(t) = 0)
      /\ Permutes(v, t) /\ (Len(t) # 0 => List!MergeSort(t) = v)
  BY DLParts, WalksAre, FirstsAre DEF SortsInto
<1>1. CASE Len(t) = 0
  <2>1. List!DL_SORT(l, h) = l
    BY <1>0, <1>1 DEF List!DL_SORT
  <2> QED BY <1>0, <1>1, <2>1, NothingSorted
<1>2. CASE Len(t) # 0
  <2>1. v \in Seq(Elts) /\ Len(v) \in Nat /\ Len(v) # 0
    BY <1>0, <1>2, OrderIs DEF Permutes
  <2>2. Head(v) = v[1] /\ v[1] \in Elts /\ At(v, 1) = v[1]
    BY <2>1 DEF At
  <2>3. List!DL_SORT(l, h) = DLL(hd, nx, pv)
    <3>1. List!DL_SORT(l, h) = SetHNP(l, hd, nx, pv)
      BY <1>0, <1>2, <2>2 DEF List!DL_SORT, SetHNP
    <3> HIDE DEF nx, pv, hd
    <3> QED BY <1>0, <3>1, DoubleSet
  <2>4. nx \in Linkage /\ Linked(v, nx) /\ Spares(nx, l.next, ord, h)
    BY <1>0, <1>2, ChainsAre
  <2>5. pv \in Linkage /\ Backward(v, pv) /\ Spares(pv, l.prev, ord, h)
    BY <1>0, <1>2, ChainsAre
  <2>6. hd \in [Heads -> Nodes] /\ hd = [l.head EXCEPT ![h] = At(v, 1)]
    BY <1>0, <2>2 DEF Nodes
  <2> HIDE DEF hd, nx, pv
  <2> DEFINE q == DLL(hd, nx, pv)
  <2>7. q \in Double /\ q.head = hd /\ q.next = nx /\ q.prev = pv
    BY <2>4, <2>5, <2>6, DLLIs
  <2> HIDE DEF q
  <2>8. DLIs(q, [ord EXCEPT ![h] = v])
    BY <2>4, <2>5, <2>6, <2>7, DLChanges
  <2> QED BY <2>3, <2>8 DEF q
<1> QED BY <1>1, <1>2

LEMMA CDLSorts ==
  ASSUME StackAssumption, NEW ord \in Orders, NEW h \in Heads, NEW l, CDLIs(l, ord),
         NEW v, SortsInto(v, ord[h])
  PROVE  CDLIs(List!CDL_SORT(l, h), [ord EXCEPT ![h] = v])
<1> DEFINE t == ord[h]
           nx == List!Chained(l.next, v, Head(v))
           pv == List!Chained(l.prev, List!Reverse(v), List!Last(v))
           hd == [l.head EXCEPT ![h] = v[1]]
<1>0. /\ l = DLL(l.head, l.next, l.prev) /\ l.head \in [Heads -> Nodes] /\ l.next \in Linkage
      /\ l.prev \in Linkage
      /\ List!CDL_FOREACH(l, h) = t /\ (l.head[h] = NULL <=> Len(t) = 0)
      /\ Permutes(v, t) /\ (Len(t) # 0 => List!MergeSort(t) = v)
  BY CDLParts, WalksAre, FirstsAre DEF SortsInto
<1>1. CASE Len(t) = 0
  <2>1. List!CDL_SORT(l, h) = l
    BY <1>0, <1>1 DEF List!CDL_SORT
  <2> QED BY <1>0, <1>1, <2>1, NothingSorted
<1>2. CASE Len(t) # 0
  <2>1. v \in Seq(Elts) /\ Len(v) \in Nat /\ Len(v) # 0
    BY <1>0, <1>2, OrderIs DEF Permutes
  <2>2. Head(v) = v[1] /\ v[1] \in Elts /\ At(v, 1) = v[1]
    BY <2>1 DEF At
  <2>3. List!CDL_SORT(l, h) = DLL(hd, nx, pv)
    <3>1. List!CDL_SORT(l, h) = SetHNP(l, hd, nx, pv)
      BY <1>0, <1>2, <2>2 DEF List!CDL_SORT, SetHNP
    <3> HIDE DEF nx, pv, hd
    <3> QED BY <1>0, <3>1, DoubleSet
  <2>4. nx \in Linkage /\ Onward(v, nx) /\ Spares(nx, l.next, ord, h)
    BY <1>0, <1>2, ChainsAre
  <2>5. pv \in Linkage /\ Backward(v, pv) /\ Spares(pv, l.prev, ord, h)
    BY <1>0, <1>2, ChainsAre
  <2>6. hd \in [Heads -> Nodes] /\ hd = [l.head EXCEPT ![h] = At(v, 1)]
    BY <1>0, <2>2 DEF Nodes
  <2> HIDE DEF hd, nx, pv
  <2> DEFINE q == DLL(hd, nx, pv)
  <2>7. q \in Double /\ q.head = hd /\ q.next = nx /\ q.prev = pv
    BY <2>4, <2>5, <2>6, DLLIs
  <2> HIDE DEF q
  <2>8. CDLIs(q, [ord EXCEPT ![h] = v])
    BY <2>4, <2>5, <2>6, <2>7, CDLChanges
  <2> QED BY <2>3, <2>8 DEF q
<1> QED BY <1>1, <1>2

-----------------------------------------------------------------------------
(* Merging *)

\* A sequence that goes up in B.
Transitive(B) == \A x, y, z : <<x, y>> \in B /\ <<y, z>> \in B => <<x, z>> \in B
InOrder(v, B) ==
  v \in Seq(Elts) /\ \A j, k \in 1 .. Len(v) : j < k => <<v[j], v[k]>> \in B

LEMMA SuffixIs ==
  ASSUME NEW B, NEW p, InOrder(p, B), NEW i \in 1 .. Len(p) + 1
  PROVE  LET r == SubSeq(p, i, Len(p))
         IN  /\ InOrder(r, B) /\ Len(r) = Len(p) + 1 - i
             /\ \A k \in 1 .. Len(r) : \E c \in i .. Len(p) : r[k] = p[c]
<1> DEFINE n == Len(p)
           r == SubSeq(p, i, n)
<1>0. n \in Nat /\ p \in Seq(Elts) /\ i \in 1 .. n + 1
  BY LenProperties DEF InOrder
<1>1. r \in Seq(Elts) /\ Len(r) = n + 1 - i /\ \A k \in 1 .. n + 1 - i : r[k] = p[i + k - 1]
  <2>1. \A k \in i .. n : p[k] \in Elts
    BY <1>0, ElementOfSeq
  <2>2. r \in Seq(Elts) /\ Len(r) = (IF i <= n THEN n - i + 1 ELSE 0)
        /\ \A k \in 1 .. n - i + 1 : r[k] = p[i + k - 1]
    BY <1>0, <2>1, SubSeqProperties
  <2> HIDE DEF r, n
  <2> QED BY <1>0, <2>2
<1>2. \A j, k \in 1 .. n : j < k => <<p[j], p[k]>> \in B
  BY DEF InOrder
<1> HIDE DEF n, r
<1>3. \A k \in 1 .. n + 1 - i : i + k - 1 \in i .. n /\ i + k - 1 \in 1 .. n
  BY <1>0
<1>4. \A k \in 1 .. Len(r) : \E c \in i .. n : r[k] = p[c]
  BY <1>1, <1>3
<1>5. ASSUME NEW j \in 1 .. Len(r), NEW k \in 1 .. Len(r), j < k PROVE <<r[j], r[k]>> \in B
  <2>1. i + j - 1 < i + k - 1
    BY <1>0, <1>1, <1>5
  <2> QED BY <1>1, <1>2, <1>3, <2>1
<1> QED BY <1>1, <1>4, <1>5 DEF InOrder, n, r

LEMMA PrefixedIs ==
  ASSUME NEW B, NEW r, InOrder(r, B), NEW x \in Elts, \A k \in 1 .. Len(r) : <<x, r[k]>> \in B
  PROVE  LET y == <<x>> \o r
         IN  /\ InOrder(y, B) /\ Len(y) = Len(r) + 1
             /\ \A k \in 1 .. Len(y) : y[k] = IF k = 1 THEN x ELSE r[k - 1]
<1> DEFINE n == Len(r)
           y == <<x>> \o r
<1>0. n \in Nat /\ r \in Seq(Elts) /\ \A j, k \in 1 .. n : j < k => <<r[j], r[k]>> \in B
  BY LenProperties DEF InOrder
<1>1. y \in Seq(Elts) /\ Len(y) = n + 1 /\ \A k \in 1 .. n + 1 : y[k] = IF k = 1 THEN x ELSE r[k - 1]
  <2>1. <<x>> \in Seq(Elts) /\ Len(<<x>>) = 1 /\ <<x>>[1] = x
    OBVIOUS
  <2>2. y \in Seq(Elts) /\ Len(y) = 1 + n
        /\ \A k \in 1 .. 1 + n : y[k] = IF k <= 1 THEN <<x>>[k] ELSE r[k - 1]
    BY <1>0, <2>1, ConcatProperties
  <2> HIDE DEF y, n
  <2>3. \A k \in 1 .. n + 1 : (k <= 1 <=> k = 1)
    BY <1>0
  <2> QED BY <1>0, <2>1, <2>2, <2>3
<1> HIDE DEF n, y
<1>2. ASSUME NEW j \in 1 .. Len(y), NEW k \in 1 .. Len(y), j < k PROVE <<y[j], y[k]>> \in B
  <2>1. k # 1 /\ k - 1 \in 1 .. n /\ (j # 1 => j - 1 \in 1 .. n /\ j - 1 < k - 1)
    BY <1>0, <1>1, <1>2
  <2>2. \A c \in 1 .. n : <<x, r[c]>> \in B
    BY DEF n
  <2> QED BY <1>0, <1>1, <2>1, <2>2
<1> QED BY <1>1, <1>2 DEF InOrder, n, y

\* What the merge makes of p from i on and of q from j on.
MergedFrom(B, p, q, i, j, r) ==
  /\ InOrder(r, B) /\ Len(r) = (Len(p) + 1 - i) + (Len(q) + 1 - j)
  /\ \A k \in 1 .. Len(r) : \/ \E c \in i .. Len(p) : r[k] = p[c]
                            \/ \E c \in j .. Len(q) : r[k] = q[c]

\* TakeP takes the earlier one.
Mergeable(B, p, q) ==
  /\ InOrder(p, B) /\ InOrder(q, B) /\ Transitive(B)
  /\ \A i \in 1 .. Len(p), j \in 1 .. Len(q) :
       IF List!TakeP(p[i], q[j]) THEN <<p[i], q[j]>> \in B ELSE <<q[j], p[i]>> \in B

LEMMA MergeRest ==
  ASSUME NEW B, NEW p, NEW q, Mergeable(B, p, q),
         NEW i \in 1 .. Len(p) + 1, NEW j \in 1 .. Len(q) + 1, i > Len(p) \/ j > Len(q)
  PROVE  MergedFrom(B, p, q, i, j, SubSeq(p, i, Len(p)) \o SubSeq(q, j, Len(q)))
<1> DEFINE x == SubSeq(p, i, Len(p))
           y == SubSeq(q, j, Len(q))
<1>0. InOrder(p, B) /\ InOrder(q, B) /\ Len(p) \in Nat /\ Len(q) \in Nat
  BY LenProperties DEF Mergeable, InOrder
<1>1. /\ InOrder(x, B) /\ Len(x) = Len(p) + 1 - i
      /\ \A k \in 1 .. Len(x) : \E c \in i .. Len(p) : x[k] = p[c]
  <2>1. InOrder(p, B)
    BY <1>0
  <2> QED BY <2>1, SuffixIs
<1>2. /\ InOrder(y, B) /\ Len(y) = Len(q) + 1 - j
      /\ \A k \in 1 .. Len(y) : \E c \in j .. Len(q) : y[k] = q[c]
  <2>1. InOrder(q, B)
    BY <1>0
  <2> QED BY <2>1, SuffixIs
<1> HIDE DEF x, y
<1>3. x \in Seq(Elts) /\ y \in Seq(Elts)
  BY <1>1, <1>2 DEF InOrder
<1>4. CASE i > Len(p)
  <2>1. Len(x) = 0 /\ i = Len(p) + 1
    BY <1>0, <1>1, <1>4
  <2>2. x \o y = y
    <3>1. x = <<>>
      BY <1>3, <2>1, EmptySeq
    <3> QED BY <1>3, <3>1, ConcatEmptySeq
  <2>3. Len(y) = (Len(p) + 1 - i) + (Len(q) + 1 - j)
    BY <1>0, <1>2, <2>1
  <2>4. MergedFrom(B, p, q, i, j, y)
    BY <1>2, <2>3 DEF MergedFrom
  <2> QED BY <2>2, <2>4 DEF x, y
<1>5. CASE j > Len(q)
  <2>1. Len(y) = 0 /\ j = Len(q) + 1
    BY <1>0, <1>2, <1>5
  <2>2. x \o y = x
    <3>1. y = <<>>
      BY <1>3, <2>1, EmptySeq
    <3> QED BY <1>3, <3>1, ConcatEmptySeq
  <2>3. Len(x) = (Len(p) + 1 - i) + (Len(q) + 1 - j)
    BY <1>0, <1>1, <2>1
  <2>4. MergedFrom(B, p, q, i, j, x)
    BY <1>1, <2>3 DEF MergedFrom
  <2> QED BY <2>2, <2>4 DEF x, y
<1> QED BY <1>4, <1>5

LEMMA MergeTakes ==
  ASSUME NEW B, NEW p, NEW q, Mergeable(B, p, q),
         NEW i \in 1 .. Len(p), NEW j \in 1 .. Len(q), NEW r
  PROVE  /\ List!TakeP(p[i], q[j]) /\ MergedFrom(B, p, q, i + 1, j, r)
              => MergedFrom(B, p, q, i, j, <<p[i]>> \o r)
         /\ ~ List!TakeP(p[i], q[j]) /\ MergedFrom(B, p, q, i, j + 1, r)
              => MergedFrom(B, p, q, i, j, <<q[j]>> \o r)
<1>0. /\ Len(p) \in Nat /\ Len(q) \in Nat /\ p[i] \in Elts /\ q[j] \in Elts
      /\ \A c, d \in 1 .. Len(p) : c < d => <<p[c], p[d]>> \in B
      /\ \A c, d \in 1 .. Len(q) : c < d => <<q[c], q[d]>> \in B
  BY LenProperties, ElementOfSeq DEF Mergeable, InOrder
<1>1. /\ Transitive(B)
      /\ IF List!TakeP(p[i], q[j]) THEN <<p[i], q[j]>> \in B ELSE <<q[j], p[i]>> \in B
  BY DEF Mergeable
<1>2. ASSUME List!TakeP(p[i], q[j]), MergedFrom(B, p, q, i + 1, j, r)
      PROVE  MergedFrom(B, p, q, i, j, <<p[i]>> \o r)
  <2> DEFINE y == <<p[i]>> \o r
  <2>1. /\ InOrder(r, B) /\ Len(r) = (Len(p) + 1 - (i + 1)) + (Len(q) + 1 - j)
        /\ \A k \in 1 .. Len(r) : \/ \E c \in i + 1 .. Len(p) : r[k] = p[c]
                                  \/ \E c \in j .. Len(q) : r[k] = q[c]
    BY <1>2 DEF MergedFrom
  <2>2. \A c \in i + 1 .. Len(p) : c \in 1 .. Len(p) /\ i < c /\ c \in i .. Len(p)
    BY <1>0
  <2>3. \A c \in j .. Len(q) : c \in 1 .. Len(q) /\ (c # j => j < c)
    BY <1>0
  <2>4. \A c \in j .. Len(q) : <<p[i], q[c]>> \in B
    BY <1>0, <1>1, <1>2, <2>3 DEF Transitive
  <2>5. \A k \in 1 .. Len(r) : <<p[i], r[k]>> \in B
    BY <1>0, <2>1, <2>2, <2>4
  <2>6. /\ InOrder(y, B) /\ Len(y) = Len(r) + 1
        /\ \A k \in 1 .. Len(y) : y[k] = IF k = 1 THEN p[i] ELSE r[k - 1]
    <3>1. PICK x \in Elts : x = p[i]
      BY <1>0
    <3>2. InOrder(r, B) /\ \A k \in 1 .. Len(r) : <<x, r[k]>> \in B
      BY <2>1, <2>5, <3>1
    <3> DEFINE z == <<x>> \o r
    <3>3. /\ InOrder(z, B) /\ Len(z) = Len(r) + 1
          /\ \A k \in 1 .. Len(z) : z[k] = IF k = 1 THEN x ELSE r[k - 1]
      BY <3>2, PrefixedIs
    <3> QED BY <3>1, <3>3
  <2>7. Len(r) \in Nat
    BY <2>1, LenProperties DEF InOrder
  <2> HIDE DEF y
  <2>8. Len(y) = (Len(p) + 1 - i) + (Len(q) + 1 - j)
    BY <1>0, <2>1, <2>6
  <2>9. \A k \in 1 .. Len(y) : \/ \E c \in i .. Len(p) : y[k] = p[c]
                               \/ \E c \in j .. Len(q) : y[k] = q[c]
    <3>1. i \in i .. Len(p) /\ \A k \in 1 .. Len(y) : k # 1 => k - 1 \in 1 .. Len(r)
      BY <1>0, <2>6, <2>7
    <3> SUFFICES ASSUME NEW k \in 1 .. Len(y)
                 PROVE  \/ \E c \in i .. Len(p) : y[k] = p[c]
                        \/ \E c \in j .. Len(q) : y[k] = q[c]
      OBVIOUS
    <3>2. CASE k = 1
      BY <2>6, <3>1, <3>2
    <3>3. CASE k # 1
      <4>1. y[k] = r[k - 1] /\ k - 1 \in 1 .. Len(r)
        BY <2>6, <3>1, <3>3
      <4> QED BY <2>1, <2>2, <4>1
    <3> QED BY <3>2, <3>3
  <2> QED BY <2>6, <2>8, <2>9 DEF MergedFrom, y
<1>3. ASSUME ~ List!TakeP(p[i], q[j]), MergedFrom(B, p, q, i, j + 1, r)
      PROVE  MergedFrom(B, p, q, i, j, <<q[j]>> \o r)
  <2> DEFINE y == <<q[j]>> \o r
  <2>1. /\ InOrder(r, B) /\ Len(r) = (Len(p) + 1 - i) + (Len(q) + 1 - (j + 1))
        /\ \A k \in 1 .. Len(r) : \/ \E c \in i .. Len(p) : r[k] = p[c]
                                  \/ \E c \in j + 1 .. Len(q) : r[k] = q[c]
    BY <1>3 DEF MergedFrom
  <2>2. \A c \in j + 1 .. Len(q) : c \in 1 .. Len(q) /\ j < c /\ c \in j .. Len(q)
    BY <1>0
  <2>3. \A c \in i .. Len(p) : c \in 1 .. Len(p) /\ (c # i => i < c)
    BY <1>0
  <2>4. \A c \in i .. Len(p) : <<q[j], p[c]>> \in B
    BY <1>0, <1>1, <1>3, <2>3 DEF Transitive
  <2>5. \A k \in 1 .. Len(r) : <<q[j], r[k]>> \in B
    BY <1>0, <2>1, <2>2, <2>4
  <2>6. /\ InOrder(y, B) /\ Len(y) = Len(r) + 1
        /\ \A k \in 1 .. Len(y) : y[k] = IF k = 1 THEN q[j] ELSE r[k - 1]
    <3>1. PICK x \in Elts : x = q[j]
      BY <1>0
    <3>2. InOrder(r, B) /\ \A k \in 1 .. Len(r) : <<x, r[k]>> \in B
      BY <2>1, <2>5, <3>1
    <3> DEFINE z == <<x>> \o r
    <3>3. /\ InOrder(z, B) /\ Len(z) = Len(r) + 1
          /\ \A k \in 1 .. Len(z) : z[k] = IF k = 1 THEN x ELSE r[k - 1]
      BY <3>2, PrefixedIs
    <3> QED BY <3>1, <3>3
  <2>7. Len(r) \in Nat
    BY <2>1, LenProperties DEF InOrder
  <2> HIDE DEF y
  <2>8. Len(y) = (Len(p) + 1 - i) + (Len(q) + 1 - j)
    BY <1>0, <2>1, <2>6
  <2>9. \A k \in 1 .. Len(y) : \/ \E c \in i .. Len(p) : y[k] = p[c]
                               \/ \E c \in j .. Len(q) : y[k] = q[c]
    <3>1. j \in j .. Len(q) /\ \A k \in 1 .. Len(y) : k # 1 => k - 1 \in 1 .. Len(r)
      BY <1>0, <2>6, <2>7
    <3> SUFFICES ASSUME NEW k \in 1 .. Len(y)
                 PROVE  \/ \E c \in i .. Len(p) : y[k] = p[c]
                        \/ \E c \in j .. Len(q) : y[k] = q[c]
      OBVIOUS
    <3>2. CASE k = 1
      BY <2>6, <3>1, <3>2
    <3>3. CASE k # 1
      <4>1. y[k] = r[k - 1] /\ k - 1 \in 1 .. Len(r)
        BY <2>6, <3>1, <3>3
      <4> QED BY <2>1, <2>2, <4>1
    <3> QED BY <3>2, <3>3
  <2> QED BY <2>6, <2>8, <2>9 DEF MergedFrom, y
<1> QED BY <1>2, <1>3

LEMMA MergeIs ==
  ASSUME NEW B, NEW p, NEW q, Mergeable(B, p, q)
  PROVE  MergedFrom(B, p, q, 1, 1, List!Merge(p, q))
<1> DEFINE S == (1 .. Len(p) + 1) \X (1 .. Len(q) + 1)
           Rest(x) == SubSeq(p, x[1], Len(p)) \o SubSeq(q, x[2], Len(q))
           Turn(x, f) == IF List!TakeP(p[x[1]], q[x[2]])
                         THEN <<p[x[1]]>> \o f[<<x[1] + 1, x[2]>>]
                         ELSE <<q[x[2]]>> \o f[<<x[1], x[2] + 1>>]
           Body(f) == [x \in S |-> IF x[1] > Len(p) \/ x[2] > Len(q) THEN Rest(x) ELSE Turn(x, f)]
           f0 == CHOOSE f : f = Body(f)
           V == Seq(Elts) \cup { f0[x] : x \in S }
           G == { x \in S : x[1] > Len(p) \/ x[2] > Len(q) }
           Down(x) == IF List!TakeP(p[x[1]], q[x[2]]) THEN <<x[1] + 1, x[2]>> ELSE <<x[1], x[2] + 1>>
           Foremost(x) == IF List!TakeP(p[x[1]], q[x[2]]) THEN p[x[1]] ELSE q[x[2]]
           down == [x \in S |-> Down(x)]
           val == [x \in S |-> Rest(x)]
           step == [xr \in S \X V |-> <<Foremost(xr[1])>> \o xr[2]]
           mu == [x \in S |-> (Len(p) + 1 - x[1]) + (Len(q) + 1 - x[2])]
           P == { xr \in S \X Seq(Elts) : MergedFrom(B, p, q, xr[1][1], xr[1][2], xr[2]) }
<1>0. Len(p) \in Nat /\ Len(q) \in Nat /\ <<1, 1>> \in S
  BY LenProperties DEF Mergeable, InOrder
<1>1. List!Merge(p, q) = f0[<<1, 1>>]
  BY DEF List!Merge
<1> HIDE DEF f0
<1>2. ASSUME NEW x \in S
      PROVE  /\ x = <<x[1], x[2]>> /\ x[1] \in 1 .. Len(p) + 1 /\ x[2] \in 1 .. Len(q) + 1
             /\ x \notin G => /\ x[1] \in 1 .. Len(p) /\ x[2] \in 1 .. Len(q) /\ down[x] \in S
                              /\ down[x] = Down(x)
  BY <1>0
<1>3. Descends(S, G, down, mu)
  <2> SUFFICES ASSUME NEW x \in S
               PROVE  mu[x] \in Nat /\ (x \notin G => down[x] \in S /\ mu[down[x]] < mu[x])
    BY DEF Descends
  <2>1. mu[x] = (Len(p) + 1 - x[1]) + (Len(q) + 1 - x[2]) /\ mu[x] \in Nat
    BY <1>0, <1>2
  <2>2. ASSUME x \notin G PROVE mu[down[x]] < mu[x]
    <3>1. down[x] \in S /\ down[x] = Down(x)
      BY <1>2, <2>2
    <3>2. mu[Down(x)] = (Len(p) + 1 - Down(x)[1]) + (Len(q) + 1 - Down(x)[2])
      BY <3>1
    <3>3. \/ Down(x)[1] = x[1] + 1 /\ Down(x)[2] = x[2]
          \/ Down(x)[1] = x[1] /\ Down(x)[2] = x[2] + 1
      OBVIOUS
    <3>4. PICK i, j \in Nat : i = x[1] /\ j = x[2] /\ i <= Len(p) /\ j <= Len(q)
      BY <1>0, <1>2, <2>2
    <3>5. mu[down[x]] = (Len(p) + 1 - Down(x)[1]) + (Len(q) + 1 - Down(x)[2])
      BY <3>1, <3>2
    <3> HIDE DEF S, G, down, mu, Down
    <3>6. \/ mu[down[x]] = (Len(p) + 1 - (i + 1)) + (Len(q) + 1 - j)
          \/ mu[down[x]] = (Len(p) + 1 - i) + (Len(q) + 1 - (j + 1))
      BY <3>3, <3>4, <3>5
    <3>7. mu[x] = (Len(p) + 1 - i) + (Len(q) + 1 - j)
      BY <2>1, <3>4
    <3>8. \A c, d, y, z \in Nat : /\ (c + 1 - (y + 1)) + (d + 1 - z) < (c + 1 - y) + (d + 1 - z)
                                  /\ (c + 1 - y) + (d + 1 - (z + 1)) < (c + 1 - y) + (d + 1 - z)
      OBVIOUS
    <3>9. /\ (Len(p) + 1 - (i + 1)) + (Len(q) + 1 - j) < (Len(p) + 1 - i) + (Len(q) + 1 - j)
          /\ (Len(p) + 1 - i) + (Len(q) + 1 - (j + 1)) < (Len(p) + 1 - i) + (Len(q) + 1 - j)
      BY <1>0, <3>4, <3>8
    <3>10. CASE mu[down[x]] = (Len(p) + 1 - (i + 1)) + (Len(q) + 1 - j)
      BY <3>7, <3>9, <3>10
    <3>11. CASE mu[down[x]] = (Len(p) + 1 - i) + (Len(q) + 1 - (j + 1))
      BY <3>7, <3>9, <3>11
    <3> QED BY <3>6, <3>10, <3>11
  <2> QED BY <1>2, <2>1, <2>2
<1>4. ASSUME NEW x \in S, NEW r \in V PROVE step[<<x, r>>] = <<Foremost(x)>> \o r
  <2> HIDE DEF S, V, Foremost
  <2> QED OBVIOUS
<1>5. ASSUME NEW x \in S, x \in G PROVE <<x, val[x]>> \in P
  <2>1. val[x] = Rest(x)
    OBVIOUS
  <2>2. MergedFrom(B, p, q, x[1], x[2], Rest(x))
    BY <1>2, <1>5, MergeRest
  <2>3. Rest(x) \in Seq(Elts)
    BY <2>2 DEF MergedFrom, InOrder
  <2> HIDE DEF S, val, Rest
  <2> QED BY <2>1, <2>2, <2>3
<1>6. ASSUME NEW x \in S, x \notin G, NEW r, <<down[x], r>> \in P
      PROVE  /\ r \in V /\ <<x, step[<<x, r>>]>> \in P
  <2>1. r \in V /\ MergedFrom(B, p, q, Down(x)[1], Down(x)[2], r)
    <3>1. down[x] = Down(x)
      BY <1>2, <1>6
    <3>2. r \in Seq(Elts) /\ MergedFrom(B, p, q, down[x][1], down[x][2], r)
      <4> HIDE DEF S, V, down
      <4> QED BY <1>6
    <3> HIDE DEF S, down, Down
    <3> QED BY <3>1, <3>2
  <2>2. step[<<x, r>>] = <<Foremost(x)>> \o r
    <3> HIDE DEF step, V, S, Foremost
    <3> QED BY <1>4, <2>1
  <2>3. x[1] \in 1 .. Len(p) /\ x[2] \in 1 .. Len(q)
    BY <1>2, <1>6
  <2>4. MergedFrom(B, p, q, x[1], x[2], <<Foremost(x)>> \o r)
    <3>1. CASE List!TakeP(p[x[1]], q[x[2]])
      <4>1. Foremost(x) = p[x[1]] /\ Down(x)[1] = x[1] + 1 /\ Down(x)[2] = x[2]
        BY <3>1
      <4>2. MergedFrom(B, p, q, x[1] + 1, x[2], r)
        BY <2>1, <4>1
      <4>3. MergedFrom(B, p, q, x[1], x[2], <<p[x[1]]>> \o r)
        BY <2>3, <3>1, <4>2, MergeTakes
      <4> QED BY <4>1, <4>3
    <3>2. CASE ~ List!TakeP(p[x[1]], q[x[2]])
      <4>1. Foremost(x) = q[x[2]] /\ Down(x)[1] = x[1] /\ Down(x)[2] = x[2] + 1
        BY <3>2
      <4>2. MergedFrom(B, p, q, x[1], x[2] + 1, r)
        BY <2>1, <4>1
      <4>3. MergedFrom(B, p, q, x[1], x[2], <<q[x[2]]>> \o r)
        BY <2>3, <3>2, <4>2, MergeTakes
      <4> QED BY <4>1, <4>3
    <3> QED BY <3>1, <3>2
  <2>5. <<Foremost(x)>> \o r \in Seq(Elts)
    BY <2>4 DEF MergedFrom, InOrder
  <2> HIDE DEF S, V, step, Foremost
  <2> QED BY <2>1, <2>2, <2>4, <2>5
<1>7. Preserved(P, S, G, down, val, step)
  <2> HIDE DEF S, G, down, val, step, P, V
  <2> QED BY <1>5, <1>6 DEF Preserved
<1>8. PICK f : f = [x \in S |-> f[x]] /\ Recurs(f, S, G, down, val, step)
  <2> HIDE DEF P, step, val, S, G, down, mu
  <2> QED BY <1>3, <1>7, RecursDefined
<1>9. \A x \in S : <<x, f[x]>> \in P
  <2> HIDE DEF P, step, val, S, G, down, mu
  <2> QED BY <1>3, <1>7, <1>8, RecursKeeps
<1>10. ASSUME NEW x \in S, NEW e, x \in G \/ e[down[x]] \in V
       PROVE  (IF x \in G THEN val[x] ELSE step[<<x, e[down[x]]>>])
                = IF x[1] > Len(p) \/ x[2] > Len(q) THEN Rest(x) ELSE Turn(x, e)
  <2>1. CASE x \in G
    BY <2>1
  <2>2. CASE x \notin G
    <3>1. step[<<x, e[down[x]]>>] = <<Foremost(x)>> \o e[down[x]]
      <4> HIDE DEF step, V, S, Foremost, down, G
      <4> QED BY <1>4, <1>10, <2>2
    <3>2. down[x] = Down(x)
      BY <1>2, <2>2
    <3>3. Turn(x, e) = <<Foremost(x)>> \o e[Down(x)]
      OBVIOUS
    <3>4. ~ (x[1] > Len(p) \/ x[2] > Len(q))
      BY <2>2
    <3> HIDE DEF S, G, V, step, Turn, Foremost, Down, down
    <3> QED BY <2>2, <3>1, <3>2, <3>3, <3>4
  <2> QED BY <2>1, <2>2
<1>11. f = Body(f)
  <2>1. ASSUME NEW x \in S PROVE f[x] = IF x[1] > Len(p) \/ x[2] > Len(q) THEN Rest(x) ELSE Turn(x, f)
    <3>1. f[x] = IF x \in G THEN val[x] ELSE step[<<x, f[down[x]]>>]
      <4> HIDE DEF P, step, val, S, G, down, mu
      <4> QED BY <1>8 DEF Recurs
    <3>2. x \notin G => <<down[x], f[down[x]]>> \in P
      <4>1. x \notin G => down[x] \in S
        BY <1>2
      <4> HIDE DEF P, S, G, down
      <4> QED BY <1>9, <4>1
    <3>3. x \in G \/ f[down[x]] \in V
      <4> HIDE DEF S, G, down
      <4> QED BY <3>2
    <3> HIDE DEF P, step, val, S, G, down, mu, V, Rest, Turn
    <3> QED BY <1>10, <3>1, <3>3
  <2> HIDE DEF S, Rest, Turn
  <2> QED BY <1>8, <2>1
<1>12. f0 = Body(f0)
  <2> HIDE DEF Body
  <2> QED BY <1>11 DEF f0
<1>13. Recurs(f0, S, G, down, val, step)
  <2>1. DOMAIN f0 = S
        /\ \A x \in S : f0[x] = IF x[1] > Len(p) \/ x[2] > Len(q) THEN Rest(x) ELSE Turn(x, f0)
    <3> HIDE DEF S, Rest, Turn
    <3> QED BY <1>12
  <2>2. ASSUME NEW x \in S PROVE f0[x] = IF x \in G THEN val[x] ELSE step[<<x, f0[down[x]]>>]
    <3>1. x \notin G => down[x] \in S
      BY <1>2
    <3>2. x \in G \/ f0[down[x]] \in V
      <4> HIDE DEF S, G, down
      <4> QED BY <3>1
    <3> HIDE DEF P, step, val, S, G, down, mu, V, Rest, Turn, Body
    <3> QED BY <1>10, <2>1, <3>2
  <2> HIDE DEF P, step, val, S, G, down, mu, Body
  <2> QED BY <2>1, <2>2 DEF Recurs
<1>14. \A x \in S : <<x, f0[x]>> \in P
  <2> HIDE DEF P, step, val, S, G, down, mu, Body
  <2> QED BY <1>3, <1>7, <1>13, RecursKeeps
<1>15. <<<<1, 1>>, f0[<<1, 1>>]>> \in P
  <2> HIDE DEF P, S
  <2> QED BY <1>0, <1>14
<1> HIDE DEF S
<1> QED BY <1>1, <1>15

-----------------------------------------------------------------------------
(* One pass *)

\* at says where each sequence of x ends in the one they make.
Ends(x, at, K) ==
  /\ K \in Nat \ {0} /\ x \in [1 .. K -> Seq(Elts)] /\ at \in [0 .. K -> Nat] /\ at[0] = 0
  /\ \A k \in 1 .. K : at[k] = at[k - 1] + Len(x[k])

LEMMA FlattenIs ==
  ASSUME NEW x, NEW at, NEW K, Ends(x, at, K)
  PROVE  LET v == List!FlattenSeq(x)
         IN  /\ v \in Seq(Elts) /\ Len(v) = at[K]
             /\ \A k \in 1 .. K : \A j \in 1 .. Len(x[k]) : v[at[k - 1] + j] = x[k][j]
<1> DEFINE Turn(f, i) == IF i = 1 THEN x[i] ELSE f[i - 1] \o x[i]
           Body(f, n) == [i \in 1 .. n |-> Turn(f, i)]
           f0 == CHOOSE f : f = Body(f, K)
           Is(v, i) == /\ v \in Seq(Elts) /\ Len(v) = at[i]
                       /\ \A k \in 1 .. i : \A j \in 1 .. Len(x[k]) :
                            at[k - 1] + j \in 1 .. at[i] /\ v[at[k - 1] + j] = x[k][j]
<1>0. /\ K \in Nat \ {0} /\ x \in [1 .. K -> Seq(Elts)] /\ at \in [0 .. K -> Nat] /\ at[0] = 0
      /\ \A k \in 1 .. K : at[k] = at[k - 1] + Len(x[k])
  BY DEF Ends
<1>1. Len(x) = K
  <2>1. x \in Seq(Seq(Elts))
    BY <1>0
  <2>2. DOMAIN x = 1 .. K
    BY <1>0
  <2> QED BY <1>0, <2>1, <2>2
<1>2. List!FlattenSeq(x) = f0[K]
  BY <1>0, <1>1 DEF List!FlattenSeq
<1>3. \A n \in Nat : \E f : f = Body(f, n)
  <2> DEFINE Q == { n \in Nat : \E f : f = Body(f, n) }
  <2>1. 0 \in Q
    <3>1. [i \in 1 .. 0 |-> 0] = Body([i \in 1 .. 0 |-> 0], 0)
      OBVIOUS
    <3> QED BY <3>1
  <2>2. ASSUME NEW n \in Nat, n \in Q PROVE n + 1 \in Q
    <3>1. PICK f : f = Body(f, n)
      BY <2>2
    <3> DEFINE e == [i \in 1 .. n + 1 |-> IF i = n + 1 THEN Turn(f, i) ELSE f[i]]
    <3>2. \A i \in 1 .. n : f[i] = Turn(f, i)
      <4> HIDE DEF Turn
      <4> QED BY <3>1
    <3>3. ASSUME NEW i \in 1 .. n + 1 PROVE e[i] = Turn(e, i)
      <4>1. Turn(e, i) = Turn(f, i)
        <5>1. i # 1 => i - 1 \in 1 .. n + 1 /\ i - 1 # n + 1
          OBVIOUS
        <5>2. i # 1 => e[i - 1] = f[i - 1]
          BY <5>1
        <5> HIDE DEF e
        <5> QED BY <5>2
      <4>2. i # n + 1 => i \in 1 .. n
        OBVIOUS
      <4> HIDE DEF Turn
      <4> QED BY <3>2, <4>1, <4>2
    <3>4. e = Body(e, n + 1)
      <4> DEFINE u == Body(e, n + 1)
      <4>1. DOMAIN u = 1 .. n + 1 /\ \A i \in 1 .. n + 1 : u[i] = Turn(e, i)
        <5> HIDE DEF Turn, e
        <5> QED OBVIOUS
      <4>2. u = [i \in 1 .. n + 1 |-> u[i]] /\ e = [i \in 1 .. n + 1 |-> e[i]]
        <5> HIDE DEF Turn
        <5> QED OBVIOUS
      <4>3. \A i \in 1 .. n + 1 : u[i] = e[i]
        <5> HIDE DEF Turn, e, u
        <5> QED BY <3>3, <4>1
      <4> HIDE DEF u, e
      <4> QED BY <4>2, <4>3 DEF u
    <3> HIDE DEF e, Body
    <3> QED BY <3>4
  <2> HIDE DEF Q
  <2>3. \A n \in Nat : n \in Q
    BY <2>1, <2>2, Induction
  <2> QED BY <2>3 DEF Q
<1>4. f0 = Body(f0, K)
  <2> HIDE DEF Body
  <2> QED BY <1>0, <1>3
<1> HIDE DEF f0
<1>5. \A i \in 1 .. K : f0[i] = IF i = 1 THEN x[i] ELSE f0[i - 1] \o x[i]
  BY <1>4
<1> HIDE DEF Body, Turn
<1>6. Is(f0[1], 1)
  <2>1. 1 \in 1 .. K /\ 1 - 1 = 0
    BY <1>0
  <2>2. f0[1] = x[1] /\ x[1] \in Seq(Elts) /\ at[1] = Len(x[1]) /\ Len(x[1]) \in Nat
    BY <1>0, <1>5, <2>1, LenProperties
  <2>3. ASSUME NEW k \in 1 .. 1, NEW j \in 1 .. Len(x[k])
        PROVE  at[k - 1] + j \in 1 .. at[1] /\ f0[1][at[k - 1] + j] = x[k][j]
    <3>1. k = 1 /\ at[k - 1] = 0 /\ at[k - 1] + j = j
      BY <1>0, <2>1, <2>2
    <3> QED BY <2>2, <3>1
  <2> QED BY <2>2, <2>3
<1>7. ASSUME NEW i \in Nat, i + 1 \in 1 .. K, i # 0, Is(f0[i], i) PROVE Is(f0[i + 1], i + 1)
  <2> DEFINE v == f0[i]
             u == f0[i + 1]
             y == x[i + 1]
  <2>1. i \in 1 .. K /\ i + 1 - 1 = i /\ i + 1 # 1 /\ at[i] \in Nat
    BY <1>0, <1>7
  <2>2. u = v \o y /\ y \in Seq(Elts) /\ at[i + 1] = at[i] + Len(y) /\ Len(y) \in Nat
    <3> DEFINE m == i + 1
    <3>1. m \in 1 .. K /\ m # 1 /\ m - 1 = i
      BY <1>7, <2>1
    <3> HIDE DEF m
    <3>2. f0[m] = f0[m - 1] \o x[m] /\ at[m] = at[m - 1] + Len(x[m]) /\ x[m] \in Seq(Elts)
      BY <1>0, <1>5, <3>1
    <3>3. Len(x[m]) \in Nat
      BY <3>2, LenProperties
    <3> QED BY <3>1, <3>2, <3>3 DEF m
  <2>3. v \in Seq(Elts) /\ Len(v) = at[i]
    BY <1>7
  <2> HIDE DEF v, u, y
  <2>4. u \in Seq(Elts) /\ Len(u) = at[i] + Len(y)
        /\ \A j \in 1 .. at[i] + Len(y) : u[j] = IF j <= at[i] THEN v[j] ELSE y[j - at[i]]
    BY <2>2, <2>3, ConcatProperties
  <2>5. ASSUME NEW k \in 1 .. i + 1, NEW j \in 1 .. Len(x[k])
        PROVE  at[k - 1] + j \in 1 .. at[i + 1] /\ u[at[k - 1] + j] = x[k][j]
    <3>1. CASE k = i + 1
      <4>1. k - 1 = i /\ x[k] = y /\ j \in 1 .. Len(y)
        BY <2>1, <2>5, <3>1 DEF y
      <4>2. PICK m \in Nat : m = at[i] + j
        BY <2>1, <4>1
      <4>3. m \in 1 .. at[i] + Len(y) /\ ~ (m <= at[i]) /\ m - at[i] = j
        BY <2>1, <2>2, <4>1, <4>2
      <4> QED BY <2>2, <2>4, <4>1, <4>2, <4>3
    <3>2. CASE k # i + 1
      <4>1. k \in 1 .. i
        BY <1>7, <3>2
      <4>2. at[k - 1] + j \in 1 .. at[i] /\ v[at[k - 1] + j] = x[k][j]
        BY <1>7, <4>1 DEF v
      <4>3. PICK m : m = at[k - 1] + j
        OBVIOUS
      <4>4. m \in 1 .. at[i] + Len(y) /\ m <= at[i]
        BY <2>1, <2>2, <4>2, <4>3
      <4> QED BY <2>2, <2>4, <4>2, <4>3, <4>4
    <3> QED BY <3>1, <3>2
  <2> QED BY <2>2, <2>4, <2>5 DEF u
<1> HIDE DEF Is
<1>8. \A i \in Nat : i # 0 /\ i <= K => Is(f0[i], i)
  <2> DEFINE Q == { i \in Nat : i # 0 /\ i <= K => Is(f0[i], i) }
  <2>1. 0 \in Q
    OBVIOUS
  <2>2. ASSUME NEW i \in Nat, i \in Q PROVE i + 1 \in Q
    <3>1. CASE i = 0
      BY <1>6, <3>1
    <3>2. CASE i # 0
      BY <1>0, <1>7, <2>2, <3>2
    <3> QED BY <3>1, <3>2
  <2> HIDE DEF Q
  <2>3. \A i \in Nat : i \in Q
    BY <2>1, <2>2, Induction
  <2> QED BY <2>3 DEF Q
<1>9. Is(f0[K], K)
  BY <1>0, <1>8
<1> QED BY <1>2, <1>9 DEF Is

-----------------------------------------------------------------------------
(* Runs of a length, and how many there are *)

LEMMA Doubled ==
  ASSUME NEW k \in Nat \ {0}, NEW u \in Nat
  PROVE  LET c == (k - 1) * (2 * u)
         IN  /\ c \in Nat /\ (2 * k - 1 - 1) * u = c /\ (2 * k - 1) * u = c + u
             /\ (2 * k) * u = c + 2 * u /\ k * (2 * u) = c + 2 * u
<1>1. PICK j \in Nat : k = j + 1
  <2>1. k - 1 \in Nat /\ k = k - 1 + 1
    OBVIOUS
  <2> QED BY <2>1
<1>2. j * (2 * u) = 2 * (j * u) /\ (2 * j) * u = 2 * (j * u) /\ j * u \in Nat
  OBVIOUS
<1>3. (2 * j + 1) * u = (2 * j) * u + u /\ (2 * j + 2) * u = (2 * j) * u + 2 * u
      /\ (j + 1) * (2 * u) = j * (2 * u) + 2 * u
  OBVIOUS
<1>4. 2 * k - 1 - 1 = 2 * j /\ 2 * k - 1 = 2 * j + 1 /\ 2 * k = 2 * j + 2 /\ k - 1 = j
  BY <1>1
<1> QED BY <1>1, <1>2, <1>3, <1>4

LEMMA TimesUp ==
  ASSUME NEW i \in Nat, NEW j \in Nat, NEW x \in Nat, i <= j
  PROVE  i * x <= j * x
<1>1. PICK d \in Nat : j = i + d
  <2>1. j - i \in Nat /\ j = i + (j - i)
    OBVIOUS
  <2> QED BY <2>1
<1>2. (i + d) * x = i * x + d * x /\ d * x \in Nat /\ i * x \in Nat
  OBVIOUS
<1> QED BY <1>1, <1>2

\* Enough merges, and none too many.
LEMMA NMergesAre ==
  ASSUME NEW v, NEW n \in Nat \ {0}, Len(v) = n, NEW x \in Nat \ {0}
  PROVE  LET c == List!NMerges(v, x)
         IN  c \in Nat \ {0} /\ n <= c * (2 * x) /\ (c - 1) * (2 * x) < n
<1> DEFINE y == 2 * x
           m == n + y - 1
           c == m \div y
<1>1. List!NMerges(v, x) = c
  BY DEF List!NMerges
<1>2. y \in Nat \ {0} /\ m \in Nat /\ m >= y
  OBVIOUS
<1> HIDE DEF y, m
<1>3. c \in Int /\ m = y * c + (m % y) /\ m % y \in 0 .. y - 1
  BY <1>2
<1> HIDE DEF c
<1>4. c >= 1
  <2>1. CASE c <= 0
    <3>1. PICK d \in Nat : c = -d
      <4>1. -c \in Nat /\ c = -(-c)
        BY <1>3, <2>1
      <4> QED BY <4>1
    <3>2. y * c = -(y * d) /\ y * d \in Nat
      BY <1>2, <3>1
    <3>3. m < y
      BY <1>2, <1>3, <3>2
    <3> QED BY <1>2, <3>3
  <2> QED BY <1>3, <2>1
<1>5. PICK d \in Nat : c = d + 1
  <2>1. c - 1 \in Nat /\ c = c - 1 + 1
    BY <1>3, <1>4
  <2> QED BY <2>1
<1>6. y * c = d * y + y /\ c * y = d * y + y /\ (c - 1) * y = d * y /\ d * y \in Nat
  BY <1>2, <1>5
<1> QED BY <1>1, <1>2, <1>3, <1>4, <1>6 DEF y, m

Capped(x, n) == IF x < n THEN x ELSE n

LEMMA RunIs ==
  ASSUME NEW v \in Seq(Elts), NEW c \in Nat, NEW d \in Nat, c <= d
  PROVE  LET n == Len(v)
             r == SubSeq(v, c + 1, Capped(d, n))
         IN  /\ r \in Seq(Elts) /\ Len(r) = Capped(d, n) - Capped(c, n)
             /\ \A j \in 1 .. Len(r) : c + j \in 1 .. n /\ c + j <= d /\ r[j] = v[c + j]
<1> DEFINE n == Len(v)
           e == Capped(d, n)
           r == SubSeq(v, c + 1, e)
<1>0. n \in Nat /\ e \in Nat /\ e <= n /\ e <= d
  BY LenProperties DEF Capped
<1>1. \A k \in c + 1 .. e : v[k] \in Elts
  BY <1>0, ElementOfSeq
<1>2. r \in Seq(Elts) /\ Len(r) = (IF c + 1 <= e THEN e - (c + 1) + 1 ELSE 0)
      /\ \A j \in 1 .. e - (c + 1) + 1 : r[j] = v[c + 1 + j - 1]
  BY <1>0, <1>1, SubSeqProperties
<1> HIDE DEF r
<1>3. e = IF d < n THEN d ELSE n
  BY DEF Capped
<1>4. Capped(c, n) = IF c < n THEN c ELSE n
  BY DEF Capped
<1> HIDE DEF n, e
<1>5. Len(r) = e - Capped(c, n)
  BY <1>0, <1>2, <1>3, <1>4
<1>6. ASSUME NEW j \in 1 .. Len(r) PROVE c + j \in 1 .. n /\ c + j <= d /\ r[j] = v[c + j]
  <2>1. j \in 1 .. e - (c + 1) + 1 /\ c + 1 + j - 1 = c + j /\ c + j <= e
    BY <1>0, <1>2
  <2> QED BY <1>0, <1>2, <2>1
<1> QED BY <1>2, <1>5, <1>6 DEF n, e, r

-----------------------------------------------------------------------------
(* The order that the sort is for: by rank, and by place among equals *)

Precedes(t, i, j) ==
  RankOf[t[i]] < RankOf[t[j]] \/ (RankOf[t[i]] = RankOf[t[j]] /\ i < j)

Earlier(t) == { p \in Elts \X Elts : \E i, j \in 1 .. Len(t) :
                  p[1] = t[i] /\ p[2] = t[j] /\ Precedes(t, i, j) }

LEMMA EarlierIs ==
  ASSUME NEW t, Distinct(t), NEW i \in 1 .. Len(t), NEW j \in 1 .. Len(t)
  PROVE  <<t[i], t[j]>> \in Earlier(t) <=> Precedes(t, i, j)
<1>1. t[i] \in Elts /\ t[j] \in Elts
  BY DEF Distinct
<1>2. \A k, m \in 1 .. Len(t) : t[k] = t[m] => k = m
  BY DEF Distinct
<1>3. Precedes(t, i, j) => <<t[i], t[j]>> \in Earlier(t)
  BY <1>1 DEF Earlier
<1>4. ASSUME <<t[i], t[j]>> \in Earlier(t) PROVE Precedes(t, i, j)
  <2>1. PICK k, m \in 1 .. Len(t) : t[i] = t[k] /\ t[j] = t[m] /\ Precedes(t, k, m)
    BY <1>4 DEF Earlier
  <2> QED BY <1>2, <2>1
<1> QED BY <1>3, <1>4

LEMMA EarlierOrders ==
  ASSUME ListAssumption, NEW t, Distinct(t)
  PROVE  /\ Transitive(Earlier(t))
         /\ \A i, j \in 1 .. Len(t) : Precedes(t, i, j) => ~ Precedes(t, j, i) /\ i # j
         /\ \A i, j \in 1 .. Len(t) : i # j => Precedes(t, i, j) \/ Precedes(t, j, i)
<1>1. \A i \in 1 .. Len(t) : t[i] \in Elts /\ RankOf[t[i]] \in Int
  BY DEF Distinct, ListAssumption
<1>2. Len(t) \in Nat
  BY DEF Distinct
<1>3. ASSUME NEW x, NEW y, NEW z, <<x, y>> \in Earlier(t), <<y, z>> \in Earlier(t)
      PROVE  <<x, z>> \in Earlier(t)
  <2>1. PICK i, j \in 1 .. Len(t) : x = t[i] /\ y = t[j] /\ Precedes(t, i, j)
    BY <1>3 DEF Earlier
  <2>2. PICK m, k \in 1 .. Len(t) : y = t[m] /\ z = t[k] /\ Precedes(t, m, k)
    BY <1>3 DEF Earlier
  <2>3. m = j
    BY <2>1, <2>2 DEF Distinct
  <2>4. Precedes(t, i, k)
    BY <1>1, <1>2, <2>1, <2>2, <2>3 DEF Precedes
  <2> QED BY <2>1, <2>2, <2>4, EarlierIs
<1>4. \A i, j \in 1 .. Len(t) : Precedes(t, i, j) => ~ Precedes(t, j, i) /\ i # j
  BY <1>1, <1>2 DEF Precedes
<1>5. \A i, j \in 1 .. Len(t) : i # j => Precedes(t, i, j) \/ Precedes(t, j, i)
  BY <1>1, <1>2 DEF Precedes
<1> QED BY <1>3, <1>4, <1>5 DEF Transitive

\* From c to d, v has the elements of t that were there, and in order.
Group(v, t, c, d) ==
  /\ \A j \in 1 .. Len(t) : c < j /\ j <= d =>
       \E i \in 1 .. Len(t) : c < i /\ i <= d /\ v[j] = t[i]
  /\ \A j, k \in 1 .. Len(t) : c < j /\ k <= d /\ j < k => <<v[j], v[k]>> \in Earlier(t)

\* The run from c to d, and what is said of it.
Part(v, c, d) == SubSeq(v, c + 1, Capped(d, Len(v)))
RunMade(r, t, c, d) ==
  /\ InOrder(r, Earlier(t)) /\ Len(r) = Capped(d, Len(t)) - Capped(c, Len(t))
  /\ \A j \in 1 .. Len(r) : \E i \in 1 .. Len(t) : c < i /\ i <= d /\ r[j] = t[i]

LEMMA GroupRun ==
  ASSUME NEW t, Distinct(t), NEW v \in Seq(Elts), Len(v) = Len(t),
         NEW c \in Nat, NEW d \in Nat, c <= d, Group(v, t, c, d)
  PROVE  RunMade(Part(v, c, d), t, c, d)
<1> DEFINE n == Len(t)
           r == SubSeq(v, c + 1, Capped(d, Len(v)))
<1>0. n \in Nat
  BY DEF Distinct
<1>1. /\ r \in Seq(Elts) /\ Len(r) = Capped(d, n) - Capped(c, n)
      /\ \A j \in 1 .. Len(r) : c + j \in 1 .. n /\ c + j <= d /\ r[j] = v[c + j]
  BY RunIs, ZenonT(30)
<1> HIDE DEF r
<1>2. /\ \A j \in 1 .. n : c < j /\ j <= d =>
           \E i \in 1 .. n : c < i /\ i <= d /\ v[j] = t[i]
      /\ \A j, k \in 1 .. n : c < j /\ k <= d /\ j < k => <<v[j], v[k]>> \in Earlier(t)
  BY DEF Group
<1> HIDE DEF n
<1>3. \A j \in 1 .. Len(r) : c < c + j
  OBVIOUS
<1>4. \A j \in 1 .. Len(r) : \E i \in 1 .. n : c < i /\ i <= d /\ r[j] = t[i]
  BY <1>1, <1>2, <1>3
<1>5. ASSUME NEW j \in 1 .. Len(r), NEW k \in 1 .. Len(r), j < k
      PROVE  <<r[j], r[k]>> \in Earlier(t)
  <2>1. c + j < c + k
    BY <1>5
  <2> QED BY <1>1, <1>2, <1>3, <2>1
<1> QED BY <1>1, <1>4, <1>5 DEF InOrder, n, r, Part, RunMade

LEMMA GroupsMerge ==
  ASSUME ListAssumption, NEW t, Distinct(t), NEW v \in Seq(Elts), Len(v) = Len(t),
         NEW c \in Nat, NEW m \in Nat, NEW d \in Nat, c <= m, m <= d,
         Group(v, t, c, m), Group(v, t, m, d)
  PROVE  RunMade(List!Merge(Part(v, c, m), Part(v, m, d)), t, c, d)
<1> DEFINE n == Len(t)
           p == Part(v, c, m)
           q == Part(v, m, d)
           r == List!Merge(p, q)
<1>0. n \in Nat /\ \A i \in 1 .. n : t[i] \in Elts /\ RankOf[t[i]] \in Int
  BY DEF Distinct, ListAssumption
<1>1. /\ InOrder(p, Earlier(t)) /\ Len(p) = Capped(m, n) - Capped(c, n)
      /\ \A j \in 1 .. Len(p) : \E i \in 1 .. n : c < i /\ i <= m /\ p[j] = t[i]
  <2>1. RunMade(p, t, c, m)
    BY GroupRun
  <2> HIDE DEF p
  <2> QED BY <2>1 DEF RunMade
<1>2. /\ InOrder(q, Earlier(t)) /\ Len(q) = Capped(d, n) - Capped(m, n)
      /\ \A j \in 1 .. Len(q) : \E i \in 1 .. n : m < i /\ i <= d /\ q[j] = t[i]
  <2>1. RunMade(q, t, m, d)
    BY GroupRun
  <2> HIDE DEF q
  <2> QED BY <2>1 DEF RunMade
<1> HIDE DEF p, q
<1>3. Mergeable(Earlier(t), p, q)
  <2>1. ASSUME NEW i \in 1 .. Len(p), NEW j \in 1 .. Len(q)
        PROVE  IF List!TakeP(p[i], q[j]) THEN <<p[i], q[j]>> \in Earlier(t)
               ELSE <<q[j], p[i]>> \in Earlier(t)
    <3>1. PICK x \in 1 .. n : x <= m /\ p[i] = t[x]
      BY <1>1
    <3>2. PICK y \in 1 .. n : m < y /\ q[j] = t[y]
      BY <1>2
    <3>3. x < y
      BY <1>0, <3>1, <3>2
    <3>4. List!TakeP(p[i], q[j]) <=> RankOf[t[x]] <= RankOf[t[y]]
      BY <3>1, <3>2 DEF List!TakeP
    <3>5. RankOf[t[x]] <= RankOf[t[y]] => Precedes(t, x, y)
      BY <1>0, <3>3 DEF Precedes
    <3>6. ~ (RankOf[t[x]] <= RankOf[t[y]]) => Precedes(t, y, x)
      BY <1>0 DEF Precedes
    <3>7. /\ <<t[x], t[y]>> \in Earlier(t) <=> Precedes(t, x, y)
          /\ <<t[y], t[x]>> \in Earlier(t) <=> Precedes(t, y, x)
      BY EarlierIs DEF n
    <3> QED BY <3>1, <3>2, <3>4, <3>5, <3>6, <3>7
  <2>2. Transitive(Earlier(t))
    BY EarlierOrders
  <2> QED BY <1>1, <1>2, <2>1, <2>2 DEF Mergeable
<1>4. MergedFrom(Earlier(t), p, q, 1, 1, r)
  BY <1>3, MergeIs
<1> HIDE DEF r
<1>5. InOrder(r, Earlier(t)) /\ Len(r) = (Len(p) + 1 - 1) + (Len(q) + 1 - 1)
      /\ \A k \in 1 .. Len(r) : \/ \E i \in 1 .. Len(p) : r[k] = p[i]
                                \/ \E i \in 1 .. Len(q) : r[k] = q[i]
  BY <1>4 DEF MergedFrom
<1>6. Len(r) = Capped(d, n) - Capped(c, n)
  <2>1. Capped(d, n) \in Nat /\ Capped(c, n) \in Nat /\ Capped(m, n) \in Nat
    BY <1>0 DEF Capped
  <2>2. Len(r) = (Capped(m, n) - Capped(c, n) + 1 - 1) + (Capped(d, n) - Capped(m, n) + 1 - 1)
    BY <1>1, <1>2, <1>5
  <2> QED BY <2>1, <2>2
<1>7. ASSUME NEW k \in 1 .. Len(r) PROVE \E i \in 1 .. n : c < i /\ i <= d /\ r[k] = t[i]
  <2>1. CASE \E j \in 1 .. Len(p) : r[k] = p[j]
    <3>1. PICK i \in 1 .. n : c < i /\ i <= m /\ r[k] = t[i]
      BY <1>1, <2>1
    <3>2. i <= d
      BY <1>0, <3>1
    <3> QED BY <3>1, <3>2
  <2>2. CASE \E j \in 1 .. Len(q) : r[k] = q[j]
    <3>1. PICK i \in 1 .. n : m < i /\ i <= d /\ r[k] = t[i]
      BY <1>2, <2>2
    <3>2. c < i
      BY <1>0, <3>1
    <3> QED BY <3>1, <3>2
  <2> QED BY <1>5, <2>1, <2>2
<1> QED BY <1>5, <1>6, <1>7 DEF n, p, q, r, RunMade

\* Every run of u elements is a group.
Grouped(v, t, u) ==
  /\ v \in Seq(Elts) /\ Len(v) = Len(t)
  /\ \A k \in Nat \ {0} : Group(v, t, (k - 1) * u, k * u)

LEMMA RunsMerge ==
  ASSUME ListAssumption, NEW t, Distinct(t), NEW v, NEW x \in Nat, Grouped(v, t, x),
         NEW k \in Nat \ {0}
  PROVE  LET c == (k - 1) * (2 * x)
         IN  /\ c \in Nat /\ k * (2 * x) = c + 2 * x
             /\ RunMade(List!Merge(List!Run(v, x, 2 * k - 1), List!Run(v, x, 2 * k)), t, c, c + 2 * x)
<1> DEFINE c == (k - 1) * (2 * x)
           m == c + x
           d == c + 2 * x
<1>1. /\ c \in Nat /\ (2 * k - 1 - 1) * x = c /\ (2 * k - 1) * x = m
      /\ (2 * k) * x = d /\ k * (2 * x) = d
  BY Doubled
<1> HIDE DEF c
<1>2. m \in Nat /\ d \in Nat /\ c <= m /\ m <= d
  BY <1>1
<1> HIDE DEF m, d
<1>3. List!Run(v, x, 2 * k - 1) = Part(v, c, m)
  BY <1>1 DEF List!Run, Part, Capped
<1>4. List!Run(v, x, 2 * k) = Part(v, m, d)
  BY <1>1 DEF List!Run, Part, Capped
<1>5. Group(v, t, c, m)
  <2>1. 2 * k - 1 \in Nat \ {0}
    OBVIOUS
  <2>2. Group(v, t, (2 * k - 1 - 1) * x, (2 * k - 1) * x)
    BY <2>1 DEF Grouped
  <2> QED BY <1>1, <2>2
<1>6. Group(v, t, m, d)
  <2>1. 2 * k \in Nat \ {0}
    OBVIOUS
  <2>2. Group(v, t, (2 * k - 1) * x, (2 * k) * x)
    BY <2>1 DEF Grouped
  <2> QED BY <1>1, <2>2
<1>7. RunMade(List!Merge(Part(v, c, m), Part(v, m, d)), t, c, d)
  <2>1. v \in Seq(Elts) /\ Len(v) = Len(t)
    BY DEF Grouped
  <2> QED BY <1>1, <1>2, <1>5, <1>6, <2>1, GroupsMerge
<1> QED BY <1>1, <1>3, <1>4, <1>7 DEF c, d

LEMMA PassGroups ==
  ASSUME ListAssumption, NEW t, Distinct(t), Len(t) # 0, NEW v, NEW x \in Nat \ {0}, Grouped(v, t, x)
  PROVE  Grouped(List!MergePass(v, x), t, 2 * x)
<1> DEFINE n == Len(t)
           y == 2 * x
           K == List!NMerges(v, x)
           e == [k \in 1 .. K |-> List!Merge(List!Run(v, x, 2 * k - 1), List!Run(v, x, 2 * k))]
           at == [k \in 0 .. K |-> Capped(k * y, n)]
           r == List!MergePass(v, x)
<1>0. n \in Nat \ {0} /\ Len(v) = n /\ y \in Nat
  BY DEF Distinct, Grouped
<1>1. r = List!FlattenSeq(e)
  BY DEF List!MergePass
<1>2. K \in Nat \ {0} /\ n <= K * y /\ (K - 1) * y < n
  <2>1. x \in Nat \ {0} /\ Len(v) = n /\ n \in Nat \ {0}
    BY <1>0
  <2> HIDE DEF n
  <2> QED BY <2>1, NMergesAre
<1>3. ASSUME NEW k \in 1 .. K
      PROVE  /\ (k - 1) * y \in Nat /\ k * y = (k - 1) * y + y
             /\ RunMade(e[k], t, (k - 1) * y, k * y)
  <2>1. k \in Nat \ {0}
    BY <1>2
  <2>2. e[k] = List!Merge(List!Run(v, x, 2 * k - 1), List!Run(v, x, 2 * k))
    <3> HIDE DEF K
    <3> QED OBVIOUS
  <2>3. LET c == (k - 1) * (2 * x)
        IN  /\ c \in Nat /\ k * (2 * x) = c + 2 * x
            /\ RunMade(List!Merge(List!Run(v, x, 2 * k - 1), List!Run(v, x, 2 * k)), t, c, c + 2 * x)
    BY <2>1, RunsMerge
  <2> HIDE DEF e
  <2> QED BY <2>2, <2>3
<1>4. DOMAIN e = 1 .. K /\ \A k \in 0 .. K : at[k] = Capped(k * y, n)
  <2> HIDE DEF K, y, n
  <2> QED OBVIOUS
<1>5. e = [k \in 1 .. K |-> e[k]] /\ DOMAIN at = 0 .. K /\ at = [k \in 0 .. K |-> at[k]]
  <2> HIDE DEF K, y, n
  <2> QED OBVIOUS
<1> HIDE DEF e, at, K, y, n, r
<1>6. \A k \in 0 .. K : k * y \in Nat /\ Capped(k * y, n) \in Nat
  <2>1. \A k \in Nat : k * y \in Nat
    BY <1>0
  <2> QED BY <1>0, <1>2, <2>1 DEF Capped
<1>7. Ends(e, at, K)
  <2>1. \A k \in 1 .. K : e[k] \in Seq(Elts) /\ Len(e[k]) = Capped(k * y, n) - Capped((k - 1) * y, n)
    BY <1>3 DEF RunMade, InOrder, n
  <2>2. e \in [1 .. K -> Seq(Elts)]
    BY <1>5, <2>1
  <2>3. at \in [0 .. K -> Nat]
    BY <1>4, <1>5, <1>6
  <2>4. at[0] = 0
    <3>1. 0 * y = 0 /\ 0 \in 0 .. K
      BY <1>0, <1>2
    <3>2. at[0] = Capped(0, n)
      BY <1>4, <3>1
    <3> QED BY <1>0, <3>2 DEF Capped
  <2>5. ASSUME NEW k \in 1 .. K PROVE at[k] = at[k - 1] + Len(e[k])
    <3>1. k \in 0 .. K /\ k - 1 \in 0 .. K
      BY <1>2
    <3>2. at[k] = Capped(k * y, n) /\ at[k - 1] = Capped((k - 1) * y, n)
      BY <1>4, <3>1
    <3>3. Capped(k * y, n) \in Nat /\ Capped((k - 1) * y, n) \in Nat
      BY <1>6, <3>1
    <3> QED BY <2>1, <3>2, <3>3
  <2> QED BY <1>2, <2>2, <2>3, <2>4, <2>5 DEF Ends
<1>8. /\ r \in Seq(Elts) /\ Len(r) = at[K]
      /\ \A k \in 1 .. K : \A j \in 1 .. Len(e[k]) : r[at[k - 1] + j] = e[k][j]
  BY <1>1, <1>7, FlattenIs
<1>9. Len(r) = n
  <2>1. at[K] = Capped(K * y, n) /\ K * y \in Nat
    BY <1>2, <1>4, <1>6
  <2>2. Capped(K * y, n) = n
    BY <1>0, <1>2, <2>1 DEF Capped
  <2> QED BY <1>8, <2>1, <2>2
<1>10. ASSUME NEW k \in Nat \ {0} PROVE Group(r, t, (k - 1) * y, k * y)
  <2>1. CASE k <= K
    <3> DEFINE c == (k - 1) * y
               d == k * y
    <3>1. k \in 1 .. K /\ k - 1 \in 0 .. K
      BY <1>2, <2>1
    <3>2. c \in Nat /\ d = c + y /\ RunMade(e[k], t, c, d)
      BY <1>3, <3>1
    <3>3. at[k - 1] = Capped(c, n)
      BY <1>4, <3>1
    <3> HIDE DEF c, d
    <3>4. ASSUME NEW j \in 1 .. n, c < j, j <= d
          PROVE  j - c \in 1 .. Len(e[k]) /\ r[j] = e[k][j - c]
      <4>1. Capped(c, n) = c /\ Len(e[k]) = Capped(d, n) - c
        <5>1. c < n
          BY <1>0, <3>2, <3>4
        <5> QED BY <3>2, <5>1 DEF RunMade, Capped, n
      <4>2. j <= Capped(d, n) /\ Capped(d, n) \in Nat
        BY <1>0, <3>2, <3>4 DEF Capped
      <4>3. j - c \in 1 .. Len(e[k]) /\ c + (j - c) = j
        BY <1>0, <3>2, <3>4, <4>1, <4>2
      <4> DEFINE z == j - c
      <4>4. z \in 1 .. Len(e[k]) /\ c + z = j
        BY <4>3
      <4> HIDE DEF z
      <4>5. r[at[k - 1] + z] = e[k][z]
        BY <1>8, <3>1, <4>4
      <4>6. at[k - 1] + z = j
        BY <3>3, <4>1, <4>4
      <4> QED BY <4>4, <4>5, <4>6 DEF z
    <3>5. \A j \in 1 .. n : c < j /\ j <= d => \E i \in 1 .. n : c < i /\ i <= d /\ r[j] = t[i]
      BY <3>2, <3>4 DEF RunMade, n
    <3>6. ASSUME NEW i \in 1 .. n, NEW j \in 1 .. n, c < i, j <= d, i < j
          PROVE  <<r[i], r[j]>> \in Earlier(t)
      <4>1. c < j /\ i <= d
        BY <1>0, <3>2, <3>6
      <4>2. /\ i - c \in 1 .. Len(e[k]) /\ r[i] = e[k][i - c]
            /\ j - c \in 1 .. Len(e[k]) /\ r[j] = e[k][j - c]
        BY <3>4, <3>6, <4>1
      <4>3. i - c < j - c
        BY <1>0, <3>2, <3>6
      <4>4. \A f, g \in 1 .. Len(e[k]) : f < g => <<e[k][f], e[k][g]>> \in Earlier(t)
        BY <3>2 DEF RunMade, InOrder
      <4> QED BY <4>2, <4>3, <4>4
    <3> QED BY <3>5, <3>6 DEF Group, n, c, d
  <2>2. CASE ~ (k <= K)
    <3>1. K * y <= (k - 1) * y
      <4>1. K \in Nat /\ k - 1 \in Nat /\ K <= k - 1
        BY <1>2, <2>2
      <4> QED BY <1>0, <4>1, TimesUp
    <3>2. (k - 1) * y \in Nat /\ k * y \in Nat /\ K * y \in Nat
      <4>1. k - 1 \in Nat /\ \A i \in Nat : i * y \in Nat
        BY <1>0
      <4> QED BY <1>2, <4>1
    <3>3. \A j \in 1 .. n : ~ ((k - 1) * y < j)
      <4>1. PICK c \in Nat : c = (k - 1) * y
        BY <3>2
      <4>2. n <= c
        BY <1>0, <1>2, <3>1, <3>2, <4>1
      <4>3. \A j \in 1 .. n : ~ (c < j)
        BY <1>0, <4>2
      <4> QED BY <4>1, <4>3
    <3> QED BY <3>3 DEF Group, n
  <2> QED BY <2>1, <2>2
<1>11. Grouped(r, t, y)
  <2>1. r \in Seq(Elts) /\ Len(r) = Len(t)
    BY <1>8, <1>9 DEF n
  <2> QED BY <1>10, <2>1 DEF Grouped
<1> QED BY <1>11 DEF r, y

-----------------------------------------------------------------------------
(* The passes *)

Sorts(v, t) ==
  /\ InOrder(v, Earlier(t)) /\ Len(v) = Len(t)
  /\ \A j \in 1 .. Len(t) : \E i \in 1 .. Len(t) : v[j] = t[i]

LEMMA OneGroup ==
  ASSUME NEW t, Distinct(t), NEW v, NEW x \in Nat, Grouped(v, t, x), Len(t) <= x
  PROVE  Sorts(v, t)
<1> DEFINE n == Len(t)
<1>0. n \in Nat /\ v \in Seq(Elts) /\ Len(v) = n
  BY DEF Distinct, Grouped
<1>1. Group(v, t, 0, x)
  <2>1. 1 \in Nat \ {0} /\ (1 - 1) * x = 0 /\ 1 * x = x
    OBVIOUS
  <2>2. Group(v, t, (1 - 1) * x, 1 * x)
    BY <2>1 DEF Grouped
  <2> QED BY <2>1, <2>2
<1>2. \A j \in 1 .. n : 0 < j /\ j <= x
  BY <1>0
<1> QED BY <1>0, <1>1, <1>2 DEF Group, Sorts, InOrder

LEMMA FirstGroups ==
  ASSUME NEW t, Distinct(t)
  PROVE  Grouped(t, t, 1)
<1>0. Len(t) \in Nat /\ t \in Seq(Elts)
  BY DEF Distinct
<1>1. ASSUME NEW k \in Nat \ {0} PROVE Group(t, t, (k - 1) * 1, k * 1)
  <2>1. (k - 1) * 1 = k - 1 /\ k * 1 = k
    OBVIOUS
  <2>2. \A i, j \in 1 .. Len(t) : ~ (k - 1 < i /\ j <= k /\ i < j)
    BY <1>0
  <2> QED BY <2>1, <2>2 DEF Group
<1> QED BY <1>0, <1>1 DEF Grouped

\* Two merges of runs as long as the list would be one too many.
LEMMA LastPassIs ==
  ASSUME NEW t, Len(t) \in Nat \ {0}, NEW x \in Nat \ {0}
  PROVE  /\ Len(t) <= x => List!LastPass(t, x)
         /\ List!LastPass(t, x) => Len(t) <= 2 * x
<1> DEFINE n == Len(t)
           c == List!NMerges(t, x)
           y == 2 * x
<1>1. c \in Nat \ {0} /\ n <= c * y /\ (c - 1) * y < n
  <2>1. PICK m \in Nat \ {0} : Len(t) = m
    OBVIOUS
  <2> QED BY <2>1, NMergesAre
<1>2. List!LastPass(t, x) <=> c <= 1
  BY DEF List!LastPass
<1> HIDE DEF c
<1>3. ASSUME n <= x, ~ (c <= 1) PROVE FALSE
  <2>1. 1 \in Nat /\ c - 1 \in Nat /\ y \in Nat /\ 1 <= c - 1
    BY <1>1, <1>3
  <2> HIDE DEF y
  <2>2. 1 * y <= (c - 1) * y /\ 1 * y = y /\ (c - 1) * y \in Nat
    BY <2>1, TimesUp
  <2>3. y < n
    BY <1>1, <2>1, <2>2
  <2> QED BY <1>3, <2>3 DEF y
<1>4. ASSUME c <= 1 PROVE n <= y
  <2>1. c = 1
    BY <1>1, <1>4
  <2> QED BY <1>1, <2>1
<1> QED BY <1>2, <1>3, <1>4

LEMMA MergeSortIs ==
  ASSUME ListAssumption, NEW t, Distinct(t), Len(t) # 0
  PROVE  Sorts(List!MergeSort(t), t)
<1> DEFINE n == Len(t)
           first == [list |-> t, insize |-> 1]
           Turn(x) == [list |-> List!MergePass(x.list, x.insize), insize |-> 2 * x.insize]
           Body(f, N) == [k \in 0 .. N |-> IF k = 0 THEN first ELSE Turn(f[k - 1])]
           f0 == CHOOSE f : f = Body(f, n)
           Ended(k) == List!LastPass(t, f0[k - 1].insize)
           most == CHOOSE k \in 1 .. n : Ended(k) /\ \A j \in 1 .. k - 1 : ~ Ended(j)
           Is(x, k) == x.insize \in Nat \ {0} /\ k + 1 <= x.insize /\ Grouped(x.list, t, x.insize)
<1>0. n \in Nat \ {0}
  BY DEF Distinct
<1>1. List!MergeSort(t) = f0[most].list
  BY DEF List!MergeSort
<1>2. \A N \in Nat : \E f : f = Body(f, N)
  <2> HIDE DEF Turn, first
  <2> DEFINE Q == { N \in Nat : \E f : f = Body(f, N) }
  <2>1. 0 \in Q
    <3>1. [k \in 0 .. 0 |-> first] = Body([k \in 0 .. 0 |-> first], 0)
      OBVIOUS
    <3> QED BY <3>1
  <2>2. ASSUME NEW N \in Nat, N \in Q PROVE N + 1 \in Q
    <3>1. PICK f : f = Body(f, N)
      BY <2>2
    <3> DEFINE e == [k \in 0 .. N + 1 |-> IF k = N + 1 THEN Turn(f[N]) ELSE f[k]]
    <3>2. \A k \in 0 .. N : f[k] = IF k = 0 THEN first ELSE Turn(f[k - 1])
      BY <3>1
    <3>3. ASSUME NEW k \in 0 .. N + 1
          PROVE  e[k] = IF k = 0 THEN first ELSE Turn(e[k - 1])
      <4>1. CASE k = N + 1
        <5>1. k - 1 = N /\ N \in 0 .. N + 1 /\ N # N + 1 /\ k # 0
          BY <4>1
        <5> QED BY <4>1, <5>1
      <4>2. CASE k # N + 1
        <5>1. k \in 0 .. N /\ (k # 0 => k - 1 \in 0 .. N + 1 /\ k - 1 # N + 1)
          BY <4>2
        <5> QED BY <3>2, <4>2, <5>1
      <4> QED BY <4>1, <4>2
    <3>4. e = Body(e, N + 1)
      BY <3>3
    <3> HIDE DEF e
    <3> QED BY <3>4
  <2> HIDE DEF Q
  <2>3. \A N \in Nat : N \in Q
    BY <2>1, <2>2, Induction
  <2> QED BY <2>3 DEF Q
<1>3. f0 = Body(f0, n)
  <2> HIDE DEF Body, n
  <2> QED BY <1>0, <1>2
<1> HIDE DEF f0
<1>4. \A k \in 0 .. n : f0[k] = IF k = 0 THEN first ELSE Turn(f0[k - 1])
  <2> HIDE DEF Turn, first, n
  <2> QED BY <1>3
<1>5. Is(first, 0)
  BY FirstGroups
<1>6. ASSUME NEW k \in Nat, NEW x, Is(x, k) PROVE Is(Turn(x), k + 1)
  <2>1. PICK s0, z0 : s0 = x.list /\ z0 = x.insize
    OBVIOUS
  <2>2. z0 \in Nat \ {0} /\ k + 1 <= z0 /\ Grouped(s0, t, z0)
    BY <1>6, <2>1
  <2>3. Grouped(List!MergePass(s0, z0), t, 2 * z0)
    BY <2>2, PassGroups
  <2>4. 2 * z0 \in Nat \ {0} /\ k + 1 + 1 <= 2 * z0
    BY <2>2
  <2> QED BY <2>1, <2>3, <2>4
<1> HIDE DEF Is, Turn, first, n
<1>7. \A k \in Nat : k <= n => Is(f0[k], k)
  <2> DEFINE Q == { k \in Nat : k <= n => Is(f0[k], k) }
  <2>1. 0 \in Q
    BY <1>0, <1>4, <1>5
  <2>2. ASSUME NEW k \in Nat, k \in Q PROVE k + 1 \in Q
    <3> SUFFICES ASSUME k + 1 <= n PROVE Is(f0[k + 1], k + 1)
      OBVIOUS
    <3>1. k + 1 \in 0 .. n /\ k + 1 - 1 = k /\ k <= n /\ k + 1 # 0
      BY <1>0
    <3>2. Is(f0[k], k)
      BY <2>2, <3>1
    <3>3. f0[k + 1] = Turn(f0[k])
      BY <1>4, <3>1
    <3> QED BY <1>6, <3>2, <3>3
  <2> HIDE DEF Q
  <2>3. \A k \in Nat : k \in Q
    BY <2>1, <2>2, Induction
  <2> QED BY <2>3 DEF Q
<1>8. \A k \in 0 .. n : f0[k].insize \in Nat \ {0} /\ k + 1 <= f0[k].insize
                          /\ Grouped(f0[k].list, t, f0[k].insize)
  BY <1>0, <1>7 DEF Is
<1>9. \A k \in 1 .. n : f0[k].insize = 2 * f0[k - 1].insize
  <2>1. \A x : Turn(x).insize = 2 * x.insize
    BY DEF Turn
  <2>2. \A k \in 1 .. n : k \in 0 .. n /\ k # 0
    BY <1>0
  <2>3. \A k \in 1 .. n : f0[k] = Turn(f0[k - 1])
    BY <1>4, <2>2
  <2> QED BY <2>1, <2>3
<1>10. most \in 1 .. n /\ Ended(most)
  <2> DEFINE T == { k \in 1 .. n : Ended(k) }
  <2>1. n \in T
    <3>1. f0[n - 1].insize \in Nat \ {0} /\ n - 1 + 1 <= f0[n - 1].insize
      BY <1>0, <1>8
    <3>2. List!LastPass(t, f0[n - 1].insize)
      BY <1>0, <3>1, LastPassIs DEF n
    <3> QED BY <1>0, <3>2
  <2>2. T \in SUBSET Nat
    BY <1>0
  <2>3. PICK k \in T : \A j \in T : k <= j
    <3> HIDE DEF T
    <3> QED BY <2>1, <2>2, LeastNatural
  <2>4. k \in 1 .. n /\ Ended(k)
    OBVIOUS
  <2>5. \A j \in 1 .. k - 1 : ~ Ended(j)
    BY <1>0, <2>3, <2>4
  <2> HIDE DEF Ended
  <2> QED BY <2>4, <2>5
<1> HIDE DEF most
<1>11. n <= f0[most].insize
  <2>1. f0[most - 1].insize \in Nat \ {0}
    BY <1>0, <1>8, <1>10
  <2>2. n <= 2 * f0[most - 1].insize
    BY <1>0, <1>10, <2>1, LastPassIs DEF n
  <2> QED BY <1>9, <1>10, <2>2
<1>12. Sorts(f0[most].list, t)
  <2>1. most \in 0 .. n
    BY <1>0, <1>10
  <2>2. PICK x, y : x = f0[most].insize /\ y = f0[most].list
    OBVIOUS
  <2>3. x \in Nat /\ Grouped(y, t, x) /\ Len(t) <= x
    BY <1>8, <1>11, <2>1, <2>2 DEF n
  <2> QED BY <2>2, <2>3, OneGroup
<1> QED BY <1>1, <1>12

-----------------------------------------------------------------------------
(* The order that a sort makes is the one *)

LEMMA SortsPermute ==
  ASSUME ListAssumption, NEW t, Distinct(t), NEW v, Sorts(v, t)
  PROVE  Permutes(v, t)
<1>0. /\ v \in Seq(Elts) /\ Len(v) = Len(t) /\ Len(t) \in Nat
      /\ \A j, k \in 1 .. Len(t) : j < k => <<v[j], v[k]>> \in Earlier(t)
      /\ \A j \in 1 .. Len(t) : \E i \in 1 .. Len(t) : v[j] = t[i]
  BY DEF Sorts, InOrder, Distinct
<1>1. ASSUME NEW j \in 1 .. Len(t), NEW k \in 1 .. Len(t), j < k PROVE v[j] # v[k]
  <2>1. PICK i \in 1 .. Len(t) : v[j] = t[i]
    BY <1>0
  <2>2. ~ Precedes(t, i, i)
    BY EarlierOrders
  <2>3. <<t[i], t[i]>> \notin Earlier(t)
    BY <2>2, EarlierIs
  <2> QED BY <1>0, <1>1, <2>1, <2>3
<1>2. \A j, k \in 1 .. Len(t) : v[j] = v[k] => j = k
  <2> SUFFICES ASSUME NEW j \in 1 .. Len(t), NEW k \in 1 .. Len(t), v[j] = v[k], j # k PROVE FALSE
    OBVIOUS
  <2>1. j < k \/ k < j
    BY <1>0
  <2> QED BY <1>1, <2>1
<1> QED BY <1>0, <1>2 DEF Permutes

LEMMA OrderCardinality ==
  ASSUME NEW S
  PROVE  List!Order!Cardinality(S) = Cardinality(S)
BY DEF List!Order!Cardinality, Cardinality, List!Order!IsFiniteSet, IsFiniteSet

Place(t, j) == 1 + Cardinality({ i \in 1 .. Len(t) : Precedes(t, i, j) })

\* Where each of v was in t.
CameFrom(v, t, from) ==
  /\ from \in [1 .. Len(t) -> 1 .. Len(t)] /\ \A m \in 1 .. Len(t) : v[m] = t[from[m]]
  /\ \A m, k \in 1 .. Len(t) : from[m] = from[k] => m = k
  /\ \A i \in 1 .. Len(t) : \E m \in 1 .. Len(t) : from[m] = i
  /\ \A m, k \in 1 .. Len(t) : Precedes(t, from[m], from[k]) <=> m < k

LEMMA SortsFrom ==
  ASSUME ListAssumption, NEW t, Distinct(t), NEW v, Sorts(v, t)
  PROVE  \E from : CameFrom(v, t, from)
<1> DEFINE n == Len(t)
           S == 1 .. n
           from == [m \in S |-> CHOOSE i \in S : v[m] = t[i]]
<1>0. n \in Nat /\ \A i, j \in S : t[i] = t[j] => i = j
  BY DEF Distinct
<1>1. /\ \A j, k \in S : j < k => <<v[j], v[k]>> \in Earlier(t)
      /\ \A j \in S : \E i \in S : v[j] = t[i]
  BY DEF Sorts, InOrder
<1>2. \A j, k \in S : v[j] = v[k] => j = k
  BY SortsPermute DEF Permutes
<1>3. \A m \in S : from[m] \in S /\ v[m] = t[from[m]]
  BY <1>1
<1>4. from \in [S -> S] /\ \A m, k \in S : from[m] = from[k] => m = k
  <2>1. from \in [S -> S]
    BY <1>3
  <2> HIDE DEF from, S
  <2> QED BY <1>2, <1>3, <2>1
<1>5. IsFiniteSet(S)
  <2>1. 1 \in Int /\ n \in Int
    BY <1>0
  <2> HIDE DEF n
  <2> QED BY <2>1, FS_Interval
<1> HIDE DEF from, S
<1>6. \A i \in S : \E m \in S : from[m] = i
  <2>1. from \in Injection(S, S)
    BY <1>4 DEF Injection, IsInjective
  <2>2. from \in Surjection(S, S)
    BY <1>5, <2>1, FS_Injection
  <2> QED BY <2>2 DEF Surjection
<1>7. ASSUME NEW m \in S, NEW k \in S PROVE Precedes(t, from[m], from[k]) <=> m < k
  <2>0. m \in Nat /\ k \in Nat /\ from[m] \in S /\ from[k] \in S /\ v[m] = t[from[m]] /\ v[k] = t[from[k]]
    BY <1>0, <1>3 DEF S
  <2>1. m < k => Precedes(t, from[m], from[k])
    BY <1>1, <2>0, EarlierIs DEF S, n
  <2>2. k < m => Precedes(t, from[k], from[m])
    BY <1>1, <2>0, EarlierIs DEF S, n
  <2>3. Precedes(t, from[k], from[m]) => ~ Precedes(t, from[m], from[k])
    BY <2>0, EarlierOrders DEF S, n
  <2>4. ~ Precedes(t, from[m], from[m])
    BY <2>0, EarlierOrders DEF S, n
  <2>5. m < k \/ k < m \/ m = k
    BY <2>0
  <2> QED BY <2>0, <2>1, <2>2, <2>3, <2>4, <2>5
<1> QED BY <1>3, <1>4, <1>6, <1>7 DEF CameFrom, S, n

LEMMA PlaceIs ==
  ASSUME NEW t, Len(t) \in Nat, NEW v, NEW from, CameFrom(v, t, from), NEW m \in 1 .. Len(t)
  PROVE  Place(t, from[m]) = m
<1> DEFINE S == 1 .. Len(t)
           A == 1 .. m - 1
           C == { i \in S : Precedes(t, i, from[m]) }
           f == [k \in A |-> from[k]]
<1>0. /\ from \in [S -> S]
      /\ \A i, k \in S : from[i] = from[k] => i = k
      /\ \A i \in S : \E k \in S : from[k] = i
      /\ \A i, k \in S : Precedes(t, from[i], from[k]) <=> i < k
  BY DEF CameFrom
<1>1. A \subseteq S /\ m \in S /\ \A k \in S : (k \in A <=> k < m)
  OBVIOUS
<1>2. IsFiniteSet(A) /\ Cardinality(A) = m - 1
  <2>1. 1 \in Int /\ m - 1 \in Int /\ m \in Nat \ {0}
    OBVIOUS
  <2> DEFINE e == m - 1
  <2>2. e \in Int /\ e >= 0
    BY <2>1
  <2> HIDE DEF e
  <2>3. IsFiniteSet(1 .. e) /\ Cardinality(1 .. e) = IF 1 > e THEN 0 ELSE e - 1 + 1
    BY <2>1, <2>2, FS_Interval
  <2> QED BY <2>2, <2>3 DEF e
<1> HIDE DEF S, A
<1>3. f \in [A -> C]
  BY <1>0, <1>1
<1>4. \A i, k \in A : f[i] = f[k] => i = k
  BY <1>0, <1>1
<1>5. \A i \in C : \E k \in A : f[k] = i
  BY <1>0, <1>1
<1> HIDE DEF f, C
<1>6. f \in Bijection(A, C)
  BY <1>3, <1>4, <1>5 DEF Bijection, Injection, Surjection, IsInjective
<1>7. Cardinality(C) = Cardinality(A)
  <2>1. ExistsBijection(A, C)
    BY <1>6 DEF ExistsBijection
  <2> QED BY <1>2, <2>1, FS_Bijection
<1>8. Place(t, from[m]) = 1 + Cardinality(C)
  BY DEF Place, C, S
<1>9. 1 + (m - 1) = m
  OBVIOUS
<1> QED BY <1>2, <1>7, <1>8, <1>9

LEMMA SortedIs ==
  ASSUME ListAssumption, NEW t, Distinct(t), NEW v, Sorts(v, t)
  PROVE  List!Order!Sorted(t) = v
<1> DEFINE S == 1 .. Len(t)
           r == List!Order!Sorted(t)
           Q(j) == 1 + List!Order!Cardinality({ i \in S : Precedes(t, i, j) })
<1>0. Len(t) \in Nat /\ DOMAIN t = S /\ v \in Seq(Elts) /\ Len(v) = Len(t)
  BY LenProperties DEF Distinct, Sorts, InOrder
<1>1. PICK from : CameFrom(v, t, from)
  BY SortsFrom
<1>2. r = [m \in S |-> t[CHOOSE j \in S : Q(j) = m]]
  BY <1>0 DEF List!Order!Sorted, Precedes
<1>3. \A j : Q(j) = Place(t, j)
  BY OrderCardinality DEF Place
<1> HIDE DEF Q
<1>4. ASSUME NEW m \in S PROVE r[m] = v[m]
  <2>1. from[m] \in S /\ Place(t, from[m]) = m /\ v[m] = t[from[m]]
    <3>1. from[m] \in S /\ v[m] = t[from[m]]
      BY <1>1 DEF CameFrom
    <3>2. Place(t, from[m]) = m
      BY <1>0, <1>1, PlaceIs
    <3> QED BY <3>1, <3>2
  <2>2. ASSUME NEW j \in S, Place(t, j) = m PROVE j = from[m]
    <3>1. PICK k \in S : from[k] = j
      BY <1>1 DEF CameFrom
    <3>2. Place(t, j) = k
      BY <1>0, <1>1, <3>1, PlaceIs
    <3> QED BY <2>2, <3>1, <3>2
  <2> HIDE DEF S, r
  <2>3. (CHOOSE j \in S : Q(j) = m) = from[m]
    BY <1>3, <2>1, <2>2
  <2> QED BY <1>2, <2>1, <2>3
<1>5. DOMAIN v = S /\ v = [m \in S |-> v[m]]
  BY <1>0, LenProperties
<1>6. r = [m \in S |-> r[m]]
  BY <1>2
<1> HIDE DEF S, r
<1>7. r = v
  BY <1>4, <1>5, <1>6
<1> QED BY <1>7 DEF r

LEMMA OrderSorts ==
  ASSUME ListAssumption, NEW ord \in Orders, NEW h \in Heads
  PROVE  SortsInto(List!Order!Sorted(ord[h]), ord[h])
<1> DEFINE t == ord[h]
<1>0. Distinct(t) /\ Len(t) \in Nat /\ t \in Seq(Elts)
  BY DistinctIn, OrderIs
<1> HIDE DEF t
<1>1. CASE Len(t) = 0
  <2>1. Sorts(t, t)
    BY <1>0, <1>1 DEF Sorts, InOrder
  <2>2. List!Order!Sorted(t) = t /\ Permutes(t, t)
    BY <1>0, <2>1, SortedIs, SortsPermute
  <2> QED BY <1>1, <2>2 DEF SortsInto, t
<1>2. CASE Len(t) # 0
  <2> DEFINE v == List!MergeSort(t)
  <2>1. Sorts(v, t)
    BY <1>0, <1>2, MergeSortIs
  <2> HIDE DEF v
  <2>2. List!Order!Sorted(t) = v /\ Permutes(v, t)
    BY <1>0, <2>1, SortedIs, SortsPermute
  <2> QED BY <2>2 DEF SortsInto, v, t
<1> QED BY <1>1, <1>2

-----------------------------------------------------------------------------
(* Every step of the client *)

\* The steps of OrderedLists.
OrderMoves(ord, o) ==
  \/ \E h \in Heads, e \in Elts : \E i \in 1 .. Len(ord[h]) + 1 :
       Outside(ord, e) /\ o = Inserted(ord, h, i, e)
  \/ \E h \in Heads, e \in Elts : \E i \in 1 .. Len(ord[h]) :
       Outside(ord, e) /\ o = Replaced(ord, h, i, e)
  \/ \E h \in Heads : \E i \in 1 .. Len(ord[h]) : o = Removed(ord, h, i)
  \/ \E h, g \in Heads : h # g /\ o = Joined(ord, h, g)
  \/ \E h \in Heads : o = [ord EXCEPT ![h] = List!Order!Sorted(ord[h])]

HoldNext(o) == LLIs(ll', o) /\ DLIs(dl', o) /\ CDLIs(cdl', o)
Moves(ord) == \E o \in Orders : HoldNext(o) /\ OrderMoves(ord, o)

LEMMA MembersAre ==
  ASSUME StackAssumption, NEW ord \in Orders, Hold(ord)
  PROVE  /\ \A e : List!Free(e) <=> Outside(ord, e)
         /\ \A h \in Heads : \A e : List!In(h, e) => \E i \in 1 .. Len(ord[h]) : e = ord[h][i]
<1>1. \A h \in Heads : List!LL_FOREACH(ll, h) = ord[h] /\ DOMAIN ord[h] = 1 .. Len(ord[h])
  BY WalksAre, OrderIs, LenProperties DEF Hold
<1>2. \A h \in Heads : \A e : e \in List!ToSet(List!LL_FOREACH(ll, h)) <=>
                            \E i \in 1 .. Len(ord[h]) : ord[h][i] = e
  BY <1>1 DEF List!ToSet
<1>3. \A e : List!Free(e) <=> Outside(ord, e)
  BY <1>2 DEF List!Free, Outside
<1>4. \A h \in Heads : \A e : List!In(h, e) => \E i \in 1 .. Len(ord[h]) : e = ord[h][i]
  BY <1>2 DEF List!In
<1> QED BY <1>3, <1>4

LEMMA MovesInserted ==
  ASSUME NEW ord \in Orders, NEW h \in Heads, NEW i \in 1 .. Len(ord[h]) + 1, NEW e \in Elts,
         Outside(ord, e), HoldNext(Inserted(ord, h, i, e))
  PROVE  Moves(ord)
<1>1. Inserted(ord, h, i, e) \in Orders
  BY InsertedOrder
<1>2. OrderMoves(ord, Inserted(ord, h, i, e))
  BY DEF OrderMoves
<1> QED BY <1>1, <1>2 DEF Moves

LEMMA ReplacedOutside ==
  ASSUME NEW ord \in Orders, NEW h \in Heads, NEW i \in 1 .. Len(ord[h]),
         NEW e \in Elts, Outside(ord, e)
  PROVE  Outside(Replaced(ord, h, i, e), ord[h][i]) /\ ord[h][i] \in Elts
<1> DEFINE t == ord[h]
           v == [t EXCEPT ![i] = e]
           o == Replaced(ord, h, i, e)
<1>0. /\ t \in Seq(Elts) /\ t[i] \in Elts /\ t[i] # e /\ \A j, k \in 1 .. Len(t) : t[j] = t[k] => j = k
  BY OrderIs DEF Outside
<1>1. o[h] = v /\ \A g \in Heads : g # h => o[g] = ord[g]
  BY NewOrderIs DEF Replaced
<1>2. Len(v) = Len(t) /\ \A j \in 1 .. Len(t) : v[j] = IF j = i THEN e ELSE t[j]
  BY <1>0
<1> HIDE DEF o, v
<1>3. \A j \in 1 .. Len(v) : v[j] # t[i]
  BY <1>0, <1>2
<1>4. ASSUME NEW g \in Heads, NEW j \in 1 .. Len(o[g]) PROVE o[g][j] # t[i]
  <2>1. CASE g = h
    BY <1>1, <1>3, <1>4, <2>1
  <2>2. CASE g # h
    <3>1. o[g] = ord[g] /\ j \in 1 .. Len(ord[g])
      BY <1>1, <1>4, <2>2
    <3>2. ord[g][j] = ord[h][i] => g = h
      BY <3>1 DEF Orders, Separate
    <3> QED BY <2>2, <3>1, <3>2
  <2> QED BY <2>1, <2>2
<1> QED BY <1>0, <1>4 DEF Outside, o

LEMMA ClientEnters ==
  ASSUME StackAssumption, NEW ord \in Orders, Hold(ord), NEW h \in Heads, NEW e \in Elts,
         List!Prepend(h, e) \/ List!AppendTo(h, e) \/ List!InsertInorder(h, e)
  PROVE  Moves(ord)
<1>0. LLIs(ll, ord) /\ DLIs(dl, ord) /\ CDLIs(cdl, ord)
  BY DEF Hold
<1>1. Outside(ord, e)
  BY MembersAre DEF List!Prepend, List!AppendTo, List!InsertInorder
<1>2. 1 \in 1 .. Len(ord[h]) + 1 /\ Len(ord[h]) + 1 \in 1 .. Len(ord[h]) + 1
  BY OrderIs
<1>3. CASE List!Prepend(h, e)
  <2>1. HoldNext(Inserted(ord, h, 1, e))
    BY <1>0, <1>1, <1>3, LLPrepends, DLPrepends, CDLEnters DEF HoldNext, List!Prepend
  <2> QED BY <1>1, <1>2, <2>1, MovesInserted
<1>4. CASE List!AppendTo(h, e)
  <2> DEFINE i == Len(ord[h]) + 1
  <2>1. HoldNext(Inserted(ord, h, i, e))
    BY <1>0, <1>1, <1>4, LLAppends, DLAppends, CDLEnters DEF HoldNext, List!AppendTo
  <2>2. i \in 1 .. Len(ord[h]) + 1
    BY <1>2
  <2> HIDE DEF i
  <2> QED BY <1>1, <2>1, <2>2, MovesInserted
<1>5. CASE List!InsertInorder(h, e)
  <2>1. PICK i \in 1 .. Len(ord[h]) + 1 :
           /\ LLIs(List!LL_INSERT_INORDER(ll, h, e), Inserted(ord, h, i, e))
           /\ DLIs(List!DL_INSERT_INORDER(dl, h, e), Inserted(ord, h, i, e))
           /\ CDLIs(List!CDL_INSERT_INORDER(cdl, h, e), Inserted(ord, h, i, e))
    BY <1>0, <1>1, InsertsInorder
  <2>2. HoldNext(Inserted(ord, h, i, e))
    BY <1>5, <2>1 DEF HoldNext, List!InsertInorder
  <2> QED BY <1>1, <2>2, MovesInserted
<1> QED BY <1>3, <1>4, <1>5

LEMMA ClientEntersBy ==
  ASSUME StackAssumption, NEW ord \in Orders, Hold(ord), NEW h \in Heads, NEW e \in Elts, NEW at,
         List!PrependElem(h, at, e) \/ List!AppendElem(h, at, e)
  PROVE  Moves(ord)
<1>0. LLIs(ll, ord) /\ DLIs(dl, ord) /\ CDLIs(cdl, ord)
  BY DEF Hold
<1>1. Outside(ord, e) /\ (at = NULL \/ List!In(h, at))
  BY MembersAre DEF List!PrependElem, List!AppendElem
<1>2. Len(ord[h]) \in Nat /\ \A j \in 1 .. Len(ord[h]) : ord[h][j] \in Elts
  BY OrderIs
<1>3. CASE at = NULL
  <2>1. CASE List!PrependElem(h, at, e)
    <3> DEFINE i == Len(ord[h]) + 1
    <3>1. /\ List!LL_PREPEND_ELEM(ll, h, at, e) = List!LL_APPEND(ll, h, e)
          /\ List!DL_PREPEND_ELEM(dl, h, at, e) = List!DL_APPEND(dl, h, e)
          /\ List!CDL_PREPEND_ELEM(cdl, h, at, e) = List!CDL_APPEND(cdl, h, e)
      BY <1>3 DEF List!LL_PREPEND_ELEM, List!DL_PREPEND_ELEM, List!CDL_PREPEND_ELEM
    <3>2. HoldNext(Inserted(ord, h, i, e))
      BY <1>0, <1>1, <2>1, <3>1, LLAppends, DLAppends, CDLEnters DEF HoldNext, List!PrependElem
    <3>3. i \in 1 .. Len(ord[h]) + 1
      BY <1>2
    <3> HIDE DEF i
    <3> QED BY <1>1, <3>2, <3>3, MovesInserted
  <2>2. CASE List!AppendElem(h, at, e)
    <3>1. /\ List!LL_APPEND_ELEM(ll, h, at, e) = List!LL_PREPEND(ll, h, e)
          /\ List!DL_APPEND_ELEM(dl, h, at, e) = List!DL_PREPEND(dl, h, e)
          /\ List!CDL_APPEND_ELEM(cdl, h, at, e) = List!CDL_PREPEND(cdl, h, e)
      BY <1>3 DEF List!LL_APPEND_ELEM, List!DL_APPEND_ELEM, List!CDL_APPEND_ELEM
    <3>2. HoldNext(Inserted(ord, h, 1, e))
      BY <1>0, <1>1, <2>2, <3>1, LLPrepends, DLPrepends, CDLEnters DEF HoldNext, List!AppendElem
    <3>3. 1 \in 1 .. Len(ord[h]) + 1
      BY <1>2
    <3> QED BY <1>1, <3>2, <3>3, MovesInserted
  <2> QED BY <2>1, <2>2
<1>4. CASE List!In(h, at)
  <2>1. PICK i \in 1 .. Len(ord[h]) : at = ord[h][i]
    BY <1>4, MembersAre
  <2>2. i \in 1 .. Len(ord[h]) + 1 /\ i + 1 \in 1 .. Len(ord[h]) + 1
    BY <1>2
  <2>3. CASE List!PrependElem(h, at, e)
    <3>1. HoldNext(Inserted(ord, h, i, e))
      BY <1>0, <1>1, <2>1, <2>3, LLPrependsElem, DLPrependsElem, CDLEntersElem
         DEF HoldNext, List!PrependElem
    <3> QED BY <1>1, <2>2, <3>1, MovesInserted
  <2>4. CASE List!AppendElem(h, at, e)
    <3> DEFINE k == i + 1
    <3>1. HoldNext(Inserted(ord, h, k, e))
      BY <1>0, <1>1, <2>1, <2>4, LLAppendsElem, DLAppendsElem, CDLEntersElem
         DEF HoldNext, List!AppendElem
    <3>2. k \in 1 .. Len(ord[h]) + 1
      BY <2>2
    <3> HIDE DEF k
    <3> QED BY <1>1, <3>1, <3>2, MovesInserted
  <2> QED BY <2>3, <2>4
<1> QED BY <1>1, <1>3, <1>4

LEMMA ClientReplaces ==
  ASSUME StackAssumption, NEW ord \in Orders, Hold(ord), NEW h \in Heads, NEW e \in Elts, NEW at,
         List!ReplaceElem(h, at, e)
  PROVE  Moves(ord)
<1>0. LLIs(ll, ord) /\ DLIs(dl, ord) /\ CDLIs(cdl, ord)
  BY DEF Hold
<1>1. Outside(ord, e) /\ List!In(h, at)
  BY MembersAre DEF List!ReplaceElem
<1>2. PICK i \in 1 .. Len(ord[h]) : at = ord[h][i]
  BY <1>1, MembersAre
<1> DEFINE o == Replaced(ord, h, i, e)
<1>3. o \in Orders /\ Outside(o, at) /\ at \in Elts
  BY <1>1, <1>2, ReplacedOrder, ReplacedOutside
<1>4. /\ LLIs(List!LL_REPLACE_ELEM(ll, h, at, e), o)
      /\ DLIs(List!DL_REPLACE_ELEM(dl, h, at, e), o)
      /\ CDLIs(List!CDL_REPLACE_ELEM(cdl, h, at, e), o)
  BY <1>0, <1>1, <1>2, LLReplaces, DLReplaces, CDLReplaces
<1>5. OrderMoves(ord, o)
  BY <1>1 DEF OrderMoves
<1> HIDE DEF o
<1>6. HoldNext(o)
  BY <1>3, <1>4, Frees DEF HoldNext, List!ReplaceElem
<1> QED BY <1>3, <1>5, <1>6 DEF Moves

LEMMA DeletedAt ==
  ASSUME StackAssumption, NEW ord \in Orders, Hold(ord), NEW h \in Heads, NEW e \in Elts,
         List!Delete(h, e)
  PROVE  \E i \in 1 .. Len(ord[h]) : /\ e = ord[h][i] /\ Removed(ord, h, i) \in Orders
                                     /\ HoldNext(Removed(ord, h, i))
<1>0. LLIs(ll, ord) /\ DLIs(dl, ord) /\ CDLIs(cdl, ord)
  BY DEF Hold
<1>1. List!In(h, e)
  BY DEF List!Delete
<1>2. PICK i \in 1 .. Len(ord[h]) : e = ord[h][i]
  BY <1>1, MembersAre
<1> DEFINE o == Removed(ord, h, i)
<1>3. o \in Orders /\ Outside(o, e)
  BY <1>2, RemovedOrder
<1>4. /\ LLIs(List!LL_DELETE(ll, h, e), o)
      /\ DLIs(List!DL_DELETE(dl, h, e), o)
      /\ CDLIs(List!CDL_DELETE(cdl, h, e), o)
  BY <1>0, <1>2, LLDeletes, DLDeletes, CDLDeletes
<1> HIDE DEF o
<1>5. HoldNext(o)
  BY <1>3, <1>4, Frees DEF HoldNext, List!Delete
<1> QED BY <1>2, <1>3, <1>5 DEF o

LEMMA ClientDeletes ==
  ASSUME StackAssumption, NEW ord \in Orders, Hold(ord), NEW h \in Heads, NEW e \in Elts,
         List!Delete(h, e)
  PROVE  Moves(ord)
BY DeletedAt DEF Moves, OrderMoves

LEMMA ClientJoins ==
  ASSUME StackAssumption, NEW ord \in Orders, Hold(ord), NEW h \in Heads, NEW g \in Heads,
         List!Concat(h, g)
  PROVE  Moves(ord)
<1>0. LLIs(ll, ord) /\ DLIs(dl, ord) /\ CDLIs(cdl, ord)
  BY DEF Hold
<1>1. h # g
  BY DEF List!Concat
<1>2. Joined(ord, h, g) \in Orders
  BY <1>1, JoinedOrder
<1>3. HoldNext(Joined(ord, h, g))
  BY <1>0, <1>1, LLJoins, DLJoins, CDLMoves DEF HoldNext, List!Concat
<1>4. OrderMoves(ord, Joined(ord, h, g))
  BY <1>1 DEF OrderMoves
<1> QED BY <1>2, <1>3, <1>4 DEF Moves

LEMMA ClientSorts ==
  ASSUME StackAssumption, ListAssumption, NEW ord \in Orders, Hold(ord), NEW h \in Heads,
         List!Sort(h)
  PROVE  Moves(ord)
<1>0. LLIs(ll, ord) /\ DLIs(dl, ord) /\ CDLIs(cdl, ord)
  BY DEF Hold
<1> DEFINE v == List!Order!Sorted(ord[h])
           o == [ord EXCEPT ![h] = v]
<1>1. SortsInto(v, ord[h])
  BY OrderSorts
<1>2. OrderMoves(ord, o)
  BY DEF OrderMoves
<1> HIDE DEF v
<1>3. o \in Orders
  BY <1>1, PermutesIs DEF SortsInto
<1>4. HoldNext(o)
  BY <1>0, <1>1, LLSorts, DLSorts, CDLSorts DEF HoldNext, List!Sort
<1> QED BY <1>2, <1>3, <1>4 DEF Moves

\* Whatever the client does, the three kinds go on holding one order, and it
\* goes as OrderedLists says or stays.
LEMMA ListMoves ==
  ASSUME StackAssumption, ListAssumption, NEW ord \in Orders, Hold(ord),
         [List!Next]_(List!vars)
  PROVE  Moves(ord) \/ HoldNext(ord)
<1>1. ASSUME UNCHANGED List!lists PROVE HoldNext(ord)
  BY <1>1 DEF HoldNext, Hold, List!lists
<1>2. CASE UNCHANGED List!vars
  BY <1>1, <1>2 DEF List!vars, List!lists
<1>3. ASSUME NEW h \in Heads, List!StartWalk(h) PROVE HoldNext(ord)
  BY <1>1, <1>3 DEF List!StartWalk
<1>4. ASSUME List!StepWalk \/ List!EndWalk PROVE HoldNext(ord)
  BY <1>1, <1>4 DEF List!StepWalk, List!EndWalk, List!lists
<1> QED BY <1>2, <1>3, <1>4, ClientEnters, ClientEntersBy, ClientReplaces, ClientDeletes,
           ClientJoins, ClientSorts DEF List!Next

LEMMA ListNext ==
  ASSUME StackAssumption, ListAssumption, ListInv, [List!Next]_(List!vars)
  PROVE  ListInv'
<1>1. PICK ord \in Orders : Hold(ord)
  BY DEF ListInv
<1>2. PICK o \in Orders : HoldNext(o)
  BY <1>1, ListMoves DEF Moves
<1> QED BY <1>2 DEF ListInv, HoldNext, Hold, Orders

\* Nothing in any list.
LEMMA NoListIs ==
  ASSUME List!Init
  PROVE  ListInv /\ \A h \in Heads : List!CDL_FOREACH(cdl, h) = <<>>
<1> DEFINE ord == [h \in Heads |-> <<>>]
<1>1. ord \in Orders /\ \A h \in Heads : ord[h] = <<>> /\ Len(ord[h]) = 0 /\ At(ord[h], 1) = NULL
  BY DEF Orders, Separate, At
<1>2. /\ List!NoLL \in Single /\ List!NoDL \in Double
      /\ \A h \in Heads : List!NoLL.head[h] = NULL /\ List!NoDL.head[h] = NULL
  BY DEF List!NoLL, List!NoDL, List!NoLinks, Single, Double, Linkage, Nodes
<1> HIDE DEF ord
<1>3. LLIs(List!NoLL, ord) /\ DLIs(List!NoDL, ord) /\ CDLIs(List!NoDL, ord)
  BY <1>1, <1>2 DEF LLIs, DLIs, CDLIs, Linked, Onward, Backward
<1>4. Hold(ord)
  BY <1>3 DEF Hold, List!Init
<1>5. \A h \in Heads : List!CDL_FOREACH(cdl, h) = <<>>
  BY <1>1, <1>4, ContainersAssumption, WalksAre DEF Hold
<1> QED BY <1>1, <1>4, <1>5 DEF ListInv

\* The three kinds of list hold the same elements in the same order whatever
\* is done to them, and the links back mirror the links on.
THEOREM ListsAgree == List!Spec => []ListKindsAgree
<1> StackAssumption /\ ListAssumption
  BY ContainersAssumption
<1>1. List!Init => ListInv
  BY NoListIs
<1>2. ListInv /\ [List!Next]_(List!vars) => ListInv'
  BY ListNext
<1>3. ListInv => ListKindsAgree
  BY KindsHold
<1> QED BY <1>1, <1>2, <1>3, PTL DEF List!Spec

LEMMA OrderIsWalked ==
  ASSUME StackAssumption, NEW ord \in Orders, NEW l, CDLIs(l, ord)
  PROVE  [h \in Heads |-> List!CDL_FOREACH(l, h)] = ord
BY WalksAre DEF Orders

\* What moves an order is a step of OrderedLists.
LEMMA OrderNext ==
  ASSUME StackAssumption, ListAssumption, ListInv, [List!Next]_(List!vars)
  PROVE  [List!Order!Next]_([h \in Heads |-> List!CDL_FOREACH(cdl, h)])
<1> DEFINE order == [h \in Heads |-> List!CDL_FOREACH(cdl, h)]
<1>1. PICK ord \in Orders : Hold(ord)
  BY DEF ListInv
<1>2. order = ord
  BY <1>1, OrderIsWalked DEF Hold
<1>3. ASSUME NEW o \in Orders, HoldNext(o) PROVE order' = o
  <2>1. [h \in Heads |-> List!CDL_FOREACH(cdl', h)] = o
    BY <1>3, OrderIsWalked DEF HoldNext
  <2>2. order' = [h \in Heads |-> List!CDL_FOREACH(cdl', h)]
    OBVIOUS
  <2> QED BY <2>1, <2>2
<1>4. CASE HoldNext(ord)
  BY <1>2, <1>3, <1>4
<1>5. ASSUME NEW o \in Orders, HoldNext(o), OrderMoves(ord, o)
      PROVE  List!Order!Next
  <2>1. order' = o
    BY <1>3, <1>5
  <2>2. \A e : Outside(ord, e) => \A g \in Heads : e \notin List!Order!ToSet(ord[g])
    BY OrderIs, LenProperties DEF Outside, List!Order!ToSet
  <2>3. \A h \in Heads : DOMAIN ord[h] = 1 .. Len(ord[h])
    BY OrderIs, LenProperties
  <2>4. ASSUME NEW h \in Heads, NEW e \in Elts, NEW i \in 1 .. Len(ord[h]) + 1,
               Outside(ord, e), o = Inserted(ord, h, i, e)
        PROVE  List!Order!Insert
    <3>1. /\ i \in 1 .. Len(order[h]) + 1
          /\ \A g \in Heads : e \notin List!Order!ToSet(order[g])
          /\ order' = [order EXCEPT ![h] = List!Order!Enter(@, i, e)]
      <4> HIDE DEF order
      <4> QED BY <1>2, <2>1, <2>2, <2>4 DEF Inserted
    <3> QED BY <3>1 DEF List!Order!Insert
  <2>5. ASSUME NEW h \in Heads, NEW e \in Elts, NEW i \in 1 .. Len(ord[h]),
               Outside(ord, e), o = Replaced(ord, h, i, e)
        PROVE  List!Order!Replace
    <3>1. /\ i \in DOMAIN order[h]
          /\ \A g \in Heads : e \notin List!Order!ToSet(order[g])
          /\ order' = [order EXCEPT ![h] = [@ EXCEPT ![i] = e]]
      <4> HIDE DEF order
      <4> QED BY <1>2, <2>1, <2>2, <2>3, <2>5 DEF Replaced
    <3> QED BY <3>1 DEF List!Order!Replace
  <2>6. ASSUME NEW h \in Heads, NEW i \in 1 .. Len(ord[h]), o = Removed(ord, h, i)
        PROVE  List!Order!Delete
    BY <1>2, <2>1, <2>3, <2>6 DEF List!Order!Delete, Removed
  <2>7. ASSUME NEW h \in Heads, NEW g \in Heads, h # g, o = Joined(ord, h, g)
        PROVE  List!Order!Concat
    <3>1. order' = [order EXCEPT ![h] = @ \o order[g], ![g] = <<>>]
      <4> HIDE DEF order
      <4> QED BY <1>2, <2>1, <2>7 DEF Joined, Orders
    <3> QED BY <2>7, <3>1 DEF List!Order!Concat
  <2>8. ASSUME NEW h \in Heads, o = [ord EXCEPT ![h] = List!Order!Sorted(ord[h])]
        PROVE  List!Order!Sort
    BY <1>2, <2>1, <2>8 DEF List!Order!Sort
  <2> QED BY <1>5, <2>4, <2>5, <2>6, <2>7, <2>8 DEF OrderMoves, List!Order!Next
<1> QED BY <1>1, <1>4, <1>5, ListMoves DEF Moves

\* The lists are sequences, one to each head: every macro of all three kinds
\* is one of the operations on them, the sort the stable one.
THEOREM ListsAreOrders == List!Spec => ListImplementsOrder
<1> StackAssumption /\ ListAssumption
  BY ContainersAssumption
<1>1. List!Init => ListInv /\ List!Order!Init
  BY NoListIs DEF List!Order!Init
<1>2. ListInv /\ [List!Next]_(List!vars) => ListInv'
  BY ListNext
<1>3. ListInv /\ [List!Next]_(List!vars)
        => [List!Order!Next]_([h \in Heads |-> List!CDL_FOREACH(cdl, h)])
  BY OrderNext
<1> QED BY <1>1, <1>2, <1>3, PTL DEF List!Spec, ListImplementsOrder, List!ImplementsOrder,
                                     List!Order!Spec

-----------------------------------------------------------------------------
(* Walking a list while its elements are deleted *)

\* t ends with what the walk has still to meet after its m-th element.
Remains(t, m, d) ==
  Len(t) = d + Len(lbegun) - m /\ \A j \in m + 1 .. Len(lbegun) : t[d + j - m] = lbegun[j]

\* The walk is at its m-th element, which may have left the list.
AtStep(t, m, d) ==
  /\ Remains(t, m, d)
  /\ lel.ll = lbegun[m] /\ lel.dl = lbegun[m] /\ lel.cdl = lbegun[m]
  /\ DOMAIN ltmp = List!Kinds
  /\ ltmp.ll = At(lbegun, m + 1) /\ ltmp.dl = At(lbegun, m + 1)
  /\ m < Len(lbegun) => ltmp.cdl = lbegun[m + 1]
  /\ last = lbegun[Len(lbegun)]
  /\ \A k \in List!Kinds : lmet[k] = SubSeq(lbegun, 1, m)

AtEnd == \A k \in List!Kinds : lel[k] = NULL /\ lmet[k] = lbegun

Walking(ord) ==
  IF walk = NULL THEN \A k \in List!Kinds : lmet[k] = <<>>
  ELSE /\ walk \in Heads /\ Distinct(lbegun)
       /\ AtEnd \/ \E m \in 1 .. Len(lbegun), d \in Nat : AtStep(ord[walk], m, d)

ListWalkInv == \E ord \in Orders : Hold(ord) /\ Walking(ord)

LEMMA KindsAre ==
  ASSUME NEW f
  PROVE  (\A k \in List!Kinds : f[k] = NULL) <=> f.ll = NULL /\ f.dl = NULL /\ f.cdl = NULL
BY DEF List!Kinds

LEMMA WalksHold ==
  ASSUME StackAssumption, NEW ord \in Orders, Walking(ord)
  PROVE  List!WalkMeetsAll
<1> SUFFICES ASSUME walk # NULL, NEW k \in List!Kinds
             PROVE  List!IsPrefix(lmet[k], lbegun) /\ (lel[k] = NULL => lmet[k] = lbegun)
  BY DEF List!WalkMeetsAll
<1>0. Distinct(lbegun) /\ Len(lbegun) \in Nat /\ lbegun \in Seq(Elts)
  BY DEF Walking, Distinct
<1>1. CASE AtEnd
  BY <1>0, <1>1 DEF AtEnd, List!IsPrefix
<1>2. ASSUME NEW m \in 1 .. Len(lbegun), NEW d \in Nat, AtStep(ord[walk], m, d)
      PROVE  List!IsPrefix(lmet[k], lbegun) /\ (lel[k] = NULL => lmet[k] = lbegun)
  <2>1. lmet[k] = SubSeq(lbegun, 1, m) /\ lel[k] = lbegun[m]
    BY <1>2 DEF AtStep, List!Kinds
  <2>2. lbegun[m] # NULL
    BY <1>0 DEF Distinct, StackAssumption
  <2>3. Len(SubSeq(lbegun, 1, m)) = m /\ SubSeq(SubSeq(lbegun, 1, m), 1, m) = SubSeq(lbegun, 1, m)
    BY <1>0
  <2> QED BY <1>0, <2>1, <2>2, <2>3 DEF List!IsPrefix
<1> QED BY <1>1, <1>2 DEF Walking

\* Deleting the element the walk is at leaves what is still to meet.
LEMMA RemainsAfter ==
  ASSUME NEW t \in Seq(Elts), NEW i \in 1 .. Len(t), NEW m \in 1 .. Len(lbegun), NEW d \in Nat,
         Distinct(lbegun), Remains(t, m, d), t[i] = lbegun[m]
  PROVE  d - 1 \in Nat /\ Remains(List!Order!RemoveAt(t, i), m, d - 1)
<1> DEFINE v == List!Order!RemoveAt(t, i)
<1>0. /\ Len(lbegun) \in Nat /\ Len(t) = d + Len(lbegun) - m
      /\ \A j \in m + 1 .. Len(lbegun) : t[d + j - m] = lbegun[j]
  BY DEF Distinct, Remains
<1>1. v \in Seq(Elts) /\ Len(v) = Len(t) - 1
      /\ \A j \in 1 .. Len(t) - 1 : v[j] = IF j < i THEN t[j] ELSE t[j + 1]
  BY RemovedIs
<1> HIDE DEF v
<1>2. i <= d
  <2> SUFFICES ASSUME i > d PROVE FALSE
    BY <1>0
  <2> DEFINE j == m + i - d
  <2>1. j \in m + 1 .. Len(lbegun) /\ d + j - m = i /\ j # m
    BY <1>0
  <2> HIDE DEF j
  <2>2. t[d + j - m] = lbegun[j]
    BY <1>0, <2>1
  <2>3. lbegun[j] = lbegun[m]
    BY <2>1, <2>2
  <2>4. j \in 1 .. Len(lbegun)
    BY <1>0, <2>1
  <2> QED BY <2>1, <2>3, <2>4 DEF Distinct
<1>3. ASSUME NEW j \in m + 1 .. Len(lbegun) PROVE v[d - 1 + j - m] = lbegun[j]
  <2> DEFINE k == d - 1 + j - m
  <2>1. k \in 1 .. Len(t) - 1 /\ ~ (k < i) /\ k + 1 = d + j - m
    BY <1>0, <1>2
  <2> HIDE DEF k
  <2>2. v[k] = lbegun[j]
    BY <1>0, <1>1, <2>1
  <2> QED BY <2>2 DEF k
<1>4. Len(v) = d - 1 + Len(lbegun) - m
  BY <1>0, <1>1
<1> QED BY <1>2, <1>3, <1>4 DEF Remains, v

LEMMA NextOfIs ==
  ASSUME NEW e
  PROVE  LET x == List!NextOf(e)
         IN  /\ DOMAIN x = List!Kinds
             /\ x.ll = IF e.ll = NULL THEN NULL ELSE ll.next[e.ll]
             /\ x.dl = IF e.dl = NULL THEN NULL ELSE dl.next[e.dl]
             /\ x.cdl = IF e.cdl = NULL THEN NULL ELSE cdl.next[e.cdl]
BY DEF List!NextOf, List!Kinds

LEMMA WalkStarts ==
  ASSUME StackAssumption, NEW ord \in Orders, Hold(ord), Walking(ord),
         NEW h \in Heads, List!StartWalk(h)
  PROVE  Walking(ord)'
<1> DEFINE t == ord[h]
           x == [ll |-> ll.head[h], dl |-> dl.head[h], cdl |-> cdl.head[h]]
<1>0. /\ walk = NULL /\ walk' = h /\ lel' = x /\ ltmp' = List!NextOf(x) /\ lbegun' = t
      /\ last' = IF cdl.head[h] = NULL THEN NULL ELSE cdl.prev[cdl.head[h]]
      /\ lmet' = [k \in List!Kinds |-> IF x[k] = NULL THEN lmet[k] ELSE Append(lmet[k], x[k])]
      /\ \A k \in List!Kinds : lmet[k] = <<>>
  BY WalksAre DEF List!StartWalk, List!Meet, List!NextOf, Hold, Walking
<1>1. /\ ll.head[h] = At(t, 1) /\ dl.head[h] = At(t, 1) /\ cdl.head[h] = At(t, 1)
      /\ Linked(t, ll.next) /\ Linked(t, dl.next) /\ Onward(t, cdl.next) /\ Backward(t, cdl.prev)
  BY DEF Hold, LLIs, DLIs, CDLIs
<1>2. Distinct(t) /\ Len(t) \in Nat /\ \A j \in 1 .. Len(t) : t[j] \in Elts /\ t[j] # NULL
  BY DistinctIn DEF Distinct, StackAssumption
<1>3. x.ll = At(t, 1) /\ x.dl = At(t, 1) /\ x.cdl = At(t, 1)
      /\ \A k \in List!Kinds : x[k] = At(t, 1)
  BY <1>1 DEF List!Kinds
<1>4. /\ DOMAIN ltmp' = List!Kinds
      /\ ltmp'.ll = IF x.ll = NULL THEN NULL ELSE ll.next[x.ll]
      /\ ltmp'.dl = IF x.dl = NULL THEN NULL ELSE dl.next[x.dl]
      /\ ltmp'.cdl = IF x.cdl = NULL THEN NULL ELSE cdl.next[x.cdl]
  <2> HIDE DEF x
  <2> QED BY <1>0, NextOfIs
<1> HIDE DEF t, x
<1>5. walk' # NULL
  BY <1>0, ContainersAssumption DEF ListAssumption
<1>6. CASE Len(t) = 0
  <2>1. At(t, 1) = NULL /\ t = <<>>
    BY <1>2, <1>6 DEF At, Distinct
  <2>2. AtEnd'
    BY <1>0, <1>3, <2>1 DEF AtEnd
  <2> QED BY <1>0, <1>2, <1>5, <2>2 DEF Walking, Distinct
<1>7. CASE Len(t) # 0
  <2>1. 1 \in 1 .. Len(t) /\ Len(t) \in 1 .. Len(t) /\ At(t, 1) = t[1] /\ t[1] # NULL
    BY <1>2, <1>7 DEF At
  <2>2. ll.next[t[1]] = At(t, 2) /\ dl.next[t[1]] = At(t, 2) /\ cdl.prev[t[1]] = t[Len(t)]
        /\ (1 < Len(t) => cdl.next[t[1]] = t[2])
    BY <1>1, <1>2, <2>1 DEF Linked, Onward, Backward
  <2>3. /\ lel'.ll = t[1] /\ lel'.dl = t[1] /\ lel'.cdl = t[1]
        /\ ltmp'.ll = At(t, 2) /\ ltmp'.dl = At(t, 2) /\ (1 < Len(t) => ltmp'.cdl = t[2])
        /\ last' = t[Len(t)]
    BY <1>0, <1>1, <1>3, <1>4, <2>1, <2>2
  <2>4. \A k \in List!Kinds : lmet'[k] = SubSeq(t, 1, 1)
    <3>1. \A k \in List!Kinds : lmet'[k] = Append(<<>>, t[1])
      BY <1>0, <1>3, <2>1
    <3>2. Append(<<>>, t[1]) = SubSeq(t, 1, 1)
      <4> DEFINE y == SubSeq(t, 1, 1)
                 z == Append(<<>>, t[1])
      <4>1. y \in Seq(Elts) /\ Len(y) = 1 /\ y[1] = t[1]
        BY <1>2, <2>1 DEF Distinct
      <4>2. z \in Seq(Elts) /\ Len(z) = 1 /\ z[1] = t[1]
        BY <1>2, <2>1
      <4> HIDE DEF y, z
      <4>3. y = z
        BY <4>1, <4>2, SeqEqual
      <4> QED BY <4>3 DEF y, z
    <3> QED BY <3>1, <3>2
  <2>5. Len(t) = 1 + Len(t) - 1 /\ \A j \in 1 + 1 .. Len(t) : t[1 + j - 1] = t[j]
    BY <1>2
  <2>6. AtStep(ord[walk], 1, 1)'
    BY <1>0, <1>4, <2>3, <2>4, <2>5 DEF AtStep, Remains, t
  <2> QED BY <1>0, <1>2, <1>5, <2>1, <2>6 DEF Walking
<1> QED BY <1>6, <1>7

LEMMA WalkSteps ==
  ASSUME StackAssumption, NEW ord \in Orders, Hold(ord), Walking(ord), List!StepWalk
  PROVE  Walking(ord)'
<1> DEFINE b == lbegun
           t == ord[walk]
<1>0. /\ walk # NULL /\ walk' = walk /\ lbegun' = lbegun /\ last' = last
      /\ lel' = [ltmp EXCEPT !.cdl = IF lel.cdl = last THEN NULL ELSE ltmp.cdl]
      /\ lmet' = [k \in List!Kinds |-> IF lel'[k] = NULL THEN lmet[k] ELSE Append(lmet[k], lel'[k])]
      /\ ~ AtEnd
  BY DEF List!StepWalk, List!Meet, List!CDL_FOREACH_SAFE, AtEnd
<1>1. ltmp' = List!NextOf(lel')
  BY DEF List!StepWalk, List!NextOf
<1>2. /\ DOMAIN ltmp' = List!Kinds
      /\ ltmp'.ll = IF lel'.ll = NULL THEN NULL ELSE ll.next[lel'.ll]
      /\ ltmp'.dl = IF lel'.dl = NULL THEN NULL ELSE dl.next[lel'.dl]
      /\ ltmp'.cdl = IF lel'.cdl = NULL THEN NULL ELSE cdl.next[lel'.cdl]
  BY <1>1, NextOfIs
<1>3. walk \in Heads /\ Distinct(b)
  BY <1>0 DEF Walking
<1>4. PICK m \in 1 .. Len(b), d \in Nat : AtStep(t, m, d)
  BY <1>0 DEF Walking
<1>5. /\ Linked(t, ll.next) /\ Linked(t, dl.next) /\ Onward(t, cdl.next)
      /\ t \in Seq(Elts) /\ Len(t) \in Nat
  BY <1>3, OrderIs DEF Hold, LLIs, DLIs, CDLIs
<1> HIDE DEF t
<1>6. /\ Len(b) \in Nat /\ b \in Seq(Elts) /\ \A j \in 1 .. Len(b) : b[j] \in Elts /\ b[j] # NULL
      /\ \A j, k \in 1 .. Len(b) : b[j] = b[k] => j = k
  BY <1>3 DEF Distinct, StackAssumption
<1>7. /\ Len(t) = d + Len(b) - m /\ \A j \in m + 1 .. Len(b) : t[d + j - m] = b[j]
      /\ lel.cdl = b[m] /\ DOMAIN ltmp = List!Kinds
      /\ ltmp.ll = At(b, m + 1) /\ ltmp.dl = At(b, m + 1)
      /\ m < Len(b) => ltmp.cdl = b[m + 1]
      /\ last = b[Len(b)]
      /\ \A k \in List!Kinds : lmet[k] = SubSeq(b, 1, m)
  BY <1>4 DEF AtStep, Remains
<1>8. /\ lel'.ll = At(b, m + 1) /\ lel'.dl = At(b, m + 1)
      /\ lel'.cdl = IF b[m] = b[Len(b)] THEN NULL ELSE ltmp.cdl
  BY <1>0, <1>7 DEF List!Kinds
<1>9. CASE m = Len(b)
  <2>1. lel'.ll = NULL /\ lel'.dl = NULL /\ lel'.cdl = NULL
    BY <1>6, <1>8, <1>9 DEF At
  <2>2. \A k \in List!Kinds : lel'[k] = NULL
    BY <2>1, KindsAre
  <2>3. SubSeq(b, 1, m) = b
    BY <1>6, <1>9
  <2>4. AtEnd'
    BY <1>0, <1>7, <2>2, <2>3 DEF AtEnd
  <2> QED BY <1>0, <1>3, <2>4 DEF Walking, Distinct
<1>10. CASE m # Len(b)
  <2>0. Len(t) = d + Len(b) - m
    BY <1>7
  <2>1. m + 1 \in 1 .. Len(b) /\ m < Len(b) /\ At(b, m + 1) = b[m + 1]
        /\ Len(b) \in 1 .. Len(b)
    BY <1>6, <1>10 DEF At
  <2>2. lel'.ll = b[m + 1] /\ lel'.dl = b[m + 1] /\ lel'.cdl = b[m + 1] /\ b[m + 1] # NULL
    BY <1>6, <1>7, <1>8, <1>10, <2>1
  <2>3. \A k \in List!Kinds : lel'[k] = b[m + 1]
    BY <2>2 DEF List!Kinds
  <2>4. \A k \in List!Kinds : lmet'[k] = SubSeq(b, 1, m + 1)
    <3>1. \A k \in List!Kinds : lmet'[k] = Append(SubSeq(b, 1, m), b[m + 1])
      BY <1>0, <1>7, <2>2, <2>3
    <3>2. Append(SubSeq(b, 1, m), b[m + 1]) = SubSeq(b, 1, m + 1)
      BY <1>6, <2>1
    <3> QED BY <3>1, <3>2
  <2>5. t[d + 1] = b[m + 1] /\ d + 1 \in 1 .. Len(t) /\ d + 1 \in Nat
    <3>1. m + 1 \in m + 1 .. Len(b) /\ d + (m + 1) - m = d + 1 /\ d + 1 \in 1 .. Len(t)
      BY <1>6, <2>0, <2>1
    <3> QED BY <1>7, <3>1
  <2>6. At(t, d + 2) = At(b, m + 2) /\ (m + 1 < Len(b) => t[d + 2] = b[m + 2])
    <3>1. CASE m + 1 < Len(b)
      <4> DEFINE j == m + 2
      <4>1. j \in m + 1 .. Len(b) /\ d + j - m = d + 2 /\ d + 2 <= Len(t) /\ j <= Len(b)
        BY <1>6, <2>0, <3>1
      <4> HIDE DEF j
      <4>2. t[d + 2] = b[j]
        BY <1>7, <4>1
      <4> QED BY <4>1, <4>2 DEF At, j
    <3>2. CASE m + 1 = Len(b)
      <4>1. ~ (m + 2 <= Len(b)) /\ ~ (d + 2 <= Len(t))
        BY <1>6, <2>0, <3>2
      <4> QED BY <3>2, <4>1 DEF At
    <3> QED BY <1>6, <2>1, <3>1, <3>2
  <2>7. /\ ll.next[t[d + 1]] = At(t, d + 2) /\ dl.next[t[d + 1]] = At(t, d + 2)
        /\ (m + 1 < Len(b) => cdl.next[t[d + 1]] = t[d + 2])
    <3>1. d + 1 + 1 = d + 2 /\ (m + 1 < Len(b) => d + 1 # Len(t))
      BY <1>6, <2>0
    <3> QED BY <1>5, <2>5, <3>1 DEF Linked, Onward
  <2>8. /\ ltmp'.ll = At(b, m + 2) /\ ltmp'.dl = At(b, m + 2)
        /\ m + 1 < Len(b) => ltmp'.cdl = b[m + 2]
    BY <1>2, <2>2, <2>5, <2>6, <2>7
  <2>9. Len(t) = (d + 1) + Len(b) - (m + 1)
        /\ \A j \in (m + 1) + 1 .. Len(b) : t[(d + 1) + j - (m + 1)] = b[j]
    <3>1. \A j \in (m + 1) + 1 .. Len(b) : j \in m + 1 .. Len(b) /\ (d + 1) + j - (m + 1) = d + j - m
      BY <1>6
    <3>2. Len(t) = (d + 1) + Len(b) - (m + 1)
      BY <1>6, <1>7
    <3> QED BY <1>7, <3>1, <3>2
  <2>10. m + 1 + 1 = m + 2
    OBVIOUS
  <2>11. AtStep(ord[walk], m + 1, d + 1)'
    BY <1>0, <1>2, <1>7, <2>2, <2>4, <2>8, <2>9, <2>10 DEF AtStep, Remains, t
  <2> QED BY <1>0, <1>3, <2>1, <2>5, <2>11 DEF Walking, Distinct
<1> QED BY <1>9, <1>10

LEMMA WalkKept ==
  ASSUME NEW ord \in Orders, Walking(ord), NEW o \in Orders, HoldNext(o),
         UNCHANGED List!walkvars, walk = NULL \/ o = ord
  PROVE  ListWalkInv'
<1>1. /\ walk' = walk /\ lel' = lel /\ ltmp' = ltmp /\ last' = last
      /\ lbegun' = lbegun /\ lmet' = lmet
  BY DEF List!walkvars
<1>2. CASE walk = NULL
  BY <1>1, <1>2 DEF Walking, ListWalkInv, HoldNext, Hold, Orders
<1>3. CASE walk # NULL
  <2>1. o = ord /\ walk \in Heads /\ Distinct(lbegun)
        /\ (AtEnd \/ \E m \in 1 .. Len(lbegun), d \in Nat : AtStep(ord[walk], m, d))
    BY <1>3 DEF Walking
  <2>2. AtEnd => AtEnd'
    BY <1>1 DEF AtEnd
  <2>3. (\E m \in 1 .. Len(lbegun), d \in Nat : AtStep(ord[walk], m, d))
        => (\E m \in 1 .. Len(lbegun), d \in Nat : AtStep(ord[walk], m, d))'
    BY <1>1 DEF AtStep, Remains
  <2>4. Walking(ord)'
    BY <1>1, <1>3, <2>1, <2>2, <2>3 DEF Walking, Distinct
  <2> QED BY <2>1, <2>4 DEF ListWalkInv, HoldNext, Hold, Orders
<1> QED BY <1>2, <1>3

LEMMA WalkDeletes ==
  ASSUME StackAssumption, NEW ord \in Orders, Hold(ord), Walking(ord),
         NEW h \in Heads, NEW e \in Elts, List!Delete(h, e)
  PROVE  ListWalkInv'
<1>1. PICK i \in 1 .. Len(ord[h]) : /\ e = ord[h][i] /\ Removed(ord, h, i) \in Orders
                                    /\ HoldNext(Removed(ord, h, i))
  BY DeletedAt
<1> DEFINE o == Removed(ord, h, i)
<1>2. UNCHANGED List!walkvars /\ (walk # NULL => walk = h /\ \A k \in List!Kinds : lel[k] = e)
  BY DEF List!Delete
<1>3. CASE walk = NULL
  BY <1>1, <1>2, <1>3, WalkKept
<1>4. CASE walk # NULL
  <2>1. /\ walk' = walk /\ lel' = lel /\ ltmp' = ltmp /\ last' = last
        /\ lbegun' = lbegun /\ lmet' = lmet
    BY <1>2 DEF List!walkvars
  <2>2. walk = h /\ Distinct(lbegun) /\ ~ AtEnd
    <3>1. "ll" \in List!Kinds
      BY DEF List!Kinds
    <3> QED BY <1>2, <1>4, <3>1 DEF Walking, AtEnd, StackAssumption
  <2>3. PICK m \in 1 .. Len(lbegun), d \in Nat : AtStep(ord[h], m, d)
    BY <1>4, <2>2 DEF Walking
  <2>4. ord[h][i] = lbegun[m] /\ Remains(ord[h], m, d) /\ ord[h] \in Seq(Elts)
    BY <1>1, <1>2, <1>4, <2>3, OrderIs DEF AtStep, List!Kinds
  <2>5. o[h] = List!Order!RemoveAt(ord[h], i)
    <3> DEFINE v == List!Order!RemoveAt(ord[h], i)
    <3>1. o = [ord EXCEPT ![h] = v]
      BY DEF Removed
    <3> HIDE DEF o, v
    <3>2. o[h] = v
      BY <3>1, NewOrderIs
    <3> QED BY <3>2 DEF v
  <2>6. d - 1 \in Nat /\ Remains(o[h], m, d - 1)
    BY <2>2, <2>4, <2>5, RemainsAfter
  <2> HIDE DEF o
  <2>7. AtStep(o[h], m, d - 1)
    BY <2>3, <2>6 DEF AtStep
  <2>8. (\E n \in 1 .. Len(lbegun), c \in Nat : AtStep(o[walk], n, c))'
    BY <2>1, <2>2, <2>6, <2>7 DEF AtStep, Remains
  <2>9. Walking(o)'
    BY <1>4, <2>1, <2>2, <2>8 DEF Walking, Distinct
  <2> QED BY <1>1, <2>9 DEF ListWalkInv, HoldNext, Hold, Orders, o
<1> QED BY <1>3, <1>4

LEMMA ListWalkNext ==
  ASSUME StackAssumption, ListAssumption, ListWalkInv, [List!Next]_(List!vars)
  PROVE  ListWalkInv'
<1>1. PICK ord \in Orders : Hold(ord) /\ Walking(ord)
  BY DEF ListWalkInv
<1>2. PICK o \in Orders : HoldNext(o)
  BY <1>1, ListMoves DEF Moves
<1>3. ASSUME walk = NULL, UNCHANGED List!walkvars PROVE ListWalkInv'
  BY <1>1, <1>2, <1>3, WalkKept
<1>4. ASSUME UNCHANGED List!lists, Walking(ord)' PROVE ListWalkInv'
  BY <1>1, <1>4 DEF ListWalkInv, List!lists, Hold, Orders
<1>5. CASE UNCHANGED List!vars
  <2>1. UNCHANGED List!lists /\ UNCHANGED List!walkvars /\ HoldNext(ord)
    BY <1>1, <1>5 DEF List!vars, List!lists, List!walkvars, HoldNext, Hold
  <2> QED BY <1>1, <2>1, WalkKept
<1>6. ASSUME NEW h \in Heads, List!StartWalk(h) PROVE ListWalkInv'
  <2>1. UNCHANGED List!lists
    BY <1>6 DEF List!StartWalk
  <2> QED BY <1>1, <1>4, <1>6, <2>1, WalkStarts
<1>7. CASE List!StepWalk
  <2>1. UNCHANGED List!lists
    BY <1>7 DEF List!StepWalk, List!lists
  <2> QED BY <1>1, <1>4, <1>7, <2>1, WalkSteps
<1>8. CASE List!EndWalk
  <2>1. UNCHANGED List!lists /\ walk' = NULL /\ lmet' = [k \in List!Kinds |-> <<>>]
    BY <1>8 DEF List!EndWalk
  <2>2. Walking(ord)'
    BY <2>1 DEF Walking
  <2> QED BY <1>4, <2>1, <2>2
<1>9. ASSUME NEW h \in Heads, NEW e \in Elts, List!Delete(h, e) PROVE ListWalkInv'
  BY <1>1, <1>9, WalkDeletes
<1>10. ASSUME NEW h \in Heads, NEW e \in Elts,
              \/ List!Prepend(h, e) \/ List!AppendTo(h, e) \/ List!InsertInorder(h, e)
              \/ \E at \in List!Pointer : List!PrependElem(h, at, e) \/ List!AppendElem(h, at, e)
              \/ \E at \in Elts : List!ReplaceElem(h, at, e)
       PROVE  ListWalkInv'
  BY <1>3, <1>10 DEF List!Prepend, List!AppendTo, List!InsertInorder, List!PrependElem,
                     List!AppendElem, List!ReplaceElem
<1>11. ASSUME NEW h \in Heads, List!Sort(h) \/ \E g \in Heads : List!Concat(h, g)
       PROVE  ListWalkInv'
  BY <1>3, <1>11 DEF List!Sort, List!Concat
<1> QED BY <1>5, <1>6, <1>7, <1>8, <1>9, <1>10, <1>11 DEF List!Next

LEMMA NoWalkIs == ASSUME List!Init PROVE ListWalkInv
<1>1. PICK ord \in Orders : Hold(ord)
  BY NoListIs DEF ListInv
<1>2. Walking(ord)
  BY DEF List!Init, Walking
<1> QED BY <1>1, <1>2 DEF ListWalkInv

\* A FOREACH_SAFE of any kind meets each element that was there when it began
\* once, in order, although the elements it has met are deleted and freed, and
\* it ends when all are met.
THEOREM ListWalksMeetAll == List!Spec => []List!WalkMeetsAll
<1> StackAssumption /\ ListAssumption
  BY ContainersAssumption
<1>1. List!Init => ListWalkInv
  BY NoWalkIs
<1>2. ListWalkInv /\ [List!Next]_(List!vars) => ListWalkInv'
  BY ListWalkNext
<1>3. ListWalkInv => List!WalkMeetsAll
  BY WalksHold DEF ListWalkInv
<1> QED BY <1>1, <1>2, <1>3, PTL DEF List!Spec

=============================================================================
