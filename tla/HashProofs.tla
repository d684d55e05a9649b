------------------------------ MODULE HashProofs ------------------------------
(***************************************************************************)
(* The hash table of uthash.h, with any elements, keys and hashes: its     *)
(* chains hold what its list holds, each element where its hash says, and  *)
(* the table is a map with an order.  Last, the client of any container:   *)
(* what is proved of each holds of all.                                    *)
(***************************************************************************)
EXTENDS ListClientProofs

-----------------------------------------------------------------------------
(* The links back of a list that ends at both ends *)

Prior(t, j) == IF j = 1 THEN NULL ELSE t[j - 1]
Mirrored(t, link) == \A j \in 1 .. Len(t) : link[t[j]] = Prior(t, j)
Doubly(t, nx, pv) == Linked(t, nx) /\ Mirrored(t, pv)

LEMMA EnterMirrored ==
  ASSUME NEW t, NEW e, Proper(t, e), NEW i \in 1 .. Len(t) + 1, NEW link, NEW L,
         Mirrored(t, link), L[e] = Prior(t, i),
         Changed(L, link, e, IF i > Len(t) THEN e ELSE t[i]), i <= Len(t) => L[t[i]] = e
  PROVE  Mirrored(List!Order!Enter(t, i, e), L)
<1> DEFINE v == List!Order!Enter(t, i, e)
           n == Len(t)
<1>0. /\ t \in Seq(Elts) /\ n \in Nat /\ e \in Elts /\ i \in Nat /\ i \in 1 .. n + 1
      /\ \A j \in 1 .. n : t[j] \in Elts /\ t[j] # e
      /\ \A j, k \in 1 .. n : t[j] = t[k] => j = k
  BY DEF Proper
<1>1. Len(v) = n + 1 /\ \A j \in 1 .. n + 1 :
                          v[j] = IF j < i THEN t[j] ELSE IF j = i THEN e ELSE t[j - 1]
  <2>1. t \in Seq(Elts) /\ i \in 1 .. Len(t) + 1 /\ e \in Elts
    BY <1>0
  <2>2. IsEntered(t, i, e, List!Order!Enter(t, i, e))
    BY <2>1, EnteredNamed
  <2> QED BY <2>2 DEF IsEntered
<1>2. \A j \in 1 .. n : link[t[j]] = IF j = 1 THEN NULL ELSE t[j - 1]
  BY DEF Mirrored, Prior
<1>3. L[e] = (IF i = 1 THEN NULL ELSE t[i - 1]) /\ (i <= n => L[t[i]] = e)
  BY DEF Prior
<1> HIDE DEF v, n
<1>4. ASSUME NEW k \in 1 .. n, k # i PROVE L[t[k]] = link[t[k]]
  <2>1. t[k] # e /\ t[k] \in Elts /\ (i <= n => t[k] # t[i])
    BY <1>0, <1>4
  <2> QED BY <1>0, <2>1 DEF Changed, n
<1>5. ASSUME NEW j \in 1 .. n + 1 PROVE L[v[j]] = IF j = 1 THEN NULL ELSE v[j - 1]
  <2>0. j \in Nat
    BY <1>0
  <2>1. CASE j < i
    <3>1. j \in 1 .. n /\ j # i /\ v[j] = t[j] /\ (j # 1 => v[j - 1] = t[j - 1])
      BY <1>0, <1>1, <2>0, <2>1
    <3> QED BY <1>2, <1>4, <3>1
  <2>2. CASE j = i
    <3>1. v[j] = e /\ (j # 1 => v[j - 1] = t[j - 1])
      BY <1>0, <1>1, <2>0, <2>2
    <3> QED BY <1>3, <2>2, <3>1
  <2>3. CASE j = i + 1
    <3>1. v[j] = t[i] /\ v[j - 1] = e /\ i <= n /\ j # 1
      BY <1>0, <1>1, <2>0, <2>3
    <3> QED BY <1>3, <3>1
  <2>4. CASE j > i + 1
    <3>1. /\ j - 1 \in 1 .. n /\ j - 1 # i /\ v[j] = t[j - 1] /\ j # 1 /\ j - 1 # 1
          /\ v[j - 1] = t[j - 1 - 1]
      BY <1>0, <1>1, <2>0, <2>4
    <3> QED BY <1>2, <1>4, <3>1
  <2> QED BY <1>0, <2>0, <2>1, <2>2, <2>3, <2>4
<1> QED BY <1>1, <1>5 DEF Mirrored, Prior, v

LEMMA RemoveMirrored ==
  ASSUME NEW t, Distinct(t), NEW i \in 1 .. Len(t), NEW link, NEW L, Mirrored(t, link),
         Changed(L, link, t[i], IF i = Len(t) THEN t[i] ELSE t[i + 1]),
         i < Len(t) => L[t[i + 1]] = Prior(t, i)
  PROVE  Mirrored(List!Order!RemoveAt(t, i), L)
<1> DEFINE v == List!Order!RemoveAt(t, i)
           n == Len(t)
<1>0. /\ t \in Seq(Elts) /\ n \in Nat /\ i \in Nat /\ i \in 1 .. n
      /\ \A j \in 1 .. n : t[j] \in Elts
      /\ \A j, k \in 1 .. n : t[j] = t[k] => j = k
  BY DEF Distinct
<1>1. Len(v) = n - 1 /\ \A j \in 1 .. n - 1 : v[j] = IF j < i THEN t[j] ELSE t[j + 1]
  BY <1>0, RemovedIs
<1>2. \A j \in 1 .. n : link[t[j]] = IF j = 1 THEN NULL ELSE t[j - 1]
  BY DEF Mirrored, Prior
<1>3. i < n => L[t[i + 1]] = IF i = 1 THEN NULL ELSE t[i - 1]
  BY DEF Prior
<1>4. Changed(L, link, t[i], IF i = n THEN t[i] ELSE t[i + 1])
  OBVIOUS
<1> HIDE DEF v, n
<1>5. ASSUME NEW k \in 1 .. n, k # i, k # i + 1 PROVE L[t[k]] = link[t[k]]
  <2>1. t[k] # t[i] /\ (i # n => t[k] # t[i + 1])
    BY <1>0, <1>5
  <2> QED BY <1>0, <1>4, <2>1 DEF Changed
<1>6. ASSUME NEW j \in 1 .. n - 1 PROVE L[v[j]] = IF j = 1 THEN NULL ELSE v[j - 1]
  <2>0. j \in Nat
    BY <1>0
  <2>1. CASE j < i
    <3>1. j \in 1 .. n /\ j # i /\ j # i + 1 /\ v[j] = t[j] /\ (j # 1 => v[j - 1] = t[j - 1])
      BY <1>0, <1>1, <2>0, <2>1
    <3> QED BY <1>2, <1>5, <3>1
  <2>2. CASE j = i
    <3>1. v[j] = t[i + 1] /\ i < n /\ (j # 1 => v[j - 1] = t[i - 1])
      BY <1>0, <1>1, <2>0, <2>2
    <3> QED BY <1>3, <2>2, <3>1
  <2>3. CASE j > i
    <3>1. /\ j + 1 \in 1 .. n /\ j + 1 # i /\ j + 1 # i + 1 /\ v[j] = t[j + 1] /\ j # 1
          /\ j + 1 # 1 /\ v[j - 1] = t[j] /\ j + 1 - 1 = j
      BY <1>0, <1>1, <2>0, <2>3
    <3> QED BY <1>2, <1>5, <3>1
  <2> QED BY <1>0, <2>0, <2>1, <2>2, <2>3
<1> QED BY <1>1, <1>6 DEF Mirrored, Prior, v

-----------------------------------------------------------------------------
(* An element enters, or leaves, a list with links both ways *)

\* The links after e has entered t before its i-th element.
NextIn(nx, t, i, e) == Hash!Put([nx EXCEPT ![e] = At(t, i)], Prior(t, i), e)
PrevIn(pv, t, i, e) == Hash!Put([pv EXCEPT ![e] = Prior(t, i)], At(t, i), e)

\* And after the i-th has left.
NextOut(nx, t, i) == Hash!Put(nx, Prior(t, i), At(t, i + 1))
PrevOut(pv, t, i) == Hash!Put(pv, At(t, i + 1), Prior(t, i))

Same(f, g, t, e) == \A y \in Elts : y # e /\ (\A j \in 1 .. Len(t) : t[j] # y) => f[y] = g[y]

LEMMA PutIs ==
  ASSUME StackAssumption, NEW f \in Linkage, NEW p \in Nodes, NEW x \in Nodes
  PROVE  /\ Hash!Put(f, p, x) \in Linkage
         /\ \A y \in Elts : Hash!Put(f, p, x)[y] = IF y = p THEN x ELSE f[y]
BY DEF Hash!Put, Linkage, Nodes, StackAssumption

LEMMA EnterDoubly ==
  ASSUME StackAssumption, NEW t, NEW e, Proper(t, e), NEW i \in 1 .. Len(t) + 1,
         NEW nx \in Linkage, NEW pv \in Linkage, Doubly(t, nx, pv)
  PROVE  LET f == NextIn(nx, t, i, e)
             g == PrevIn(pv, t, i, e)
         IN  /\ f \in Linkage /\ g \in Linkage /\ Doubly(List!Order!Enter(t, i, e), f, g)
             /\ Same(f, nx, t, e) /\ Same(g, pv, t, e)
<1> DEFINE f == NextIn(nx, t, i, e)
           g == PrevIn(pv, t, i, e)
           f1 == [nx EXCEPT ![e] = At(t, i)]
           g1 == [pv EXCEPT ![e] = Prior(t, i)]
           p == Prior(t, i)
           q == At(t, i)
<1>0. /\ Len(t) \in Nat /\ e \in Elts /\ e \in Nodes /\ NULL \notin Elts /\ NULL \in Nodes
      /\ \A j \in 1 .. Len(t) : t[j] \in Elts /\ t[j] # e
  BY DEF Proper, StackAssumption, Nodes
<1>1. /\ p = (IF i = 1 THEN NULL ELSE t[i - 1]) /\ q = (IF i <= Len(t) THEN t[i] ELSE NULL)
      /\ (i # 1 => i - 1 \in 1 .. Len(t)) /\ (i <= Len(t) => i \in 1 .. Len(t))
  BY <1>0 DEF Prior, At
<1>2. p \in Nodes /\ q \in Nodes /\ p # e /\ q # e
      /\ (p # NULL => \E j \in 1 .. Len(t) : p = t[j])
      /\ (q # NULL => \E j \in 1 .. Len(t) : q = t[j])
  BY <1>0, <1>1 DEF Nodes
<1>3. /\ f1 \in Linkage /\ f1[e] = q /\ \A y \in Elts : y # e => f1[y] = nx[y]
      /\ g1 \in Linkage /\ g1[e] = p /\ \A y \in Elts : y # e => g1[y] = pv[y]
  BY <1>0, <1>2 DEF Linkage
<1>4. f = Hash!Put(f1, p, e) /\ g = Hash!Put(g1, q, e)
  BY DEF NextIn, PrevIn
<1> HIDE DEF f, g, f1, g1, p, q
<1>5. /\ f \in Linkage /\ \A y \in Elts : f[y] = IF y = p THEN e ELSE f1[y]
      /\ g \in Linkage /\ \A y \in Elts : g[y] = IF y = q THEN e ELSE g1[y]
  <2>1. f1 \in Linkage /\ g1 \in Linkage /\ e \in Nodes /\ p \in Nodes /\ q \in Nodes
    BY <1>0, <1>2, <1>3
  <2>2. /\ Hash!Put(f1, p, e) \in Linkage
        /\ \A y \in Elts : Hash!Put(f1, p, e)[y] = IF y = p THEN e ELSE f1[y]
    BY <2>1, PutIs
  <2>3. /\ Hash!Put(g1, q, e) \in Linkage
        /\ \A y \in Elts : Hash!Put(g1, q, e)[y] = IF y = q THEN e ELSE g1[y]
    BY <2>1, PutIs
  <2> QED BY <1>4, <2>2, <2>3
<1>6. Linked(List!Order!Enter(t, i, e), f)
  <2>1. f[e] = At(t, i) /\ Linked(t, nx)
    BY <1>0, <1>2, <1>3, <1>5 DEF q, Doubly
  <2>2. Changed(f, nx, e, IF i = 1 THEN e ELSE t[i - 1])
    BY <1>0, <1>1, <1>3, <1>5 DEF Changed
  <2>3. i > 1 => f[t[i - 1]] = e
    BY <1>0, <1>1, <1>5
  <2> QED BY <2>1, <2>2, <2>3, EnterLinked
<1>7. Mirrored(List!Order!Enter(t, i, e), g)
  <2>1. g[e] = Prior(t, i) /\ Mirrored(t, pv)
    BY <1>0, <1>2, <1>3, <1>5 DEF p, Doubly
  <2>2. Changed(g, pv, e, IF i > Len(t) THEN e ELSE t[i])
    BY <1>0, <1>1, <1>3, <1>5 DEF Changed
  <2>3. i <= Len(t) => g[t[i]] = e
    BY <1>0, <1>1, <1>5
  <2> QED BY <2>1, <2>2, <2>3, EnterMirrored
<1>8. Same(f, nx, t, e) /\ Same(g, pv, t, e)
  BY <1>0, <1>2, <1>3, <1>5 DEF Same
<1> QED BY <1>5, <1>6, <1>7, <1>8 DEF Doubly, f, g

LEMMA RemoveDoubly ==
  ASSUME StackAssumption, NEW t, Distinct(t), NEW i \in 1 .. Len(t),
         NEW nx \in Linkage, NEW pv \in Linkage, Doubly(t, nx, pv)
  PROVE  LET f == NextOut(nx, t, i)
             g == PrevOut(pv, t, i)
         IN  /\ f \in Linkage /\ g \in Linkage /\ Doubly(List!Order!RemoveAt(t, i), f, g)
             /\ Same(f, nx, t, t[i]) /\ Same(g, pv, t, t[i])
             /\ nx[t[i]] = At(t, i + 1) /\ pv[t[i]] = Prior(t, i)
<1> DEFINE f == NextOut(nx, t, i)
           g == PrevOut(pv, t, i)
           p == Prior(t, i)
           q == At(t, i + 1)
<1>0. /\ Len(t) \in Nat /\ NULL \notin Elts /\ NULL \in Nodes
      /\ \A j \in 1 .. Len(t) : t[j] \in Elts
      /\ \A j, k \in 1 .. Len(t) : t[j] = t[k] => j = k
  BY DEF Distinct, StackAssumption, Nodes
<1>1. /\ p = (IF i = 1 THEN NULL ELSE t[i - 1]) /\ q = (IF i < Len(t) THEN t[i + 1] ELSE NULL)
      /\ (i # 1 => i - 1 \in 1 .. Len(t)) /\ (i < Len(t) => i + 1 \in 1 .. Len(t))
      /\ (i < Len(t) <=> i # Len(t))
  BY <1>0 DEF Prior, At
<1>2. /\ p \in Nodes /\ q \in Nodes
      /\ (p # NULL => \E j \in 1 .. Len(t) : p = t[j])
      /\ (q # NULL => \E j \in 1 .. Len(t) : q = t[j])
  BY <1>0, <1>1 DEF Nodes
<1>3. f = Hash!Put(nx, p, q) /\ g = Hash!Put(pv, q, p)
  BY DEF NextOut, PrevOut
<1> HIDE DEF f, g, p, q
<1>4. /\ f \in Linkage /\ \A y \in Elts : f[y] = IF y = p THEN q ELSE nx[y]
      /\ g \in Linkage /\ \A y \in Elts : g[y] = IF y = q THEN p ELSE pv[y]
  BY <1>2, <1>3, PutIs
<1>5. Linked(List!Order!RemoveAt(t, i), f)
  <2>1. Linked(t, nx)
    BY DEF Doubly
  <2>2. Changed(f, nx, t[i], IF i = 1 THEN t[i] ELSE t[i - 1])
    BY <1>0, <1>1, <1>4 DEF Changed
  <2>3. i > 1 => f[t[i - 1]] = At(t, i + 1)
    BY <1>0, <1>1, <1>4 DEF q
  <2> QED BY <2>1, <2>2, <2>3, RemoveLinked
<1>6. Mirrored(List!Order!RemoveAt(t, i), g)
  <2>1. Mirrored(t, pv)
    BY DEF Doubly
  <2>2. Changed(g, pv, t[i], IF i = Len(t) THEN t[i] ELSE t[i + 1])
    BY <1>0, <1>1, <1>4 DEF Changed
  <2>3. i < Len(t) => g[t[i + 1]] = Prior(t, i)
    BY <1>0, <1>1, <1>4 DEF p
  <2> QED BY <2>1, <2>2, <2>3, RemoveMirrored
<1>7. Same(f, nx, t, t[i]) /\ Same(g, pv, t, t[i])
  BY <1>0, <1>2, <1>4 DEF Same
<1>8. nx[t[i]] = At(t, i + 1) /\ pv[t[i]] = Prior(t, i)
  BY DEF Doubly, Linked, Mirrored
<1> QED BY <1>4, <1>5, <1>6, <1>7, <1>8 DEF Doubly, f, g

-----------------------------------------------------------------------------
(* A list is what a walk meets *)

LEMMA HashCardinality ==
  ASSUME NEW S
  PROVE  Hash!Cardinality(S) = Cardinality(S)
BY DEF Hash!Cardinality, Cardinality, Hash!IsFiniteSet, IsFiniteSet

LEMMA HashWalkIs ==
  ASSUME StackAssumption, NEW t, Distinct(t), NEW link \in Linkage, Linked(t, link)
  PROVE  Hash!Walk(At(t, 1), link) = t
<1> DEFINE N == Hash!Cardinality(Elts) + 1
           f0 == CHOOSE f : f = [n \in 0 .. N |-> [q \in Hash!Pointer |->
                   IF q = NULL \/ n = 0 THEN <<>> ELSE <<q>> \o f[n - 1][link[q]]]]
           f1 == CHOOSE f : Walks(f, link, N)
<1>1. t \in Seq(Elts) /\ N \in Nat /\ Len(t) <= N /\ Len(t) \in Nat
  <2>1. t \in Seq(Elts) /\ \A j, k \in 1 .. Len(t) : t[j] = t[k] => j = k
    BY DEF Distinct
  <2>2. Len(t) \in Nat /\ Cardinality(Elts) \in Nat /\ Len(t) <= Cardinality(Elts)
    BY <2>1, NoLonger
  <2> QED BY <2>1, <2>2, HashCardinality
<1>2. f0 = f1
  BY DEF Walks, WalkFrom, Nodes, Hash!Pointer
<1>3. \A q \in Elts : link[q] \in Nodes
  BY DEF Linkage
<1>4. \E f : Walks(f, link, N)
  <2> HIDE DEF N
  <2> QED BY <1>1, <1>3, WalkDefined
<1>5. Walks(f1, link, N)
  BY <1>4
<1>6. Hash!Walk(At(t, 1), link) = f0[N][At(t, 1)]
  BY DEF Hash!Walk
<1>7. f1[N][At(t, 1)] = t
  <2> HIDE DEF f1, N
  <2> QED BY <1>1, <1>5, WalkFollows
<1> HIDE DEF f0, f1
<1> QED BY <1>2, <1>6, <1>7

-----------------------------------------------------------------------------
(* The buckets of a table: its chains hold the elements of S, each where   *)
(* its hash says                                                           *)

Home(e, n) == Hash!HASH_TO_BKT(e, n)
Bucket == [hh_head : Nodes, count : Nat, expand_mult : Nat]

ChainIs(bucket, t, hn, hp) ==
  /\ bucket \in Bucket /\ bucket.hh_head = At(t, 1) /\ bucket.count = Len(t)
  /\ Distinct(t) /\ Doubly(t, hn, hp)

Holding(bk, hn, hp, n, ch, S) ==
  /\ n \in Nat \ {0} /\ hn \in Linkage /\ hp \in Linkage /\ S \subseteq Elts
  /\ bk \in [0 .. n - 1 -> Bucket] /\ ch \in [0 .. n - 1 -> Seq(Elts)]
  /\ \A b \in 0 .. n - 1 : ChainIs(bk[b], ch[b], hn, hp)
  /\ \A b \in 0 .. n - 1 : \A j \in 1 .. Len(ch[b]) : ch[b][j] \in S /\ Home(ch[b][j], n) = b
  /\ \A e \in S : \E j \in 1 .. Len(ch[Home(e, n)]) : ch[Home(e, n)][j] = e

LEMMA HomeIs ==
  ASSUME HashAssumption, NEW n \in Nat \ {0}, NEW e \in Elts
  PROVE  Home(e, n) \in 0 .. n - 1
<1>1. HashOf[KeyOf[e]] \in Nat
  BY DEF HashAssumption
<1> QED BY <1>1 DEF Home, Hash!HASH_TO_BKT

LEMMA ChainsWalked ==
  ASSUME StackAssumption, NEW bk, NEW hn, NEW hp, NEW n, NEW ch, NEW S,
         Holding(bk, hn, hp, n, ch, S), NEW b \in 0 .. n - 1
  PROVE  Hash!Walk(bk[b].hh_head, hn) = ch[b]
<1>1. /\ Distinct(ch[b]) /\ hn \in Linkage /\ Linked(ch[b], hn)
      /\ bk[b].hh_head = At(ch[b], 1)
  BY DEF Holding, ChainIs, Doubly
<1> QED BY <1>1, HashWalkIs

\* Links of elements that are not there do not matter.
LEMMA DoublyKept ==
  ASSUME NEW t, Distinct(t), NEW hn, NEW hp, Doubly(t, hn, hp), NEW fn, NEW fp,
         \A j \in 1 .. Len(t) : fn[t[j]] = hn[t[j]] /\ fp[t[j]] = hp[t[j]]
  PROVE  Doubly(t, fn, fp)
BY DEF Doubly, Linked, Mirrored, Distinct

LEMMA HoldingKept ==
  ASSUME NEW bk, NEW hn, NEW hp, NEW n, NEW ch, NEW S, Holding(bk, hn, hp, n, ch, S),
         NEW fn \in Linkage, NEW fp \in Linkage, \A e \in S : fn[e] = hn[e] /\ fp[e] = hp[e]
  PROVE  Holding(bk, fn, fp, n, ch, S)
<1>1. ASSUME NEW b \in 0 .. n - 1 PROVE ChainIs(bk[b], ch[b], fn, fp)
  <2>1. ChainIs(bk[b], ch[b], hn, hp) /\ \A j \in 1 .. Len(ch[b]) : ch[b][j] \in S
    BY DEF Holding
  <2> QED BY <2>1, DoublyKept DEF ChainIs
<1> QED BY <1>1 DEF Holding

LEMMA EnteredDistinct ==
  ASSUME NEW t, NEW e, Proper(t, e), NEW i \in 1 .. Len(t) + 1
  PROVE  LET v == List!Order!Enter(t, i, e)
         IN  /\ Distinct(v) /\ Len(v) = Len(t) + 1
             /\ \A j \in 1 .. Len(t) + 1 :
                  v[j] = IF j < i THEN t[j] ELSE IF j = i THEN e ELSE t[j - 1]
<1> DEFINE v == List!Order!Enter(t, i, e)
           n == Len(t)
<1>0. /\ t \in Seq(Elts) /\ n \in Nat /\ e \in Elts /\ i \in Nat /\ i \in 1 .. n + 1
      /\ \A j \in 1 .. n : t[j] \in Elts /\ t[j] # e
      /\ \A j, k \in 1 .. n : t[j] = t[k] => j = k
  BY DEF Proper
<1>1. v \in Seq(Elts) /\ Len(v) = n + 1
      /\ \A j \in 1 .. n + 1 : v[j] = IF j < i THEN t[j] ELSE IF j = i THEN e ELSE t[j - 1]
  <2>1. t \in Seq(Elts) /\ i \in 1 .. Len(t) + 1 /\ e \in Elts
    BY <1>0
  <2>2. IsEntered(t, i, e, List!Order!Enter(t, i, e))
    BY <2>1, EnteredNamed
  <2> QED BY <2>2 DEF IsEntered
<1> HIDE DEF v, n
<1>2. \A j \in 1 .. n + 1 : v[j] \in Elts
  BY <1>0, <1>1
<1>3. ASSUME NEW j \in 1 .. n + 1, NEW k \in 1 .. n + 1, v[j] = v[k] PROVE j = k
  <2>1. ASSUME NEW x \in 1 .. n + 1, x # i
        PROVE  \E y \in 1 .. n : v[x] = t[y] /\ y = IF x < i THEN x ELSE x - 1
    <3>1. CASE x < i
      BY <1>0, <1>1, <2>1, <3>1
    <3>2. CASE x > i
      <4>1. x - 1 \in 1 .. n /\ v[x] = t[x - 1]
        BY <1>0, <1>1, <3>2
      <4> QED BY <1>0, <3>2, <4>1
    <3> QED BY <1>0, <2>1, <3>1, <3>2
  <2>2. v[i] = e
    BY <1>0, <1>1
  <2>3. CASE j = i \/ k = i
    BY <1>0, <1>3, <2>1, <2>2, <2>3
  <2>4. CASE j # i /\ k # i
    <3>1. PICK y \in 1 .. n : v[j] = t[y] /\ y = IF j < i THEN j ELSE j - 1
      BY <2>1, <2>4
    <3>2. PICK z \in 1 .. n : v[k] = t[z] /\ z = IF k < i THEN k ELSE k - 1
      BY <2>1, <2>4
    <3>3. y = z
      BY <1>0, <1>3, <3>1, <3>2
    <3> QED BY <1>0, <2>4, <3>1, <3>2, <3>3
  <2> QED BY <2>3, <2>4
<1>4. Distinct(v)
  BY <1>0, <1>1, <1>2, <1>3 DEF Distinct
<1> QED BY <1>1, <1>4 DEF v, n

LEMMA RemovedDistinct ==
  ASSUME NEW t, Distinct(t), NEW i \in 1 .. Len(t)
  PROVE  LET v == List!Order!RemoveAt(t, i)
         IN  /\ Distinct(v) /\ Len(v) = Len(t) - 1
             /\ \A j \in 1 .. Len(t) - 1 : v[j] = IF j < i THEN t[j] ELSE t[j + 1]
             /\ \A j \in 1 .. Len(v) : v[j] # t[i]
             /\ \A k \in 1 .. Len(t) : k # i => \E j \in 1 .. Len(v) : v[j] = t[k]
<1> DEFINE v == List!Order!RemoveAt(t, i)
           n == Len(t)
<1>0. /\ t \in Seq(Elts) /\ n \in Nat /\ i \in Nat /\ i \in 1 .. n
      /\ \A j \in 1 .. n : t[j] \in Elts
      /\ \A j, k \in 1 .. n : t[j] = t[k] => j = k
  BY DEF Distinct
<1>1. /\ v \in Seq(Elts) /\ Len(v) = n - 1
      /\ \A j \in 1 .. n - 1 : v[j] = IF j < i THEN t[j] ELSE t[j + 1]
  BY <1>0, RemovedIs
<1> HIDE DEF v, n
<1>2. ASSUME NEW x \in 1 .. n - 1
      PROVE  \E y \in 1 .. n : v[x] = t[y] /\ y # i /\ y = IF x < i THEN x ELSE x + 1
  <2>1. CASE x < i
    BY <1>0, <1>1, <2>1
  <2>2. CASE x >= i
    <3>1. x + 1 \in 1 .. n /\ v[x] = t[x + 1] /\ x + 1 # i
      BY <1>0, <1>1, <2>2
    <3> QED BY <1>0, <2>2, <3>1
  <2> QED BY <1>0, <2>1, <2>2
<1>3. \A j \in 1 .. n - 1 : v[j] \in Elts /\ v[j] # t[i]
  BY <1>0, <1>2
<1>4. ASSUME NEW j \in 1 .. n - 1, NEW k \in 1 .. n - 1, v[j] = v[k] PROVE j = k
  <2>1. PICK y \in 1 .. n : v[j] = t[y] /\ y = IF j < i THEN j ELSE j + 1
    BY <1>2
  <2>2. PICK z \in 1 .. n : v[k] = t[z] /\ z = IF k < i THEN k ELSE k + 1
    BY <1>2
  <2>3. y = z
    BY <1>0, <1>4, <2>1, <2>2
  <2> QED BY <1>0, <2>1, <2>2, <2>3
<1>5. ASSUME NEW k \in 1 .. n, k # i PROVE \E j \in 1 .. n - 1 : v[j] = t[k]
  <2>1. CASE k < i
    <3>1. k \in 1 .. n - 1 /\ v[k] = t[k]
      BY <1>0, <1>1, <2>1
    <3> QED BY <3>1
  <2>2. CASE k > i
    <3>1. k - 1 \in 1 .. n - 1 /\ v[k - 1] = t[k - 1 + 1] /\ k - 1 + 1 = k
      BY <1>0, <1>1, <2>2
    <3> QED BY <3>1
  <2> QED BY <1>0, <1>5, <2>1, <2>2
<1>6. Distinct(v)
  BY <1>0, <1>1, <1>3, <1>4 DEF Distinct
<1> QED BY <1>0, <1>1, <1>3, <1>5, <1>6 DEF v, n

\* An element enters the front of its chain.
Pushes(bk, hn, hp, n, ch, S, e, b, B, bv, fn, fp, cv) ==
  /\ Holding(bk, hn, hp, n, ch, S) /\ e \in Elts /\ e \notin S /\ b = Home(e, n)
  /\ B \in Bucket /\ B.hh_head = e /\ B.count = bk[b].count + 1
  /\ bv = [bk EXCEPT ![b] = B] /\ cv = [ch EXCEPT ![b] = List!Order!Enter(ch[b], 1, e)]
  /\ fn = NextIn(hn, ch[b], 1, e) /\ fp = PrevIn(hp, ch[b], 1, e)

LEMMA HoldingPushes ==
  ASSUME StackAssumption, HashAssumption, NEW bk, NEW hn, NEW hp, NEW n, NEW ch, NEW S,
         NEW e, NEW b, NEW B, NEW bv, NEW fn, NEW fp, NEW cv,
         Pushes(bk, hn, hp, n, ch, S, e, b, B, bv, fn, fp, cv)
  PROVE  /\ Holding(bv, fn, fp, n, cv, S \cup {e})
         /\ cv[b] \in Seq(Elts) /\ Len(cv[b]) = Len(ch[b]) + 1
<1> DEFINE t == ch[b]
           v == List!Order!Enter(t, 1, e)
<1>a. /\ Holding(bk, hn, hp, n, ch, S) /\ e \in Elts /\ e \notin S /\ b = Home(e, n)
      /\ B \in Bucket /\ B.hh_head = e /\ B.count = bk[b].count + 1
      /\ bv = [bk EXCEPT ![b] = B] /\ cv = [ch EXCEPT ![b] = v]
      /\ fn = NextIn(hn, t, 1, e) /\ fp = PrevIn(hp, t, 1, e)
  BY DEF Pushes
<1> USE <1>a
<1>0. /\ n \in Nat \ {0} /\ hn \in Linkage /\ hp \in Linkage /\ S \subseteq Elts
      /\ bk \in [0 .. n - 1 -> Bucket] /\ ch \in [0 .. n - 1 -> Seq(Elts)] /\ b \in 0 .. n - 1
  BY HomeIs DEF Holding
<1>1. /\ \A c \in 0 .. n - 1 : ChainIs(bk[c], ch[c], hn, hp)
      /\ \A c \in 0 .. n - 1 : \A j \in 1 .. Len(ch[c]) : ch[c][j] \in S /\ Home(ch[c][j], n) = c
      /\ \A x \in S : \E j \in 1 .. Len(ch[Home(x, n)]) : ch[Home(x, n)][j] = x
  BY DEF Holding
<1>2. Proper(t, e) /\ Distinct(t) /\ Doubly(t, hn, hp) /\ bk[b].count = Len(t) /\ Len(t) \in Nat
      /\ 1 \in 1 .. Len(t) + 1
  BY <1>0, <1>1 DEF ChainIs, Distinct, Proper
<1>3. /\ fn \in Linkage /\ fp \in Linkage /\ Doubly(v, fn, fp)
      /\ Same(fn, hn, t, e) /\ Same(fp, hp, t, e)
  BY <1>0, <1>2, EnterDoubly
<1>4. /\ Distinct(v) /\ Len(v) = Len(t) + 1
      /\ \A j \in 1 .. Len(t) + 1 : v[j] = IF j < 1 THEN t[j] ELSE IF j = 1 THEN e ELSE t[j - 1]
  BY <1>2, EnteredDistinct
<1>5. cv[b] = v /\ bv[b] = B
      /\ \A c \in 0 .. n - 1 : c # b => cv[c] = ch[c] /\ bv[c] = bk[c]
  BY <1>0
<1> HIDE DEF v
<1>6. v \in Seq(Elts)
  BY <1>4 DEF Distinct
<1>7. bv \in [0 .. n - 1 -> Bucket] /\ cv \in [0 .. n - 1 -> Seq(Elts)]
  BY <1>0, <1>6 DEF v
<1> HIDE DEF t
<1>8. v[1] = e /\ \A j \in 1 .. Len(t) : j + 1 \in 1 .. Len(v) /\ v[j + 1] = t[j]
  BY <1>2, <1>4
<1>9. \A j \in 1 .. Len(v) : v[j] = e \/ \E k \in 1 .. Len(t) : v[j] = t[k]
  BY <1>2, <1>4
<1>10. ASSUME NEW c \in 0 .. n - 1 PROVE ChainIs(bv[c], cv[c], fn, fp)
  <2>1. CASE c = b
    <3>1. At(v, 1) = e
      BY <1>2, <1>4, <1>8 DEF At
    <3> QED BY <1>2, <1>3, <1>4, <1>5, <2>1, <3>1 DEF ChainIs
  <2>2. CASE c # b
    <3>1. ChainIs(bk[c], ch[c], hn, hp)
      BY <1>1
    <3>2. ASSUME NEW j \in 1 .. Len(ch[c])
          PROVE  fn[ch[c][j]] = hn[ch[c][j]] /\ fp[ch[c][j]] = hp[ch[c][j]]
      <4>1. ch[c][j] \in S /\ ch[c][j] \in Elts /\ ch[c][j] # e /\ Home(ch[c][j], n) = c
        BY <1>0, <1>1
      <4>2. \A k \in 1 .. Len(t) : t[k] # ch[c][j]
        BY <1>0, <1>1, <2>2, <4>1 DEF t
      <4> QED BY <1>3, <4>1, <4>2 DEF Same
    <3>3. Distinct(ch[c]) /\ Doubly(ch[c], hn, hp)
      BY <3>1 DEF ChainIs
    <3>4. Doubly(ch[c], fn, fp)
      BY <3>2, <3>3, DoublyKept
    <3>5. cv[c] = ch[c] /\ bv[c] = bk[c]
      BY <1>5, <2>2
    <3> QED BY <3>1, <3>4, <3>5 DEF ChainIs
  <2> QED BY <2>1, <2>2
<1>11. ASSUME NEW c \in 0 .. n - 1, NEW j \in 1 .. Len(cv[c])
       PROVE  cv[c][j] \in S \cup {e} /\ Home(cv[c][j], n) = c
  <2>1. CASE c = b
    <3>1. j \in 1 .. Len(v) /\ cv[c][j] = v[j]
      BY <1>5, <2>1
    <3>2. \A k \in 1 .. Len(t) : t[k] \in S /\ Home(t[k], n) = b
      BY <1>0, <1>1 DEF t
    <3> QED BY <1>9, <2>1, <3>1, <3>2
  <2>2. CASE c # b
    BY <1>1, <1>5, <2>2
  <2> QED BY <2>1, <2>2
<1>12. ASSUME NEW x \in S \cup {e}
       PROVE  \E j \in 1 .. Len(cv[Home(x, n)]) : cv[Home(x, n)][j] = x
  <2>1. CASE x = e
    <3>1. 1 \in 1 .. Len(v)
      BY <1>2, <1>4
    <3> QED BY <1>5, <1>8, <2>1, <3>1
  <2>2. CASE x # e
    <3>1. x \in S /\ Home(x, n) \in 0 .. n - 1
      BY <1>0, <2>2, HomeIs
    <3>2. PICK j \in 1 .. Len(ch[Home(x, n)]) : ch[Home(x, n)][j] = x
      BY <1>1, <3>1
    <3>3. CASE Home(x, n) = b
      <4>1. j \in 1 .. Len(t) /\ t[j] = x
        BY <3>2, <3>3 DEF t
      <4>2. j + 1 \in 1 .. Len(v) /\ v[j + 1] = x
        BY <1>8, <4>1
      <4> QED BY <1>5, <3>3, <4>2
    <3>4. CASE Home(x, n) # b
      BY <1>5, <3>1, <3>2, <3>4
    <3> QED BY <3>3, <3>4
  <2> QED BY <2>1, <2>2
<1>13. S \cup {e} \subseteq Elts
  BY <1>0
<1>14. Holding(bv, fn, fp, n, cv, S \cup {e})
  BY <1>0, <1>3, <1>7, <1>10, <1>11, <1>12, <1>13 DEF Holding
<1> QED BY <1>4, <1>5, <1>6, <1>14 DEF t

\* An element leaves its chain.
Leaves(bk, hn, hp, n, ch, S, b, i, B, bv, fn, fp, cv) ==
  /\ Holding(bk, hn, hp, n, ch, S) /\ b \in 0 .. n - 1 /\ i \in 1 .. Len(ch[b])
  /\ B \in Bucket /\ B.hh_head = At(List!Order!RemoveAt(ch[b], i), 1) /\ B.count = bk[b].count - 1
  /\ bv = [bk EXCEPT ![b] = B] /\ cv = [ch EXCEPT ![b] = List!Order!RemoveAt(ch[b], i)]
  /\ fn = NextOut(hn, ch[b], i) /\ fp = PrevOut(hp, ch[b], i)

HeldLess(bv, fn, fp, n, cv, S, ch, b, i) ==
  /\ Holding(bv, fn, fp, n, cv, S \ {ch[b][i]})
  /\ cv[b] \in Seq(Elts) /\ Len(cv[b]) = Len(ch[b]) - 1

LEMMA HoldingDeletes ==
  ASSUME StackAssumption, HashAssumption, NEW bk, NEW hn, NEW hp, NEW n, NEW ch, NEW S,
         NEW b, NEW i, NEW B, NEW bv, NEW fn, NEW fp, NEW cv,
         Leaves(bk, hn, hp, n, ch, S, b, i, B, bv, fn, fp, cv)
  PROVE  HeldLess(bv, fn, fp, n, cv, S, ch, b, i)
<1> DEFINE t == ch[b]
           e == t[i]
           v == List!Order!RemoveAt(t, i)
<1>a. /\ Holding(bk, hn, hp, n, ch, S) /\ b \in 0 .. n - 1 /\ i \in 1 .. Len(t)
      /\ B \in Bucket /\ B.hh_head = At(v, 1) /\ B.count = bk[b].count - 1
      /\ bv = [bk EXCEPT ![b] = B] /\ cv = [ch EXCEPT ![b] = v]
      /\ fn = NextOut(hn, t, i) /\ fp = PrevOut(hp, t, i)
  BY DEF Leaves
<1> USE <1>a
<1>0. /\ n \in Nat \ {0} /\ hn \in Linkage /\ hp \in Linkage /\ S \subseteq Elts
      /\ bk \in [0 .. n - 1 -> Bucket] /\ ch \in [0 .. n - 1 -> Seq(Elts)]
  BY DEF Holding
<1>1. /\ \A c \in 0 .. n - 1 : ChainIs(bk[c], ch[c], hn, hp)
      /\ \A c \in 0 .. n - 1 : \A j \in 1 .. Len(ch[c]) : ch[c][j] \in S /\ Home(ch[c][j], n) = c
      /\ \A x \in S : \E j \in 1 .. Len(ch[Home(x, n)]) : ch[Home(x, n)][j] = x
  BY DEF Holding
<1>2. Distinct(t) /\ Doubly(t, hn, hp) /\ bk[b].count = Len(t) /\ Len(t) \in Nat /\ i \in 1 .. Len(t)
  BY <1>0, <1>1 DEF ChainIs, Distinct
<1>3. /\ fn \in Linkage /\ fp \in Linkage /\ Doubly(v, fn, fp)
      /\ Same(fn, hn, t, e) /\ Same(fp, hp, t, e)
  BY <1>0, <1>2, RemoveDoubly
<1>4. /\ Distinct(v) /\ Len(v) = Len(t) - 1
      /\ \A j \in 1 .. Len(t) - 1 : v[j] = IF j < i THEN t[j] ELSE t[j + 1]
      /\ \A j \in 1 .. Len(v) : v[j] # e
      /\ \A k \in 1 .. Len(t) : k # i => \E j \in 1 .. Len(v) : v[j] = t[k]
  BY <1>2, RemovedDistinct
<1>5. cv[b] = v /\ bv[b] = B
      /\ \A c \in 0 .. n - 1 : c # b => cv[c] = ch[c] /\ bv[c] = bk[c]
  BY <1>0
<1>6. \A c \in 0 .. n - 1 : c # b => \A j \in 1 .. Len(ch[c]) : ch[c][j] # e
  BY <1>1, <1>2
<1> HIDE DEF v
<1>7. v \in Seq(Elts)
  BY <1>4 DEF Distinct
<1>8. bv \in [0 .. n - 1 -> Bucket] /\ cv \in [0 .. n - 1 -> Seq(Elts)]
  BY <1>0, <1>7 DEF v
<1>9. \A k \in 1 .. Len(t) : t[k] \in S /\ Home(t[k], n) = b
  BY <1>0, <1>1
<1> HIDE DEF t, e
<1>10. ASSUME NEW c \in 0 .. n - 1 PROVE ChainIs(bv[c], cv[c], fn, fp)
  <2>1. CASE c = b
    BY <1>2, <1>3, <1>4, <1>5, <2>1 DEF ChainIs, t, v
  <2>2. CASE c # b
    <3>1. ChainIs(bk[c], ch[c], hn, hp)
      BY <1>1
    <3>2. ASSUME NEW j \in 1 .. Len(ch[c])
          PROVE  fn[ch[c][j]] = hn[ch[c][j]] /\ fp[ch[c][j]] = hp[ch[c][j]]
      <4>1. ch[c][j] \in S /\ ch[c][j] \in Elts /\ ch[c][j] # e /\ Home(ch[c][j], n) = c
        BY <1>0, <1>1, <1>6, <2>2
      <4>2. \A k \in 1 .. Len(t) : t[k] # ch[c][j]
        BY <1>9, <2>2, <4>1
      <4> QED BY <1>3, <4>1, <4>2 DEF Same
    <3>3. Distinct(ch[c]) /\ Doubly(ch[c], hn, hp)
      BY <3>1 DEF ChainIs
    <3>4. Doubly(ch[c], fn, fp)
      BY <3>2, <3>3, DoublyKept
    <3>5. cv[c] = ch[c] /\ bv[c] = bk[c]
      BY <1>5, <2>2
    <3> QED BY <3>1, <3>4, <3>5 DEF ChainIs
  <2> QED BY <2>1, <2>2
<1>11. ASSUME NEW c \in 0 .. n - 1, NEW j \in 1 .. Len(cv[c])
       PROVE  cv[c][j] \in S \ {e} /\ Home(cv[c][j], n) = c
  <2>1. CASE c = b
    <3>1. j \in 1 .. Len(v) /\ cv[c][j] = v[j]
      BY <1>5, <2>1
    <3>2. \E k \in 1 .. Len(t) : v[j] = t[k]
      <4>1. j \in 1 .. Len(t) - 1 /\ j \in 1 .. Len(t) /\ j + 1 \in 1 .. Len(t)
        BY <1>2, <1>4, <3>1
      <4> QED BY <1>4, <4>1
    <3> QED BY <1>4, <1>9, <2>1, <3>1, <3>2
  <2>2. CASE c # b
    BY <1>1, <1>5, <1>6, <2>2
  <2> QED BY <2>1, <2>2
<1>12. ASSUME NEW x \in S \ {e}
       PROVE  \E j \in 1 .. Len(cv[Home(x, n)]) : cv[Home(x, n)][j] = x
  <2>1. Home(x, n) \in 0 .. n - 1
    BY <1>0, HomeIs
  <2>2. PICK j \in 1 .. Len(ch[Home(x, n)]) : ch[Home(x, n)][j] = x
    BY <1>1
  <2>3. CASE Home(x, n) = b
    <3>1. j \in 1 .. Len(t) /\ t[j] = x /\ j # i
      BY <2>2, <2>3 DEF t, e
    <3>2. \E k \in 1 .. Len(v) : v[k] = x
      BY <1>4, <3>1
    <3> QED BY <1>5, <2>3, <3>2
  <2>4. CASE Home(x, n) # b
    BY <1>5, <2>1, <2>2, <2>4
  <2> QED BY <2>3, <2>4
<1>13. S \ {e} \subseteq Elts
  BY <1>0
<1>14. Holding(bv, fn, fp, n, cv, S \ {e})
  BY <1>0, <1>3, <1>8, <1>10, <1>11, <1>12, <1>13 DEF Holding
<1> QED BY <1>4, <1>5, <1>7, <1>14 DEF t, e, HeldLess

-----------------------------------------------------------------------------
(* The sum of the lengths of the chains *)

SumsTo(ch, n, at) ==
  at \in [0 .. n -> Int] /\ at[0] = 0 /\ \A k \in 1 .. n : at[k] = at[k - 1] + Len(ch[k - 1])
Summed(ch, n, m) == \E at : SumsTo(ch, n, at) /\ at[n] = m

LEMMA SumsAreNat ==
  ASSUME NEW n \in Nat, NEW ch \in [0 .. n - 1 -> Seq(Elts)], NEW at, SumsTo(ch, n, at)
  PROVE  at \in [0 .. n -> Nat]
<1> DEFINE Q == { k \in Nat : k <= n => at[k] \in Nat }
<1>0. at \in [0 .. n -> Int] /\ at[0] = 0 /\ \A k \in 1 .. n : at[k] = at[k - 1] + Len(ch[k - 1])
  BY DEF SumsTo
<1>1. 0 \in Q
  BY <1>0
<1>2. ASSUME NEW k \in Nat, k \in Q PROVE k + 1 \in Q
  <2> SUFFICES ASSUME k + 1 <= n PROVE at[k + 1] \in Nat
    OBVIOUS
  <2>1. k + 1 \in 1 .. n /\ k + 1 - 1 = k /\ k \in 0 .. n - 1 /\ at[k] \in Nat
    BY <1>2
  <2>2. ch[k] \in Seq(Elts) /\ Len(ch[k]) \in Nat
    BY <2>1, LenProperties
  <2>3. at[k + 1] = at[k] + Len(ch[k])
    BY <1>0, <2>1
  <2> QED BY <2>1, <2>2, <2>3
<1>3. \A k \in Nat : k \in Q
  <2> HIDE DEF Q
  <2> QED BY <1>1, <1>2, Induction
<1>4. \A k \in 0 .. n : at[k] \in Nat
  BY <1>3
<1> QED BY <1>0, <1>4

LEMMA SumChanges ==
  ASSUME NEW n \in Nat, NEW ch \in [0 .. n - 1 -> Seq(Elts)], NEW m, Summed(ch, n, m),
         NEW b \in 0 .. n - 1, NEW v \in Seq(Elts), NEW d \in Int, Len(v) = Len(ch[b]) + d,
         NEW cv, cv = [ch EXCEPT ![b] = v]
  PROVE  Summed(cv, n, m + d)
<1>1. PICK at : SumsTo(ch, n, at) /\ at[n] = m
  BY DEF Summed
<1> DEFINE to == [k \in 0 .. n |-> IF k <= b THEN at[k] ELSE at[k] + d]
<1>2. at \in [0 .. n -> Int] /\ at[0] = 0 /\ \A k \in 1 .. n : at[k] = at[k - 1] + Len(ch[k - 1])
  BY <1>1 DEF SumsTo
<1>3. to \in [0 .. n -> Int] /\ to[0] = 0 /\ to[n] = m + d
  BY <1>1, <1>2, SMTT(20)
<1>4. ASSUME NEW k \in 1 .. n PROVE to[k] = to[k - 1] + Len(cv[k - 1])
  <2>1. PICK c \in Int : c = k - 1
    OBVIOUS
  <2>2. /\ c \in 0 .. n - 1 /\ c \in 0 .. n /\ k \in 0 .. n /\ k = c + 1
        /\ at[k] = at[c] + Len(ch[c]) /\ at[k] \in Int /\ at[c] \in Int
    BY <1>2, <2>1
  <2>3. ch[c] \in Seq(Elts) /\ Len(ch[c]) \in Nat /\ Len(v) \in Nat
    BY <2>2, LenProperties
  <2>4. cv[c] = IF c = b THEN v ELSE ch[c]
    BY <2>2
  <2>5. to[k] = (IF k <= b THEN at[k] ELSE at[k] + d)
        /\ to[c] = (IF c <= b THEN at[c] ELSE at[c] + d)
    BY <2>2
  <2> HIDE DEF to
  <2>6. to[k] = to[c] + Len(cv[c])
    <3>1. CASE c = b
      <4>1. cv[c] = v /\ Len(v) = Len(ch[c]) + d
        BY <2>4, <3>1
      <4>2. to[k] = at[k] + d /\ to[c] = at[c]
        BY <2>2, <2>5, <3>1
      <4>3. PICK x \in Int, y \in Int, z \in Int, u \in Int :
              x = at[k] /\ y = at[c] /\ z = Len(ch[c]) /\ u = Len(v)
        BY <2>2, <2>3
      <4>4. x = y + z /\ u = z + d
        BY <2>2, <4>1, <4>3
      <4>5. x + d = y + u
        <5>1. x \in Int /\ y \in Int /\ z \in Int /\ u \in Int /\ d \in Int
          BY <4>3
        <5>2. x = y + z
          BY <4>4
        <5>3. u = z + d
          BY <4>4
        <5>4. x + d = y + z + d
          BY <5>1, <5>2
        <5>5. y + u = y + (z + d)
          BY <5>1, <5>3
        <5> QED BY <5>1, <5>4, <5>5
      <4> QED BY <4>1, <4>2, <4>3, <4>5
    <3>2. CASE c # b
      <4>1. cv[c] = ch[c]
        BY <2>4, <3>2
      <4>2. (to[k] = at[k] /\ to[c] = at[c]) \/ (to[k] = at[k] + d /\ to[c] = at[c] + d)
        BY <2>2, <2>5, <3>2
      <4>3. PICK x \in Int, y \in Int, z \in Int : x = at[k] /\ y = at[c] /\ z = Len(ch[c])
        BY <2>2, <2>3
      <4> QED BY <2>2, <4>1, <4>2, <4>3, SMTT(20)
    <3> QED BY <3>1, <3>2
  <2> QED BY <2>1, <2>6
<1>5. SumsTo(cv, n, to)
  <2> HIDE DEF to
  <2> QED BY <1>3, <1>4 DEF SumsTo
<1> HIDE DEF to
<1> QED BY <1>3, <1>5 DEF Summed

-----------------------------------------------------------------------------
(* Every item moves to the bucket it has in the larger table *)

PushedOn(k, e) == [hh_head |-> e, count |-> k.count + 1, expand_mult |-> k.expand_mult]
Multiplied(k, mult) == [hh_head |-> k.hh_head, count |-> k.count, expand_mult |-> mult]

LEMMA BucketIs ==
  ASSUME StackAssumption, NEW k \in Bucket, NEW e \in Elts, NEW mult \in Nat
  PROVE  /\ k = [hh_head |-> k.hh_head, count |-> k.count, expand_mult |-> k.expand_mult]
         /\ k.hh_head \in Nodes /\ k.count \in Nat /\ k.expand_mult \in Nat
         /\ PushedOn(k, e) \in Bucket /\ PushedOn(k, e).hh_head = e
         /\ PushedOn(k, e).count = k.count + 1 /\ PushedOn(k, e).expand_mult = k.expand_mult
         /\ Multiplied(k, mult) \in Bucket /\ Multiplied(k, mult).hh_head = k.hh_head
         /\ Multiplied(k, mult).count = k.count /\ Multiplied(k, mult).expand_mult = mult
BY DEF Bucket, PushedOn, Multiplied, Nodes

LEMMA PushedOnIs ==
  ASSUME NEW k, k = [hh_head |-> k.hh_head, count |-> k.count, expand_mult |-> k.expand_mult], NEW e
  PROVE  [k EXCEPT !.hh_head = e, !.count = @ + 1] = PushedOn(k, e)
<1> DEFINE as(x, y, z) == [g \in {"hh_head", "count", "expand_mult"} |->
                             IF g = "hh_head" THEN x ELSE IF g = "count" THEN y ELSE z]
<1>1. DOMAIN k = {"hh_head", "count", "expand_mult"}
  OBVIOUS
<1>2. [k EXCEPT !.hh_head = e, !.count = @ + 1] = as(e, k.count + 1, k.expand_mult)
  BY <1>1
<1>3. PushedOn(k, e) = as(e, k.count + 1, k.expand_mult)
  BY DEF PushedOn
<1> QED BY <1>2, <1>3

Pushed(bk, b, e) == [bk EXCEPT ![b] = PushedOn(bk[b], e)]

LEMMA PushFrontIs ==
  ASSUME NEW n \in Nat, NEW bk \in [0 .. n - 1 -> Bucket], NEW b \in 0 .. n - 1, NEW e
  PROVE  Hash!PushFront(bk, b, e) = Pushed(bk, b, e)
<1>1. PICK k \in Bucket : k = bk[b]
  OBVIOUS
<1>2. k = [hh_head |-> k.hh_head, count |-> k.count, expand_mult |-> k.expand_mult]
  BY DEF Bucket
<1>3. [k EXCEPT !.hh_head = e, !.count = @ + 1] = PushedOn(k, e)
  BY <1>2, PushedOnIs
<1>4. Hash!PushFront(bk, b, e) = [bk EXCEPT ![b] = [k EXCEPT !.hh_head = e, !.count = @ + 1]]
  BY <1>1 DEF Hash!PushFront
<1> QED BY <1>1, <1>3, <1>4 DEF Pushed

LEMMA MultiplierIs ==
  ASSUME NEW ideal \in Nat \ {0}, NEW k \in Bucket, k.count - 1 <= (k.expand_mult + 1) * ideal
  PROVE  LET mult == Hash!Multiplier(k, ideal)
         IN  mult \in Nat /\ k.count <= (mult + 1) * ideal
<1>1. PICK c \in Nat, m \in Nat : c = k.count /\ m = k.expand_mult
  BY DEF Bucket
<1>2. PICK p \in Nat : p = m * ideal
  BY <1>1
<1>3. (m + 1) * ideal = p + ideal /\ (m + 1 + 1) * ideal = p + 2 * ideal
  BY <1>1, <1>2
<1>4. c - 1 <= p + ideal
  BY <1>1, <1>3
<1>5. Hash!Multiplier(k, ideal) = IF c > ideal /\ c > p THEN m + 1 ELSE m
  BY <1>1, <1>2 DEF Hash!Multiplier
<1>6. CASE c > ideal /\ c > p
  <2>1. Hash!Multiplier(k, ideal) = m + 1 /\ c <= p + 2 * ideal
    BY <1>1, <1>2, <1>4, <1>5, <1>6
  <2> QED BY <1>1, <1>3, <2>1
<1>7. CASE ~ (c > ideal /\ c > p)
  <2>1. Hash!Multiplier(k, ideal) = m /\ c <= p + ideal
    BY <1>1, <1>2, <1>4, <1>5, <1>7
  <2> QED BY <1>1, <1>3, <2>1
<1> QED BY <1>6, <1>7

\* What a larger table holds after m items, those of S, have moved.
Moved(x, n, ideal, S, m) ==
  /\ \E ch : Holding(x.buckets, x.hh_next, x.hh_prev, n, ch, S) /\ Summed(ch, n, m)
  /\ \A b \in 0 .. n - 1 : x.buckets[b].count <= (x.buckets[b].expand_mult + 1) * ideal

LEMMA MoveItemKeeps ==
  ASSUME StackAssumption, HashAssumption, NEW x, NEW n, NEW ideal \in Nat \ {0}, NEW S, NEW m \in Int,
         Moved(x, n, ideal, S, m), NEW e \in Elts, e \notin S
  PROVE  Moved(Hash!MoveItem(x, e, n, ideal), n, ideal, S \cup {e}, m + 1)
<1> DEFINE b == Home(e, n)
           bk == x.buckets
           k == PushedOn(bk[b], e)
           mult == Hash!Multiplier(k, ideal)
           B == Multiplied(k, mult)
           y == Hash!MoveItem(x, e, n, ideal)
           pushed0 == Hash!PushFront(bk, b, e)
<1>1. PICK ch : Holding(bk, x.hh_next, x.hh_prev, n, ch, S) /\ Summed(ch, n, m)
  BY DEF Moved
<1>2. /\ n \in Nat \ {0} /\ x.hh_next \in Linkage /\ x.hh_prev \in Linkage
      /\ bk \in [0 .. n - 1 -> Bucket] /\ ch \in [0 .. n - 1 -> Seq(Elts)] /\ b \in 0 .. n - 1
  BY <1>1, HomeIs DEF Holding
<1>3. bk[b] \in Bucket /\ bk[b].hh_head = At(ch[b], 1) /\ bk[b].count \in Nat /\ bk[b].expand_mult \in Nat
  BY <1>1, <1>2 DEF Holding, ChainIs, Bucket
<1>4. k \in Bucket /\ k.hh_head = e /\ k.count = bk[b].count + 1 /\ k.expand_mult = bk[b].expand_mult
  BY <1>3, BucketIs
<1>5. k.count - 1 <= (k.expand_mult + 1) * ideal
  <2>1. bk[b].count <= (bk[b].expand_mult + 1) * ideal
    BY <1>2 DEF Moved
  <2>2. k.count - 1 = bk[b].count
    BY <1>3, <1>4
  <2> QED BY <1>4, <2>1, <2>2
<1>6. mult \in Nat /\ k.count <= (mult + 1) * ideal
  BY <1>4, <1>5, MultiplierIs
<1> HIDE DEF mult
<1>7. B \in Bucket /\ B.hh_head = e /\ B.count = bk[b].count + 1 /\ B.expand_mult = mult
  BY <1>4, <1>6, BucketIs
<1>8. pushed0 = [bk EXCEPT ![b] = k]
  <2>1. n \in Nat /\ bk \in [0 .. n - 1 -> Bucket] /\ b \in 0 .. n - 1
    BY <1>2
  <2>2. pushed0 = Pushed(bk, b, e)
    <3> HIDE DEF b, bk, k
    <3> QED BY <2>1, PushFrontIs
  <2> QED BY <2>2 DEF Pushed
<1>9. /\ y.buckets = [pushed0 EXCEPT ![b].expand_mult = Hash!Multiplier(pushed0[b], ideal)]
      /\ y.hh_next = [x.hh_next EXCEPT ![e] = bk[b].hh_head]
      /\ y.hh_prev = Hash!Put([x.hh_prev EXCEPT ![e] = NULL], bk[b].hh_head, e)
  BY DEF Hash!MoveItem, Home
<1> HIDE DEF pushed0, k, y
<1>10. y.buckets = [bk EXCEPT ![b] = B]
  <2>1. pushed0[b] = k
    BY <1>2, <1>8
  <2>2. [k EXCEPT !.expand_mult = mult] = B
    BY <1>4 DEF Bucket, Multiplied
  <2>3. y.buckets = [pushed0 EXCEPT ![b] = [k EXCEPT !.expand_mult = mult]]
    BY <1>9, <2>1 DEF mult
  <2> QED BY <1>2, <1>8, <2>2, <2>3
<1>11. y.hh_next = NextIn(x.hh_next, ch[b], 1, e) /\ y.hh_prev = PrevIn(x.hh_prev, ch[b], 1, e)
  BY <1>3, <1>9 DEF NextIn, PrevIn, Prior, Hash!Put
<1>0. b = Home(e, n) /\ B \in Bucket
  BY <1>7
<1> HIDE DEF B, b, bk
<1>12. PICK cv : cv = [ch EXCEPT ![b] = List!Order!Enter(ch[b], 1, e)]
  OBVIOUS
<1>13. /\ Holding(y.buckets, y.hh_next, y.hh_prev, n, cv, S \cup {e})
       /\ cv[b] \in Seq(Elts) /\ Len(cv[b]) = Len(ch[b]) + 1
  <2>1. PICK bv, hn, hp, fn, fp : bv = y.buckets /\ hn = x.hh_next /\ hp = x.hh_prev
                                  /\ fn = y.hh_next /\ fp = y.hh_prev
    OBVIOUS
  <2>2. Holding(bk, hn, hp, n, ch, S) /\ B.hh_head = e /\ B.count = bk[b].count + 1
    BY <1>1, <1>7, <2>1
  <2>3. bv = [bk EXCEPT ![b] = B]
    BY <1>10, <2>1
  <2>4. fn = NextIn(hn, ch[b], 1, e) /\ fp = PrevIn(hp, ch[b], 1, e)
    BY <1>11, <2>1
  <2>5. Pushes(bk, hn, hp, n, ch, S, e, b, B, bv, fn, fp, cv)
    BY <1>0, <1>12, <2>2, <2>3, <2>4 DEF Pushes
  <2>6. /\ Holding(bv, fn, fp, n, cv, S \cup {e})
        /\ cv[b] \in Seq(Elts) /\ Len(cv[b]) = Len(ch[b]) + 1
    BY <2>5, HoldingPushes
  <2> QED BY <2>1, <2>6
<1>14. Summed(cv, n, m + 1)
  <2>1. cv = [ch EXCEPT ![b] = cv[b]]
    BY <1>2, <1>12
  <2>2. n \in Nat /\ 1 \in Int
    BY <1>2
  <2> QED BY <1>1, <1>2, <1>13, <2>1, <2>2, SumChanges
<1>15. ASSUME NEW c \in 0 .. n - 1
       PROVE  y.buckets[c].count <= (y.buckets[c].expand_mult + 1) * ideal
  <2>1. CASE c = b
    <3>1. y.buckets[c] = B /\ B.count = k.count
      BY <1>2, <1>4, <1>7, <1>10, <2>1
    <3> QED BY <1>6, <1>7, <3>1
  <2>2. CASE c # b
    <3>1. y.buckets[c] = bk[c]
      BY <1>2, <1>10, <2>2
    <3> QED BY <3>1 DEF Moved, bk
  <2> QED BY <2>1, <2>2
<1> QED BY <1>13, <1>14, <1>15 DEF Moved, y

-----------------------------------------------------------------------------
(* All the items of a table, chain after chain *)

LEMMA HashFlatten ==
  ASSUME NEW x
  PROVE  Hash!FlattenSeq(x) = List!FlattenSeq(x)
BY DEF Hash!FlattenSeq, List!FlattenSeq

LEMMA ItemsAre ==
  ASSUME StackAssumption, HashAssumption, NEW bk, NEW hn, NEW hp, NEW n, NEW ch, NEW S, NEW m,
         Holding(bk, hn, hp, n, ch, S), Summed(ch, n, m)
  PROVE  LET v == Hash!FlattenSeq([k \in 1 .. n |-> ch[k - 1]])
         IN  /\ Distinct(v) /\ Len(v) = m
             /\ \A j \in 1 .. Len(v) : v[j] \in S
             /\ \A e \in S : \E j \in 1 .. Len(v) : v[j] = e
<1> DEFINE x == [k \in 1 .. n |-> ch[k - 1]]
           v == Hash!FlattenSeq(x)
<1>0. /\ n \in Nat \ {0} /\ n \in Nat /\ S \subseteq Elts /\ ch \in [0 .. n - 1 -> Seq(Elts)]
      /\ \A b \in 0 .. n - 1 : Distinct(ch[b])
      /\ \A b \in 0 .. n - 1 : \A j \in 1 .. Len(ch[b]) : ch[b][j] \in S /\ Home(ch[b][j], n) = b
      /\ \A e \in S : \E j \in 1 .. Len(ch[Home(e, n)]) : ch[Home(e, n)][j] = e
  BY DEF Holding, ChainIs
<1>1. PICK at : SumsTo(ch, n, at) /\ at[n] = m
  BY DEF Summed
<1>2. at \in [0 .. n -> Nat]
  BY <1>0, <1>1, SumsAreNat
<1>3. x \in [1 .. n -> Seq(Elts)] /\ \A k \in 1 .. n : x[k] = ch[k - 1] /\ k - 1 \in 0 .. n - 1
  BY <1>0
<1> HIDE DEF x
<1>4. at[0] = 0 /\ \A k \in 1 .. n : at[k] = at[k - 1] + Len(x[k])
  BY <1>1, <1>3 DEF SumsTo
<1>5. Ends(x, at, n)
  BY <1>0, <1>2, <1>3, <1>4 DEF Ends
<1>6. /\ v \in Seq(Elts) /\ Len(v) = at[n]
      /\ \A k \in 1 .. n : \A j \in 1 .. Len(x[k]) : v[at[k - 1] + j] = x[k][j]
  BY <1>5, FlattenIs, HashFlatten
<1> HIDE DEF v
<1>7. \A k \in 0 .. n - 1 : k + 1 \in 1 .. n /\ at[k + 1] = at[k] + Len(x[k + 1])
  <2> SUFFICES ASSUME NEW k \in 0 .. n - 1 PROVE k + 1 \in 1 .. n /\ at[k + 1] = at[k] + Len(x[k + 1])
    OBVIOUS
  <2>1. PICK c \in 1 .. n : c = k + 1
    BY <1>0
  <2>2. c - 1 = k
    BY <2>1
  <2> QED BY <1>4, <2>1, <2>2
<1>8. \A k \in Nat : k <= n => \A p \in 1 .. at[k] : \E c \in 1 .. k : \E j \in 1 .. Len(x[c]) :
                                 p = at[c - 1] + j
  <2> DEFINE Q == { k \in Nat : k <= n => \A p \in 1 .. at[k] : \E c \in 1 .. k :
                                            \E j \in 1 .. Len(x[c]) : p = at[c - 1] + j }
  <2>1. 0 \in Q
    BY <1>4
  <2>2. ASSUME NEW k \in Nat, k \in Q PROVE k + 1 \in Q
    <3> SUFFICES ASSUME k + 1 <= n, NEW p \in 1 .. at[k + 1]
                 PROVE  \E c \in 1 .. k + 1 : \E j \in 1 .. Len(x[c]) : p = at[c - 1] + j
      OBVIOUS
    <3>1. /\ k <= n /\ k \in 0 .. n /\ k + 1 \in 1 .. n /\ k + 1 - 1 = k
          /\ at[k] \in Nat /\ at[k + 1] = at[k] + Len(x[k + 1])
      BY <1>0, <1>2, <1>7
    <3>2. Len(x[k + 1]) \in Nat
      BY <1>3, <3>1, LenProperties
    <3>3. CASE p <= at[k]
      <4>1. p \in 1 .. at[k]
        BY <3>1, <3>3
      <4>2. PICK c \in 1 .. k : \E j \in 1 .. Len(x[c]) : p = at[c - 1] + j
        BY <2>2, <3>1, <4>1
      <4>3. c \in 1 .. k + 1
        BY <4>2
      <4> QED BY <4>2, <4>3
    <3>4. CASE p > at[k]
      <4>1. PICK j \in 1 .. Len(x[k + 1]) : p = at[k] + j
        <5>1. p - at[k] \in 1 .. Len(x[k + 1]) /\ p = at[k] + (p - at[k])
          BY <3>1, <3>2, <3>4
        <5> QED BY <5>1
      <4>2. k + 1 \in 1 .. k + 1
        OBVIOUS
      <4> QED BY <3>1, <4>1, <4>2
    <3> QED BY <3>1, <3>3, <3>4
  <2> HIDE DEF Q
  <2>3. \A k \in Nat : k \in Q
    BY <2>1, <2>2, Induction
  <2> QED BY <2>3 DEF Q
<1>9. \A p \in 1 .. Len(v) : \E c \in 1 .. n : \E j \in 1 .. Len(x[c]) :
        p = at[c - 1] + j /\ v[p] = x[c][j]
  <2> SUFFICES ASSUME NEW p \in 1 .. Len(v)
               PROVE  \E c \in 1 .. n : \E j \in 1 .. Len(x[c]) : p = at[c - 1] + j /\ v[p] = x[c][j]
    OBVIOUS
  <2>1. n <= n /\ p \in 1 .. at[n]
    BY <1>0, <1>6
  <2>2. PICK c \in 1 .. n : \E j \in 1 .. Len(x[c]) : p = at[c - 1] + j
    BY <1>0, <1>8, <2>1
  <2>3. PICK j \in 1 .. Len(x[c]) : p = at[c - 1] + j
    BY <2>2
  <2>4. v[p] = x[c][j]
    BY <1>6, <2>2, <2>3
  <2> QED BY <2>2, <2>3, <2>4
<1>10. \A c \in 1 .. n : \A j \in 1 .. Len(x[c]) : x[c][j] \in S /\ Home(x[c][j], n) = c - 1
  BY <1>0, <1>3
<1>11. ASSUME NEW p \in 1 .. Len(v), NEW q \in 1 .. Len(v), v[p] = v[q] PROVE p = q
  <2>a. PICK c \in 1 .. n : \E j \in 1 .. Len(x[c]) : p = at[c - 1] + j /\ v[p] = x[c][j]
    BY <1>9
  <2>1. PICK j \in 1 .. Len(x[c]) : p = at[c - 1] + j /\ v[p] = x[c][j]
    BY <2>a
  <2>b. PICK d \in 1 .. n : \E k \in 1 .. Len(x[d]) : q = at[d - 1] + k /\ v[q] = x[d][k]
    BY <1>9
  <2>2. PICK k \in 1 .. Len(x[d]) : q = at[d - 1] + k /\ v[q] = x[d][k]
    BY <2>b
  <2>3. c - 1 = d - 1
    BY <1>10, <1>11, <2>1, <2>2
  <2>4. c = d
    BY <1>0, <2>1, <2>2, <2>3
  <2>5. Distinct(x[c])
    BY <1>0, <1>3, <2>1
  <2>6. j = k
    BY <1>11, <2>1, <2>2, <2>4, <2>5 DEF Distinct
  <2> QED BY <2>1, <2>2, <2>4, <2>6
<1>12. \A p \in 1 .. Len(v) : v[p] \in S
  BY <1>9, <1>10
<1>13. \A k \in Nat : k <= n => \A c \in 0 .. k : at[c] <= at[k]
  <2> DEFINE Q == { k \in Nat : k <= n => \A c \in 0 .. k : at[c] <= at[k] }
  <2>1. 0 \in Q
    BY <1>4
  <2>2. ASSUME NEW k \in Nat, k \in Q PROVE k + 1 \in Q
    <3> SUFFICES ASSUME k + 1 <= n, NEW c \in 0 .. k + 1 PROVE at[c] <= at[k + 1]
      OBVIOUS
    <3>1. /\ k <= n /\ k \in 0 .. n /\ k + 1 \in 1 .. n /\ k + 1 - 1 = k /\ c \in 0 .. n
          /\ at[k] \in Nat /\ at[k + 1] = at[k] + Len(x[k + 1]) /\ at[c] \in Nat
      BY <1>0, <1>2, <1>7
    <3>2. Len(x[k + 1]) \in Nat
      BY <1>3, <3>1, LenProperties
    <3>3. CASE c = k + 1
      BY <3>1, <3>2, <3>3
    <3>4. CASE c # k + 1
      <4>1. c \in 0 .. k
        BY <3>4
      <4>2. at[c] <= at[k]
        BY <2>2, <3>1, <4>1
      <4> QED BY <3>1, <3>2, <4>2
    <3> QED BY <3>3, <3>4
  <2> HIDE DEF Q
  <2>3. \A k \in Nat : k \in Q
    BY <2>1, <2>2, Induction
  <2> QED BY <2>3 DEF Q
<1>14. ASSUME NEW e \in S PROVE \E p \in 1 .. Len(v) : v[p] = e
  <2>1. PICK j \in 1 .. Len(ch[Home(e, n)]) : ch[Home(e, n)][j] = e
    BY <1>0
  <2>2. Home(e, n) \in 0 .. n - 1
    BY <1>0, HomeIs
  <2>3. PICK c \in 1 .. n : c - 1 = Home(e, n)
    <3>1. PICK h \in 0 .. n - 1 : h = Home(e, n)
      BY <2>2
    <3>2. h + 1 \in 1 .. n /\ h + 1 - 1 = h
      BY <1>0
    <3> QED BY <3>1, <3>2
  <2>4. j \in 1 .. Len(x[c]) /\ x[c][j] = e
    BY <1>3, <2>1, <2>3
  <2>5. v[at[c - 1] + j] = e
    BY <1>6, <2>4
  <2>6. at[c - 1] + j \in 1 .. Len(v)
    <3>1. at[c] <= at[n] /\ at[c] = at[c - 1] + Len(x[c])
      BY <1>0, <1>4, <1>13
    <3>2. at[c] \in Nat /\ at[n] \in Nat /\ at[c - 1] \in Nat /\ Len(x[c]) \in Nat
      BY <1>0, <1>2, <1>3, LenProperties
    <3> QED BY <1>6, <2>4, <3>1, <3>2, SMTT(20)
  <2> QED BY <2>5, <2>6
<1>15. Len(v) = m /\ Len(v) \in Nat /\ \A p \in 1 .. Len(v) : v[p] \in Elts
  BY <1>0, <1>1, <1>6, <1>12, LenProperties
<1>16. Distinct(v)
  BY <1>6, <1>11, <1>15 DEF Distinct
<1> QED BY <1>12, <1>14, <1>15, <1>16 DEF v, x

-----------------------------------------------------------------------------
(* Expansion *)

Fields == {"head", "tail", "num_buckets", "buckets", "num_items", "ideal_chain_maxlen",
           "ineff_expands", "noexpand", "next", "prev", "hh_next", "hh_prev"}
IsTable(t) == t = [g \in Fields |-> t[g]]

Chained(t, S, m) ==
  \E ch : /\ Holding(t.buckets, t.hh_next, t.hh_prev, t.num_buckets, ch, S)
          /\ Summed(ch, t.num_buckets, m)

\* What chains are bounded by, of the table of ChainsBounded.
Bounded(t) ==
  \A b \in 0 .. t.num_buckets - 1 :
    \E most \in {HASH_BKT_CAPACITY_THRESH, t.ideal_chain_maxlen} :
      t.buckets[b].count <= (t.buckets[b].expand_mult + 1) * most

LEMMA IdealIs ==
  ASSUME NEW m \in Nat \ {0}, NEW n \in Nat \ {0}
  PROVE  (m \div n) + (IF m % n # 0 THEN 1 ELSE 0) \in Nat \ {0}
<1>1. m \div n \in Nat /\ m % n \in 0 .. n - 1 /\ m = n * (m \div n) + (m % n)
  OBVIOUS
<1>2. CASE m \div n = 0
  BY <1>1, <1>2
<1>3. CASE m \div n # 0
  BY <1>1, <1>3
<1> QED BY <1>2, <1>3

LEMMA NoneHeld ==
  ASSUME StackAssumption, NEW n \in Nat \ {0}, NEW hn \in Linkage, NEW hp \in Linkage
  PROVE  /\ \E ch : Holding(Hash!Buckets(n), hn, hp, n, ch, {}) /\ Summed(ch, n, 0)
         /\ \A b \in 0 .. n - 1 : Hash!Buckets(n)[b].count = 0 /\ Hash!Buckets(n)[b].expand_mult = 0
<1> DEFINE ch == [b \in 0 .. n - 1 |-> <<>>]
           none == [hh_head |-> NULL, count |-> 0, expand_mult |-> 0]
           at == [k \in 0 .. n |-> 0]
<1>1. Hash!Buckets(n) = [b \in 0 .. n - 1 |-> none]
  BY DEF Hash!Buckets, Hash!EmptyBucket
<1>2. ChainIs(none, <<>>, hn, hp)
  BY DEF ChainIs, Bucket, Nodes, At, Distinct, Doubly, Linked, Mirrored
<1>3. none \in Bucket /\ none.count = 0 /\ none.expand_mult = 0
  BY DEF Bucket, Nodes
<1>4. \A b \in 0 .. n - 1 : ch[b] = <<>>
  OBVIOUS
<1>5. Holding(Hash!Buckets(n), hn, hp, n, ch, {})
  <2> HIDE DEF none
  <2>1. ch \in [0 .. n - 1 -> Seq(Elts)]
    OBVIOUS
  <2> HIDE DEF ch
  <2> QED BY <1>1, <1>2, <1>3, <1>4, <2>1 DEF Holding
<1>6. SumsTo(ch, n, at) /\ at[n] = 0
  BY DEF SumsTo
<1>7. \A b \in 0 .. n - 1 : Hash!Buckets(n)[b].count = 0 /\ Hash!Buckets(n)[b].expand_mult = 0
  BY <1>1, <1>3
<1> HIDE DEF ch, at
<1> QED BY <1>5, <1>6, <1>7 DEF Summed

LEMMA ExpandKeeps ==
  ASSUME StackAssumption, HashAssumption, NEW t, IsTable(t), NEW S, NEW m \in Nat \ {0},
         Chained(t, S, m), t.num_items = m
  PROVE  LET r == Hash!HASH_EXPAND_BUCKETS(t)
         IN  /\ IsTable(r) /\ Chained(r, S, m) /\ Bounded(r) /\ r.ideal_chain_maxlen \in Nat
             /\ r.head = t.head /\ r.tail = t.tail /\ r.next = t.next /\ r.prev = t.prev
             /\ r.num_items = m
<1> DEFINE r == Hash!HASH_EXPAND_BUCKETS(t)
           o == t.num_buckets
           n == 2 * o
           ideal == (m \div n) + (IF m % n # 0 THEN 1 ELSE 0)
           items == Hash!FlattenSeq([i \in 1 .. o |-> Hash!Chain(t, i - 1)])
           none == [buckets |-> Hash!Buckets(n), nonideal_items |-> 0,
                    hh_next |-> t.hh_next, hh_prev |-> t.hh_prev]
           Turn(x, k) == Hash!MoveItem(x, items[k], n, ideal)
           Body(f, N) == [k \in 0 .. N |-> IF k = 0 THEN none ELSE Turn(f[k - 1], k)]
           f0 == CHOOSE f : f = Body(f, Len(items))
           all == f0[Len(items)]
           ineff == IF all.nonideal_items > m \div 2 THEN t.ineff_expands + 1 ELSE 0
           Upto(k) == { items[j] : j \in 1 .. k }
<1>1. PICK ch : Holding(t.buckets, t.hh_next, t.hh_prev, o, ch, S) /\ Summed(ch, o, m)
  BY DEF Chained
<1>2. /\ o \in Nat \ {0} /\ n \in Nat \ {0} /\ t.hh_next \in Linkage /\ t.hh_prev \in Linkage
      /\ S \subseteq Elts
  BY <1>1 DEF Holding
<1>3. ideal \in Nat \ {0}
  <2> HIDE DEF n
  <2> QED BY <1>2, IdealIs
<1>4. [i \in 1 .. o |-> Hash!Chain(t, i - 1)] = [i \in 1 .. o |-> ch[i - 1]]
  <2>1. ASSUME NEW i \in 1 .. o PROVE Hash!Chain(t, i - 1) = ch[i - 1]
    <3>1. i - 1 \in 0 .. o - 1
      BY <1>2
    <3>2. Hash!Walk(t.buckets[i - 1].hh_head, t.hh_next) = ch[i - 1]
      BY <1>1, <3>1, ChainsWalked
    <3> QED BY <3>2 DEF Hash!Chain
  <2> QED BY <2>1
<1>5. /\ Distinct(items) /\ Len(items) = m /\ \A j \in 1 .. m : items[j] \in S
      /\ \A e \in S : \E j \in 1 .. m : items[j] = e
  <2>1. items = Hash!FlattenSeq([i \in 1 .. o |-> ch[i - 1]])
    BY <1>4
  <2> HIDE DEF items, o
  <2> QED BY <1>1, <2>1, ItemsAre
<1>6. r = [t EXCEPT !.num_buckets = n, !.buckets = all.buckets,
                    !.hh_next = all.hh_next, !.hh_prev = all.hh_prev,
                    !.ideal_chain_maxlen = ideal,
                    !.ineff_expands = ineff, !.noexpand = @ \/ ineff > 1]
  BY DEF Hash!HASH_EXPAND_BUCKETS
<1> HIDE DEF r, items, ideal, n, none
<1>7. f0 = Body(f0, m)
  <2>1. \A N \in Nat : \E f : f = Body(f, N)
    <3> HIDE DEF Turn
    <3> DEFINE Q == { N \in Nat : \E f : f = Body(f, N) }
    <3>1. 0 \in Q
      <4>1. [k \in 0 .. 0 |-> none] = Body([k \in 0 .. 0 |-> none], 0)
        OBVIOUS
      <4> QED BY <4>1
    <3>2. ASSUME NEW N \in Nat, N \in Q PROVE N + 1 \in Q
      <4>1. PICK f : f = Body(f, N)
        BY <3>2
      <4> DEFINE e == [k \in 0 .. N + 1 |-> IF k = N + 1 THEN Turn(f[N], k) ELSE f[k]]
      <4>2. \A k \in 0 .. N : f[k] = IF k = 0 THEN none ELSE Turn(f[k - 1], k)
        BY <4>1
      <4>3. ASSUME NEW k \in 0 .. N + 1
            PROVE  e[k] = IF k = 0 THEN none ELSE Turn(e[k - 1], k)
        <5>1. CASE k = N + 1
          <6>1. k - 1 = N /\ N \in 0 .. N + 1 /\ N # N + 1 /\ k # 0
            BY <5>1
          <6> QED BY <5>1, <6>1
        <5>2. CASE k # N + 1
          <6>1. k \in 0 .. N /\ (k # 0 => k - 1 \in 0 .. N + 1 /\ k - 1 # N + 1)
            BY <5>2
          <6> QED BY <4>2, <5>2, <6>1
        <5> QED BY <5>1, <5>2
      <4>4. e = Body(e, N + 1)
        BY <4>3
      <4> HIDE DEF e
      <4> QED BY <4>4
    <3> HIDE DEF Q
    <3>3. \A N \in Nat : N \in Q
      BY <3>1, <3>2, Induction
    <3> QED BY <3>3 DEF Q
  <2>2. \E f : f = Body(f, m)
    BY <2>1
  <2> HIDE DEF Body
  <2> QED BY <1>5, <2>2
<1> HIDE DEF f0
<1>8. f0[0] = none /\ \A k \in 1 .. m : f0[k] = Turn(f0[k - 1], k)
  <2> HIDE DEF Turn
  <2> QED BY <1>7
<1>9. Moved(none, n, ideal, {}, 0)
  <2>1. /\ \E c : Holding(Hash!Buckets(n), t.hh_next, t.hh_prev, n, c, {}) /\ Summed(c, n, 0)
        /\ \A b \in 0 .. n - 1 : Hash!Buckets(n)[b].count = 0 /\ Hash!Buckets(n)[b].expand_mult = 0
    BY <1>2, NoneHeld
  <2>2. /\ none.buckets = Hash!Buckets(n) /\ none.hh_next = t.hh_next /\ none.hh_prev = t.hh_prev
    BY DEF none
  <2>3. 0 <= (0 + 1) * ideal
    BY <1>3
  <2> QED BY <2>1, <2>2, <2>3 DEF Moved
<1>10. \A k \in Nat : k <= m => Moved(f0[k], n, ideal, Upto(k), k)
  <2> DEFINE Q == { k \in Nat : k <= m => Moved(f0[k], n, ideal, Upto(k), k) }
  <2>1. 0 \in Q
    <3>1. Upto(0) = {}
      OBVIOUS
    <3> HIDE DEF Upto
    <3> QED BY <1>8, <1>9, <3>1
  <2>2. ASSUME NEW k \in Nat, k \in Q PROVE k + 1 \in Q
    <3> SUFFICES ASSUME k + 1 <= m PROVE Moved(f0[k + 1], n, ideal, Upto(k + 1), k + 1)
      OBVIOUS
    <3>1. k + 1 \in 1 .. m /\ k + 1 - 1 = k /\ k <= m /\ k \in Int
      OBVIOUS
    <3>2. Moved(f0[k], n, ideal, Upto(k), k)
      BY <2>2, <3>1
    <3>3. f0[k + 1] = Hash!MoveItem(f0[k], items[k + 1], n, ideal)
      BY <1>8, <3>1
    <3>4. items[k + 1] \in Elts
      BY <1>2, <1>5, <3>1
    <3>5. items[k + 1] \notin Upto(k)
      BY <1>5, <3>1 DEF Distinct
    <3>6. Upto(k + 1) = Upto(k) \cup {items[k + 1]}
      BY <3>1
    <3> HIDE DEF Upto
    <3>7. PICK e, x, T : e = items[k + 1] /\ x = f0[k] /\ T = Upto(k)
      OBVIOUS
    <3>8. Moved(Hash!MoveItem(x, e, n, ideal), n, ideal, T \cup {e}, k + 1)
      BY <1>3, <3>1, <3>2, <3>4, <3>5, <3>7, MoveItemKeeps
    <3> QED BY <3>3, <3>6, <3>7, <3>8
  <2> HIDE DEF Q
  <2>3. \A k \in Nat : k \in Q
    BY <2>1, <2>2, Induction
  <2> QED BY <2>3 DEF Q
<1>11. Moved(all, n, ideal, S, m)
  <2>1. Upto(m) = S
    BY <1>5
  <2>2. Moved(f0[m], n, ideal, Upto(m), m)
    <3> HIDE DEF Upto
    <3> QED BY <1>10
  <2> HIDE DEF Upto
  <2> QED BY <1>5, <2>1, <2>2
<1> HIDE DEF all, ineff
<1>12. /\ IsTable(r) /\ r.num_buckets = n /\ r.buckets = all.buckets
       /\ r.hh_next = all.hh_next /\ r.hh_prev = all.hh_prev
       /\ r.ideal_chain_maxlen = ideal /\ r.head = t.head /\ r.tail = t.tail
       /\ r.next = t.next /\ r.prev = t.prev /\ r.num_items = m
  BY <1>6 DEF IsTable, Fields
<1>13. Chained(r, S, m)
  BY <1>11, <1>12 DEF Moved, Chained
<1>14. Bounded(r)
  BY <1>11, <1>12 DEF Moved, Bounded
<1> QED BY <1>3, <1>12, <1>13, <1>14 DEF r

-----------------------------------------------------------------------------
(* An element enters its bucket, or leaves it *)

Stored(t, S, m) ==
  Chained(t, S, m) /\ t.ideal_chain_maxlen \in Nat /\ (~ t.noexpand => Bounded(t))

\* The rest of a table that only buckets and chains of have changed.
SameList(r, t) ==
  r.head = t.head /\ r.tail = t.tail /\ r.next = t.next /\ r.prev = t.prev
  /\ r.num_items = t.num_items

Chaining(t, e, b) ==
  [t EXCEPT !.buckets = Hash!PushFront(@, b, e),
            !.hh_next[e] = t.buckets[b].hh_head,
            !.hh_prev = Hash!Put([@ EXCEPT ![e] = NULL], t.buckets[b].hh_head, e)]

Chains(r, t, S, m, e, b) ==
  /\ IsTable(r) /\ Chained(r, S \cup {e}, m + 1) /\ SameList(r, t)
  /\ b \in 0 .. t.num_buckets - 1 /\ r.num_buckets = t.num_buckets
  /\ t.num_buckets \in Nat /\ t.buckets \in [0 .. t.num_buckets - 1 -> Bucket]
  /\ r.buckets = Pushed(t.buckets, b, e)
  /\ r.ideal_chain_maxlen = t.ideal_chain_maxlen /\ r.noexpand = t.noexpand

LEMMA ChainingKeeps ==
  ASSUME StackAssumption, HashAssumption, NEW t, IsTable(t), NEW S, NEW m \in Int,
         Chained(t, S, m), NEW e \in Elts, e \notin S, NEW b, b = Home(e, t.num_buckets)
  PROVE  Chains(Chaining(t, e, b), t, S, m, e, b)
<1> DEFINE r == Chaining(t, e, b)
           n == t.num_buckets
           bk == t.buckets
           B == PushedOn(bk[b], e)
<1>1. PICK ch : Holding(bk, t.hh_next, t.hh_prev, n, ch, S) /\ Summed(ch, n, m)
  BY DEF Chained
<1>2. /\ n \in Nat \ {0} /\ n \in Nat /\ t.hh_next \in Linkage /\ t.hh_prev \in Linkage
      /\ bk \in [0 .. n - 1 -> Bucket] /\ ch \in [0 .. n - 1 -> Seq(Elts)] /\ b \in 0 .. n - 1
  BY <1>1, HomeIs DEF Holding
<1>3. bk[b] \in Bucket /\ bk[b].hh_head = At(ch[b], 1)
  BY <1>1, <1>2 DEF Holding, ChainIs
<1>4. B \in Bucket /\ B.hh_head = e /\ B.count = bk[b].count + 1
  BY <1>3, BucketIs
<1>5. Hash!PushFront(bk, b, e) = Pushed(bk, b, e)
  <2> HIDE DEF n, bk
  <2> QED BY <1>2, PushFrontIs
<1>6. /\ IsTable(r) /\ r.buckets = Hash!PushFront(bk, b, e)
      /\ r.hh_next = [t.hh_next EXCEPT ![e] = bk[b].hh_head]
      /\ r.hh_prev = Hash!Put([t.hh_prev EXCEPT ![e] = NULL], bk[b].hh_head, e)
      /\ SameList(r, t) /\ r.num_buckets = n
      /\ r.ideal_chain_maxlen = t.ideal_chain_maxlen /\ r.noexpand = t.noexpand
  BY DEF Chaining, IsTable, Fields, SameList
<1> HIDE DEF r, B
<1>7. r.hh_next = NextIn(t.hh_next, ch[b], 1, e) /\ r.hh_prev = PrevIn(t.hh_prev, ch[b], 1, e)
  BY <1>3, <1>6 DEF NextIn, PrevIn, Prior, Hash!Put
<1>0. b = Home(e, n) /\ B \in Bucket
  BY <1>4
<1>h. Holding(bk, t.hh_next, t.hh_prev, n, ch, S) /\ Summed(ch, n, m) /\ B = PushedOn(bk[b], e)
  BY <1>1 DEF B
<1>v. r.buckets = [bk EXCEPT ![b] = B]
  BY <1>5, <1>6 DEF Pushed, B
<1>8. PICK n1, k1 : n1 = n /\ k1 = bk
  OBVIOUS
<1> HIDE DEF B
<1>9. PICK cv, hn, hp, bv, fn, fp :
        /\ cv = [ch EXCEPT ![b] = List!Order!Enter(ch[b], 1, e)] /\ hn = t.hh_next /\ hp = t.hh_prev
        /\ bv = r.buckets /\ fn = r.hh_next /\ fp = r.hh_prev
  OBVIOUS
<1>s. Holding(k1, hn, hp, n1, ch, S) /\ Summed(ch, n1, m)
  BY <1>h, <1>8, <1>9
<1>10. /\ Holding(bv, fn, fp, n1, cv, S \cup {e})
       /\ cv[b] \in Seq(Elts) /\ Len(cv[b]) = Len(ch[b]) + 1
  <2>1. b = Home(e, n1) /\ B.hh_head = e /\ B.count = k1[b].count + 1
    BY <1>0, <1>4, <1>8
  <2>2. bv = [k1 EXCEPT ![b] = B]
    BY <1>v, <1>8, <1>9
  <2>3. fn = NextIn(hn, ch[b], 1, e) /\ fp = PrevIn(hp, ch[b], 1, e)
    BY <1>7, <1>9
  <2>4. Pushes(k1, hn, hp, n1, ch, S, e, b, B, bv, fn, fp, cv)
    BY <1>0, <1>9, <1>s, <2>1, <2>2, <2>3 DEF Pushes
  <2>5. PICK c1, B1 : c1 = b /\ B1 = B
    OBVIOUS
  <2>6. Pushes(k1, hn, hp, n1, ch, S, e, c1, B1, bv, fn, fp, cv)
    BY <2>4, <2>5
  <2>7. /\ Holding(bv, fn, fp, n1, cv, S \cup {e})
        /\ cv[c1] \in Seq(Elts) /\ Len(cv[c1]) = Len(ch[c1]) + 1
    <3> HIDE DEF n, bk
    <3> QED BY <2>6, HoldingPushes
  <2> QED BY <2>5, <2>7
<1>11. Summed(cv, n1, m + 1)
  <2>1. cv = [ch EXCEPT ![b] = cv[b]]
    BY <1>2, <1>9
  <2>2. n1 \in Nat /\ 1 \in Int /\ ch \in [0 .. n1 - 1 -> Seq(Elts)] /\ b \in 0 .. n1 - 1
    BY <1>2, <1>8
  <2> QED BY <1>s, <1>10, <2>1, <2>2, SumChanges
<1>12. Chained(r, S \cup {e}, m + 1)
  BY <1>6, <1>8, <1>9, <1>10, <1>11 DEF Chained
<1> QED BY <1>2, <1>5, <1>6, <1>12 DEF r, Chains

LEMMA AddsToBucket ==
  ASSUME StackAssumption, HashAssumption, NEW t, IsTable(t), NEW S, NEW m \in Nat,
         Stored(t, S, m), t.num_items = m + 1, NEW e \in Elts, e \notin S
  PROVE  LET r == Hash!HASH_ADD_TO_BKT(t, e)
         IN  IsTable(r) /\ Stored(r, S \cup {e}, m + 1) /\ SameList(r, t)
<1> DEFINE r == Hash!HASH_ADD_TO_BKT(t, e)
           b == Home(e, t.num_buckets)
           l == Chaining(t, e, b)
           old == t.buckets[b]
           x == Hash!HASH_EXPAND_BUCKETS(l)
           Full == old.count + 1 >= (old.expand_mult + 1) * HASH_BKT_CAPACITY_THRESH
                     /\ ~ t.noexpand
<1>1. r = IF Full THEN x ELSE l
  BY DEF Hash!HASH_ADD_TO_BKT, Chaining, Home
<1>2. Chained(t, S, m) /\ t.ideal_chain_maxlen \in Nat /\ (~ t.noexpand => Bounded(t))
  BY DEF Stored
<1>b. b = Home(e, t.num_buckets)
  OBVIOUS
<1> HIDE DEF b
<1>3. /\ IsTable(l) /\ Chained(l, S \cup {e}, m + 1) /\ SameList(l, t)
      /\ b \in 0 .. t.num_buckets - 1 /\ l.num_buckets = t.num_buckets
      /\ t.num_buckets \in Nat /\ t.buckets \in [0 .. t.num_buckets - 1 -> Bucket]
      /\ l.buckets = Pushed(t.buckets, b, e)
      /\ l.ideal_chain_maxlen = t.ideal_chain_maxlen /\ l.noexpand = t.noexpand
  <2>1. m \in Int
    OBVIOUS
  <2>2. Chains(Chaining(t, e, b), t, S, m, e, b)
    BY <1>2, <1>b, <2>1, ChainingKeeps
  <2> QED BY <2>2 DEF Chains
<1> HIDE DEF l, x, r
<1>4. CASE Full
  <2>1. m + 1 \in Nat \ {0} /\ l.num_items = m + 1
    BY <1>3 DEF SameList
  <2>2. /\ IsTable(x) /\ Chained(x, S \cup {e}, m + 1) /\ Bounded(x) /\ x.ideal_chain_maxlen \in Nat
        /\ x.head = l.head /\ x.tail = l.tail /\ x.next = l.next /\ x.prev = l.prev
        /\ x.num_items = m + 1
    <3>1. PICK k, T : k = m + 1 /\ T = S \cup {e}
      OBVIOUS
    <3> QED BY <1>3, <2>1, <3>1, ExpandKeeps DEF x
  <2>3. r = x
    BY <1>1, <1>4
  <2> QED BY <1>3, <2>2, <2>3 DEF Stored, SameList, r
<1>5. CASE ~ Full
  <2>1. r = l
    BY <1>1, <1>5
  <2>2. ASSUME ~ t.noexpand PROVE Bounded(l)
    <3>1. Bounded(t) /\ ~ (old.count + 1 >= (old.expand_mult + 1) * HASH_BKT_CAPACITY_THRESH)
      BY <1>2, <1>5, <2>2
    <3>2. old \in Bucket
      BY <1>3
    <3>3. /\ old.count \in Nat /\ old.expand_mult \in Nat
          /\ PushedOn(old, e).count = old.count + 1 /\ PushedOn(old, e).expand_mult = old.expand_mult
      BY <3>2, BucketIs
    <3> HIDE DEF old
    <3>4. old.count + 1 <= (old.expand_mult + 1) * HASH_BKT_CAPACITY_THRESH
      <4>1. (old.expand_mult + 1) * HASH_BKT_CAPACITY_THRESH \in Nat
        BY <3>3 DEF HashAssumption
      <4> QED BY <3>1, <3>3, <4>1
    <3>5. ASSUME NEW c \in 0 .. t.num_buckets - 1
          PROVE  \E most \in {HASH_BKT_CAPACITY_THRESH, t.ideal_chain_maxlen} :
                   l.buckets[c].count <= (l.buckets[c].expand_mult + 1) * most
      <4>1. CASE c = b
        <5>1. l.buckets[c] = PushedOn(old, e)
          BY <1>3, <4>1 DEF Pushed, old
        <5> QED BY <3>3, <3>4, <5>1
      <4>2. CASE c # b
        <5>1. l.buckets[c] = t.buckets[c]
          BY <1>3, <4>2 DEF Pushed
        <5> QED BY <3>1, <5>1 DEF Bounded
      <4> QED BY <4>1, <4>2
    <3> QED BY <1>3, <3>5 DEF Bounded
  <2> QED BY <1>2, <1>3, <2>1, <2>2 DEF Stored, r
<1> QED BY <1>4, <1>5

PulledOut(k, e, x) ==
  [hh_head |-> IF k.hh_head = e THEN x ELSE k.hh_head, count |-> k.count - 1,
   expand_mult |-> k.expand_mult]

LEMMA PulledOutIs ==
  ASSUME StackAssumption, NEW k \in Bucket, k.count > 0, NEW e, NEW x \in Nodes
  PROVE  /\ [k EXCEPT !.count = @ - 1, !.hh_head = IF @ = e THEN x ELSE @] = PulledOut(k, e, x)
         /\ PulledOut(k, e, x) \in Bucket /\ PulledOut(k, e, x).count = k.count - 1
         /\ PulledOut(k, e, x).hh_head = (IF k.hh_head = e THEN x ELSE k.hh_head)
         /\ PulledOut(k, e, x).expand_mult = k.expand_mult /\ k.count \in Nat
<1> DEFINE as(p, q, z) == [g \in {"hh_head", "count", "expand_mult"} |->
                             IF g = "hh_head" THEN p ELSE IF g = "count" THEN q ELSE z]
           hd == IF k.hh_head = e THEN x ELSE k.hh_head
           y == [k EXCEPT !.count = @ - 1, !.hh_head = IF @ = e THEN x ELSE @]
<1>1. /\ k = [hh_head |-> k.hh_head, count |-> k.count, expand_mult |-> k.expand_mult]
      /\ k.hh_head \in Nodes /\ k.count \in Nat /\ k.expand_mult \in Nat
  BY DEF Bucket
<1>2. DOMAIN k = {"hh_head", "count", "expand_mult"}
  BY <1>1
<1>3. y = as(hd, k.count - 1, k.expand_mult)
  BY <1>2
<1>4. PulledOut(k, e, x) = as(hd, k.count - 1, k.expand_mult)
  BY DEF PulledOut
<1>5. hd \in Nodes /\ k.count - 1 \in Nat
  BY <1>1
<1> HIDE DEF hd
<1>6. PulledOut(k, e, x) = [hh_head |-> hd, count |-> k.count - 1, expand_mult |-> k.expand_mult]
  BY DEF PulledOut, hd
<1>7. PulledOut(k, e, x) \in Bucket
  BY <1>1, <1>5, <1>6 DEF Bucket
<1>8. /\ PulledOut(k, e, x).count = k.count - 1 /\ PulledOut(k, e, x).hh_head = hd
      /\ PulledOut(k, e, x).expand_mult = k.expand_mult
  BY <1>6
<1> QED BY <1>1, <1>3, <1>4, <1>7, <1>8 DEF hd

\* What becomes of a table that e leaves.
Unchains(r, t, S, m, e) ==
  IsTable(r) /\ Stored(r, S \ {e}, m - 1) /\ SameList(r, t)

LEMMA DeletesInBucket ==
  ASSUME StackAssumption, HashAssumption, NEW t, IsTable(t), NEW S, NEW m \in Int,
         Stored(t, S, m), NEW e \in S
  PROVE  Unchains(Hash!HASH_DEL_IN_BKT(t, e), t, S, m, e)
<1> DEFINE r == Hash!HASH_DEL_IN_BKT(t, e)
           n == t.num_buckets
           bk == t.buckets
           b == Home(e, n)
           x == t.hh_next[e]
           B == PulledOut(bk[b], e, x)
<1>1. PICK ch : Holding(bk, t.hh_next, t.hh_prev, n, ch, S) /\ Summed(ch, n, m)
  BY DEF Stored, Chained
<1>2. /\ n \in Nat \ {0} /\ n \in Nat /\ t.hh_next \in Linkage /\ t.hh_prev \in Linkage
      /\ bk \in [0 .. n - 1 -> Bucket] /\ ch \in [0 .. n - 1 -> Seq(Elts)] /\ b \in 0 .. n - 1
      /\ S \subseteq Elts
  BY <1>1, HomeIs DEF Holding
<1>3. PICK i \in 1 .. Len(ch[b]) : ch[b][i] = e
  BY <1>1 DEF Holding
<1>4. /\ bk[b] \in Bucket /\ bk[b].hh_head = At(ch[b], 1) /\ bk[b].count = Len(ch[b])
      /\ Distinct(ch[b]) /\ Doubly(ch[b], t.hh_next, t.hh_prev)
  BY <1>1, <1>2 DEF Holding, ChainIs
<1>5. /\ x = At(ch[b], i + 1) /\ t.hh_prev[e] = Prior(ch[b], i) /\ x \in Nodes
  BY <1>2, <1>3, <1>4 DEF Doubly, Linked, Mirrored, Linkage
<1>6. bk[b].count > 0 /\ Len(ch[b]) \in Nat /\ ch[b] \in Seq(Elts) /\ i \in Nat
  BY <1>3, <1>4 DEF Distinct
<1> DEFINE k == bk[b]
           pulled == [k EXCEPT !.count = @ - 1, !.hh_head = IF @ = e THEN x ELSE @]
<1>7. /\ pulled = B /\ B \in Bucket /\ B.count = bk[b].count - 1
      /\ B.hh_head = (IF bk[b].hh_head = e THEN x ELSE bk[b].hh_head)
      /\ B.expand_mult = bk[b].expand_mult /\ bk[b].count \in Nat
  <2>1. k \in Bucket /\ k.count > 0 /\ x \in Nodes
    BY <1>4, <1>5, <1>6
  <2> HIDE DEF k, x
  <2>2. /\ [k EXCEPT !.count = @ - 1, !.hh_head = IF @ = e THEN x ELSE @] = PulledOut(k, e, x)
        /\ PulledOut(k, e, x) \in Bucket /\ PulledOut(k, e, x).count = k.count - 1
        /\ PulledOut(k, e, x).hh_head = (IF k.hh_head = e THEN x ELSE k.hh_head)
        /\ PulledOut(k, e, x).expand_mult = k.expand_mult /\ k.count \in Nat
    BY <2>1, PulledOutIs
  <2> QED BY <2>2 DEF k
<1>8. B.hh_head = At(List!Order!RemoveAt(ch[b], i), 1)
  <2>1. At(List!Order!RemoveAt(ch[b], i), 1) = IF i = 1 THEN At(ch[b], 2) ELSE At(ch[b], 1)
    BY <1>3, <1>6, RemovedFirst
  <2>2. ch[b][1] = e <=> i = 1
    BY <1>3, <1>4, <1>6 DEF Distinct
  <2>3. At(ch[b], 1) = ch[b][1]
    BY <1>3, <1>6 DEF At
  <2> QED BY <1>4, <1>5, <1>7, <2>1, <2>2, <2>3
<1>9. /\ IsTable(r)
      /\ r.buckets = [bk EXCEPT ![b].count = @ - 1, ![b].hh_head = IF @ = e THEN x ELSE @]
      /\ r.hh_next = Hash!Put(t.hh_next, t.hh_prev[e], x)
      /\ r.hh_prev = Hash!Put(t.hh_prev, x, t.hh_prev[e])
      /\ SameList(r, t) /\ r.num_buckets = n
      /\ r.ideal_chain_maxlen = t.ideal_chain_maxlen /\ r.noexpand = t.noexpand
  BY ZenonT(30) DEF Hash!HASH_DEL_IN_BKT, IsTable, Fields, SameList, Home
<1>10. [bk EXCEPT ![b].count = @ - 1, ![b].hh_head = IF @ = e THEN x ELSE @] = [bk EXCEPT ![b] = pulled]
  <2> HIDE DEF bk, b, x, n
  <2> QED BY <1>2
<1>11. r.buckets = [bk EXCEPT ![b] = B]
  <2> HIDE DEF r, B, pulled, bk
  <2> QED BY <1>7, <1>9, <1>10
<1>12. r.hh_next = NextOut(t.hh_next, ch[b], i) /\ r.hh_prev = PrevOut(t.hh_prev, ch[b], i)
  BY <1>5, <1>9 DEF NextOut, PrevOut
<1> HIDE DEF r, B, pulled
<1>13. PICK n1, k1, b1, B1 : n1 = n /\ k1 = bk /\ b1 = b /\ B1 = B
  OBVIOUS
<1>14. PICK cv, hn, hp, bv, fn, fp :
        /\ cv = [ch EXCEPT ![b1] = List!Order!RemoveAt(ch[b1], i)] /\ hn = t.hh_next /\ hp = t.hh_prev
        /\ bv = r.buckets /\ fn = r.hh_next /\ fp = r.hh_prev
  OBVIOUS
<1>15. Holding(k1, hn, hp, n1, ch, S) /\ Summed(ch, n1, m)
  BY <1>1, <1>13, <1>14
<1>16. Leaves(k1, hn, hp, n1, ch, S, b1, i, B1, bv, fn, fp, cv)
  <2>1. b1 \in 0 .. n1 - 1 /\ i \in 1 .. Len(ch[b1])
    BY <1>2, <1>3, <1>13
  <2>2. B1 \in Bucket /\ B1.hh_head = At(List!Order!RemoveAt(ch[b1], i), 1) /\ B1.count = k1[b1].count - 1
    BY <1>7, <1>8, <1>13
  <2>3. bv = [k1 EXCEPT ![b1] = B1]
    BY <1>11, <1>13, <1>14
  <2>4. fn = NextOut(hn, ch[b1], i) /\ fp = PrevOut(hp, ch[b1], i)
    BY <1>12, <1>13, <1>14
  <2> QED BY <1>14, <1>15, <2>1, <2>2, <2>3, <2>4 DEF Leaves
<1>17. /\ Holding(bv, fn, fp, n1, cv, S \ {ch[b1][i]})
       /\ cv[b1] \in Seq(Elts) /\ Len(cv[b1]) = Len(ch[b1]) - 1
  <2>1. PICK c1, j1 : c1 = b1 /\ j1 = i
    OBVIOUS
  <2> HIDE DEF n, bk, b, x
  <2>2. Leaves(k1, hn, hp, n1, ch, S, c1, j1, B1, bv, fn, fp, cv)
    BY <1>16, <2>1
  <2>3. HeldLess(bv, fn, fp, n1, cv, S, ch, c1, j1)
    BY <2>2, HoldingDeletes
  <2> QED BY <2>1, <2>3 DEF HeldLess
<1>18. Summed(cv, n1, m - 1)
  <2>1. /\ cv = [ch EXCEPT ![b1] = cv[b1]] /\ Len(cv[b1]) = Len(ch[b1]) + (-1)
    BY <1>2, <1>6, <1>13, <1>14, <1>17
  <2>2. /\ n1 \in Nat /\ -1 \in Int /\ ch \in [0 .. n1 - 1 -> Seq(Elts)] /\ b1 \in 0 .. n1 - 1
        /\ m + (-1) = m - 1
    BY <1>2, <1>13
  <2>3. Summed(cv, n1, m + (-1))
    <3>1. PICK v, d : v = cv[b1] /\ d = -1
      OBVIOUS
    <3>2. /\ v \in Seq(Elts) /\ d \in Int /\ cv = [ch EXCEPT ![b1] = v]
          /\ Len(v) = Len(ch[b1]) + d
      BY <1>17, <2>1, <3>1
    <3>3. Summed(cv, n1, m + d)
      BY <1>15, <2>2, <3>2, SumChanges
    <3> QED BY <3>1, <3>3
  <2> QED BY <2>2, <2>3
<1>19. Chained(r, S \ {e}, m - 1)
  BY <1>3, <1>9, <1>13, <1>14, <1>17, <1>18 DEF Chained
<1>20. ASSUME ~ r.noexpand PROVE Bounded(r)
  <2>1. Bounded(t)
    BY <1>9, <1>20 DEF Stored
  <2>2. HASH_BKT_CAPACITY_THRESH \in Nat /\ t.ideal_chain_maxlen \in Nat
    BY DEF Stored, HashAssumption
  <2>3. ASSUME NEW c \in 0 .. n - 1
        PROVE  \E most \in {HASH_BKT_CAPACITY_THRESH, t.ideal_chain_maxlen} :
                 r.buckets[c].count <= (r.buckets[c].expand_mult + 1) * most
    <3>1. PICK most \in {HASH_BKT_CAPACITY_THRESH, t.ideal_chain_maxlen} :
            bk[c].count <= (bk[c].expand_mult + 1) * most
      BY <2>1 DEF Bounded
    <3>2. CASE c = b
      <4>1. r.buckets[c] = B
        BY <1>2, <1>11, <3>2
      <4>2. PICK p \in Int : p = (bk[b].expand_mult + 1) * most
        BY <1>4, <2>2 DEF Bucket
      <4>3. B.count <= p
        BY <1>7, <3>1, <3>2, <4>2
      <4> QED BY <1>7, <4>1, <4>2, <4>3
    <3>3. CASE c # b
      <4>1. r.buckets[c] = bk[c]
        BY <1>2, <1>11, <3>3
      <4> QED BY <3>1, <4>1
    <3> QED BY <3>2, <3>3
  <2> QED BY <1>9, <2>3 DEF Bounded
<1> QED BY <1>9, <1>19, <1>20 DEF Unchains, Stored, r

-----------------------------------------------------------------------------
(* A table and its list *)

Members(v) == { v[j] : j \in 1 .. Len(v) }
Unlike(v) == \A j, k \in 1 .. Len(v) : KeyOf[v[j]] = KeyOf[v[k]] => j = k

Listing(t, v) ==
  /\ IsTable(t) /\ Distinct(v) /\ t.next \in Linkage /\ t.prev \in Linkage
  /\ Doubly(v, t.next, t.prev) /\ t.head = At(v, 1) /\ (Len(v) # 0 => t.tail = v[Len(v)])

\* The table t holds the elements of v, in that order.
TableIs(t, v) ==
  /\ Listing(t, v) /\ Unlike(v) /\ t.hh_next \in Linkage /\ t.hh_prev \in Linkage
  /\ Len(v) # 0 => t.num_items = Len(v) /\ Stored(t, Members(v), Len(v))

SameBuckets(r, t) ==
  /\ r.buckets = t.buckets /\ r.num_buckets = t.num_buckets
  /\ r.hh_next = t.hh_next /\ r.hh_prev = t.hh_prev
  /\ r.ideal_chain_maxlen = t.ideal_chain_maxlen /\ r.noexpand = t.noexpand

LEMMA StoredSame ==
  ASSUME NEW t, NEW r, SameBuckets(r, t), NEW S, NEW m, Stored(t, S, m)
  PROVE  Stored(r, S, m)
BY DEF SameBuckets, Stored, Chained, Bounded

LEMMA ListingSame ==
  ASSUME NEW t, NEW r, SameList(r, t), IsTable(r), NEW v, Listing(t, v)
  PROVE  Listing(r, v)
BY DEF SameList, Listing

LEMMA StoredLinks ==
  ASSUME NEW t, NEW S, NEW m, Stored(t, S, m)
  PROVE  t.hh_next \in Linkage /\ t.hh_prev \in Linkage /\ S \subseteq Elts
BY DEF Stored, Chained, Holding

\* The list has its new element; the buckets do not yet.
LEMMA AddsToTable ==
  ASSUME StackAssumption, HashAssumption, NEW u, NEW v, Listing(u, v), NEW S, NEW m \in Nat,
         Stored(u, S, m), u.num_items = m, NEW e \in Elts, e \notin S,
         Members(v) = S \cup {e}, Len(v) = m + 1, Unlike(v)
  PROVE  TableIs(Hash!HASH_ADD_TO_TABLE(u, e), v)
<1> DEFINE u1 == [u EXCEPT !.num_items = @ + 1]
           r == Hash!HASH_ADD_TO_BKT(u1, e)
<1>1. /\ IsTable(u1) /\ u1.num_items = m + 1 /\ SameBuckets(u1, u)
      /\ u1.head = u.head /\ u1.tail = u.tail /\ u1.next = u.next /\ u1.prev = u.prev
  BY DEF Listing, IsTable, Fields, SameBuckets
<1>2. Hash!HASH_ADD_TO_TABLE(u, e) = r
  BY DEF Hash!HASH_ADD_TO_TABLE
<1> HIDE DEF u1
<1>3. Stored(u1, S, m)
  BY <1>1, StoredSame
<1>4. IsTable(r) /\ Stored(r, S \cup {e}, m + 1) /\ SameList(r, u1)
  BY <1>1, <1>3, AddsToBucket
<1> HIDE DEF r
<1>5. Listing(r, v) /\ r.num_items = m + 1
  BY <1>1, <1>4 DEF Listing, SameList
<1>6. r.hh_next \in Linkage /\ r.hh_prev \in Linkage
  BY <1>4, StoredLinks
<1> QED BY <1>2, <1>4, <1>5, <1>6 DEF TableIs

\* An element to come: not there, and of a key of its own.
Fresh(v, e) == e \in Elts /\ \A j \in 1 .. Len(v) : v[j] # e /\ KeyOf[v[j]] # KeyOf[e]

LEMMA FreshEnters ==
  ASSUME NEW v, Distinct(v), Unlike(v), NEW e, Fresh(v, e), NEW i \in 1 .. Len(v) + 1
  PROVE  LET x == List!Order!Enter(v, i, e)
         IN  /\ Distinct(x) /\ Unlike(x) /\ Members(x) = Members(v) \cup {e}
             /\ Len(x) = Len(v) + 1 /\ Len(v) \in Nat /\ e \notin Members(v) /\ Proper(v, e)
             /\ x[Len(x)] = IF i = Len(v) + 1 THEN e ELSE v[Len(v)]
<1> DEFINE x == List!Order!Enter(v, i, e)
           n == Len(v)
<1>0. /\ v \in Seq(Elts) /\ n \in Nat /\ e \in Elts /\ i \in Nat /\ i \in 1 .. n + 1
      /\ \A j \in 1 .. n : v[j] \in Elts /\ v[j] # e /\ KeyOf[v[j]] # KeyOf[e]
      /\ \A j, k \in 1 .. n : v[j] = v[k] => j = k
      /\ \A j, k \in 1 .. n : KeyOf[v[j]] = KeyOf[v[k]] => j = k
  BY DEF Distinct, Fresh, Unlike
<1>1. Proper(v, e)
  BY <1>0 DEF Proper
<1>2. Distinct(x) /\ Len(x) = n + 1
      /\ \A j \in 1 .. n + 1 : x[j] = IF j < i THEN v[j] ELSE IF j = i THEN e ELSE v[j - 1]
  BY <1>1, EnteredDistinct
<1> HIDE DEF x, n
<1>3. ASSUME NEW j \in 1 .. n + 1, j # i
      PROVE  \E k \in 1 .. n : x[j] = v[k] /\ k = IF j < i THEN j ELSE j - 1
  <2>1. CASE j < i
    BY <1>0, <1>2, <2>1
  <2>2. CASE j > i
    <3>1. j - 1 \in 1 .. n /\ x[j] = v[j - 1]
      BY <1>0, <1>2, <2>2
    <3> QED BY <1>0, <2>2, <3>1
  <2> QED BY <1>0, <1>3, <2>1, <2>2
<1>4. x[i] = e
  BY <1>0, <1>2
<1>5. ASSUME NEW j \in 1 .. n + 1, NEW k \in 1 .. n + 1, KeyOf[x[j]] = KeyOf[x[k]] PROVE j = k
  <2>1. CASE j = i \/ k = i
    BY <1>0, <1>3, <1>4, <1>5, <2>1
  <2>2. CASE j # i /\ k # i
    <3>1. PICK y \in 1 .. n : x[j] = v[y] /\ y = IF j < i THEN j ELSE j - 1
      BY <1>3, <2>2
    <3>2. PICK z \in 1 .. n : x[k] = v[z] /\ z = IF k < i THEN k ELSE k - 1
      BY <1>3, <2>2
    <3>3. y = z
      BY <1>0, <1>5, <3>1, <3>2
    <3> QED BY <1>0, <2>2, <3>1, <3>2, <3>3
  <2> QED BY <2>1, <2>2
<1>6. ASSUME NEW k \in 1 .. n PROVE \E j \in 1 .. n + 1 : x[j] = v[k]
  <2>1. CASE k < i
    BY <1>0, <1>2, <2>1
  <2>2. CASE k >= i
    <3>1. k + 1 \in 1 .. n + 1 /\ x[k + 1] = v[k + 1 - 1] /\ k + 1 - 1 = k
      BY <1>0, <1>2, <2>2
    <3> QED BY <3>1
  <2> QED BY <1>0, <2>1, <2>2
<1>7. { x[j] : j \in 1 .. n + 1 } = { v[j] : j \in 1 .. n } \cup {e}
  BY <1>0, <1>3, <1>4, <1>6
<1>8. e \notin { v[j] : j \in 1 .. n }
  BY <1>0
<1>9. x[n + 1] = IF i = n + 1 THEN e ELSE v[n]
  <2>1. CASE i = n + 1
    BY <1>4, <2>1
  <2>2. CASE i # n + 1
    <3>1. PICK l \in 1 .. n + 1 : l = n + 1
      BY <1>0
    <3>2. l > i /\ l - 1 = n
      BY <1>0, <2>2, <3>1
    <3>3. x[l] = v[l - 1]
      BY <1>0, <1>2, <3>1, <3>2
    <3> QED BY <2>2, <3>1, <3>2, <3>3
  <2> QED BY <2>1, <2>2
<1> QED BY <1>0, <1>1, <1>2, <1>5, <1>7, <1>8, <1>9 DEF x, n, Unlike, Members

\* The list of t, with e before its i-th element.
Enlisted(u, t, v, i, e) ==
  /\ IsTable(u) /\ SameBuckets(u, t) /\ u.num_items = t.num_items
  /\ u.next = NextIn(t.next, v, i, e) /\ u.prev = PrevIn(t.prev, v, i, e)
  /\ u.head = (IF i = 1 THEN e ELSE t.head)
  /\ u.tail = (IF i = Len(v) + 1 THEN e ELSE t.tail)

LEMMA EnlistedAdds ==
  ASSUME StackAssumption, HashAssumption, NEW t, NEW v, TableIs(t, v), Len(v) # 0, NEW e, Fresh(v, e),
         NEW i \in 1 .. Len(v) + 1, NEW u, Enlisted(u, t, v, i, e)
  PROVE  TableIs(Hash!HASH_ADD_TO_TABLE(u, e), List!Order!Enter(v, i, e))
<1> DEFINE x == List!Order!Enter(v, i, e)
<1>1. /\ Distinct(v) /\ Unlike(v) /\ t.next \in Linkage /\ t.prev \in Linkage
      /\ Doubly(v, t.next, t.prev) /\ t.head = At(v, 1) /\ t.tail = v[Len(v)]
      /\ t.num_items = Len(v) /\ Stored(t, Members(v), Len(v))
  BY DEF TableIs, Listing
<1>2. /\ Distinct(x) /\ Unlike(x) /\ Members(x) = Members(v) \cup {e}
      /\ Len(x) = Len(v) + 1 /\ Len(v) \in Nat /\ e \notin Members(v) /\ Proper(v, e)
      /\ x[Len(x)] = IF i = Len(v) + 1 THEN e ELSE v[Len(v)]
  BY <1>1, FreshEnters
<1>3. /\ u.next \in Linkage /\ u.prev \in Linkage /\ Doubly(x, u.next, u.prev)
  <2>1. PICK nx \in Linkage : nx = t.next
    BY <1>1
  <2>2. PICK pv \in Linkage : pv = t.prev
    BY <1>1
  <2>3. Doubly(v, nx, pv)
    BY <1>1, <2>1, <2>2
  <2>4. /\ NextIn(nx, v, i, e) \in Linkage /\ PrevIn(pv, v, i, e) \in Linkage
        /\ Doubly(List!Order!Enter(v, i, e), NextIn(nx, v, i, e), PrevIn(pv, v, i, e))
    BY <1>2, <2>1, <2>2, <2>3, EnterDoubly
  <2> QED BY <2>1, <2>2, <2>4 DEF Enlisted
<1>4. u.head = At(x, 1)
  <2>1. v \in Seq(Elts) /\ Len(v) \in Nat /\ e \in Elts
    BY <1>1 DEF Distinct, Fresh
  <2>2. At(x, 1) = IF i = 1 THEN e ELSE At(v, 1)
    BY <2>1, EnteredFirst
  <2> QED BY <1>1, <2>2 DEF Enlisted
<1> HIDE DEF x
<1>5. Listing(u, x)
  BY <1>1, <1>2, <1>3, <1>4 DEF Listing, Enlisted
<1>6. Stored(u, Members(v), Len(v)) /\ u.num_items = Len(v)
  BY <1>1, StoredSame DEF Enlisted
<1>7. e \in Elts
  BY DEF Fresh
<1>8. PICK m, S : m = Len(v) /\ m \in Nat /\ S = Members(v)
  BY <1>2
<1>9. TableIs(Hash!HASH_ADD_TO_TABLE(u, e), x)
  BY <1>2, <1>5, <1>6, <1>7, <1>8, AddsToTable
<1> QED BY <1>9 DEF x

LEMMA NoList ==
  ASSUME StackAssumption, NEW t, NEW v, TableIs(t, v)
  PROVE  /\ t.head = NULL <=> Len(v) = 0
         /\ Len(v) = 0 => v = <<>>
<1>1. Distinct(v) /\ t.head = At(v, 1)
  BY DEF TableIs, Listing
<1>2. v \in Seq(Elts) /\ Len(v) \in Nat /\ \A j \in 1 .. Len(v) : v[j] \in Elts
  BY <1>1 DEF Distinct
<1>3. CASE Len(v) = 0
  BY <1>1, <1>2, <1>3 DEF At
<1>4. CASE Len(v) # 0
  <2>1. 1 <= Len(v) /\ 1 \in 1 .. Len(v)
    BY <1>2, <1>4
  <2> QED BY <1>1, <1>2, <1>4, <2>1 DEF At, StackAssumption
<1> QED BY <1>3, <1>4

TakesIn(x, v, e) ==
  /\ Distinct(x) /\ Unlike(x) /\ Members(x) = Members(v) \cup {e}
  /\ Len(x) = Len(v) + 1 /\ x[Len(x)] = IF 1 = Len(v) + 1 THEN e ELSE v[Len(v)]

LEMMA FreshFirst ==
  ASSUME NEW v, Distinct(v), Unlike(v), NEW e, Fresh(v, e)
  PROVE  TakesIn(List!Order!Enter(v, 1, e), v, e)
<1>1. PICK i : i = 1
  OBVIOUS
<1>2. i \in 1 .. Len(v) + 1
  BY <1>1 DEF Distinct
<1> DEFINE y == List!Order!Enter(v, i, e)
<1>3. /\ Distinct(y) /\ Unlike(y) /\ Members(y) = Members(v) \cup {e}
      /\ Len(y) = Len(v) + 1 /\ y[Len(y)] = IF i = Len(v) + 1 THEN e ELSE v[Len(v)]
  BY <1>2, FreshEnters
<1>4. y = List!Order!Enter(v, 1, e)
  BY <1>1
<1> HIDE DEF y
<1> QED BY <1>1, <1>3, <1>4 DEF TakesIn

\* The first element makes the table.
LEMMA FirstElementIs ==
  ASSUME StackAssumption, HashAssumption, NEW t, NEW v, TableIs(t, v), Len(v) = 0, NEW e \in Elts
  PROVE  TableIs(Hash!HASH_ADD_TO_TABLE(Hash!FirstElement(t, e), e), List!Order!Enter(v, 1, e))
<1> DEFINE u == Hash!FirstElement(t, e)
           x == List!Order!Enter(v, 1, e)
           n == HASH_INITIAL_NUM_BUCKETS
<1>1. /\ Distinct(v) /\ Unlike(v) /\ t.next \in Linkage /\ t.prev \in Linkage
      /\ t.hh_next \in Linkage /\ t.hh_prev \in Linkage /\ IsTable(t)
  BY DEF TableIs, Listing
<1>2. Fresh(v, e)
  BY DEF Fresh
<1>3. /\ Distinct(x) /\ Unlike(x) /\ Members(x) = Members(v) \cup {e}
      /\ Len(x) = 1 /\ x[1] = e
  <2>1. TakesIn(x, v, e)
    BY <1>1, <1>2, FreshFirst
  <2> QED BY <2>1 DEF TakesIn
<1>4. Members(v) = {}
  BY DEF Members
<1> HIDE DEF x
<1>5. /\ IsTable(u) /\ u.head = e /\ u.tail = e /\ u.num_buckets = n /\ u.buckets = Hash!Buckets(n)
      /\ u.num_items = 0 /\ u.ideal_chain_maxlen = 0 /\ u.noexpand = FALSE
      /\ u.next = [t.next EXCEPT ![e] = NULL] /\ u.prev = [t.prev EXCEPT ![e] = NULL]
      /\ u.hh_next = t.hh_next /\ u.hh_prev = t.hh_prev
  BY <1>1 DEF Hash!FirstElement, Hash!HASH_MAKE_TABLE, IsTable, Fields
<1> HIDE DEF u
<1>6. n \in Nat \ {0} /\ HASH_BKT_CAPACITY_THRESH \in Nat
  BY DEF HashAssumption
<1>7. /\ \E ch : Holding(Hash!Buckets(n), t.hh_next, t.hh_prev, n, ch, {}) /\ Summed(ch, n, 0)
      /\ \A b \in 0 .. n - 1 : Hash!Buckets(n)[b].count = 0 /\ Hash!Buckets(n)[b].expand_mult = 0
  BY <1>1, <1>6, NoneHeld
<1>8. Chained(u, {}, 0)
  BY <1>5, <1>7 DEF Chained
<1>9. Bounded(u)
  <2>1. 0 <= (0 + 1) * HASH_BKT_CAPACITY_THRESH
    BY <1>6
  <2> QED BY <1>5, <1>7, <2>1 DEF Bounded
<1>10. Stored(u, {}, 0)
  BY <1>5, <1>8, <1>9 DEF Stored
<1>11. Listing(u, x)
  <2>1. u.next \in Linkage /\ u.prev \in Linkage /\ u.next[e] = NULL /\ u.prev[e] = NULL
    BY <1>1, <1>5 DEF Linkage, Nodes
  <2>2. Doubly(x, u.next, u.prev)
    BY <1>3, <2>1 DEF Doubly, Linked, Mirrored, At, Prior
  <2>3. At(x, 1) = e
    BY <1>3 DEF At
  <2> QED BY <1>3, <1>5, <2>1, <2>2, <2>3 DEF Listing
<1>12. PICK m, S : m = 0 /\ S = {} /\ m \in Nat
  OBVIOUS
<1>13. Stored(u, S, m) /\ u.num_items = m /\ e \notin S /\ Members(x) = S \cup {e} /\ Len(x) = m + 1
  BY <1>3, <1>4, <1>5, <1>10, <1>12
<1>14. TableIs(Hash!HASH_ADD_TO_TABLE(u, e), x)
  BY <1>3, <1>11, <1>12, <1>13, AddsToTable
<1> QED BY <1>14 DEF u, x

LEMMA Adds ==
  ASSUME StackAssumption, HashAssumption, NEW t, NEW v, TableIs(t, v), NEW e, Fresh(v, e)
  PROVE  TableIs(Hash!HASH_ADD(t, e), List!Order!Enter(v, Len(v) + 1, e))
<1>0. e \in Elts /\ e # NULL
  BY DEF Fresh, StackAssumption
<1>1. CASE Len(v) = 0
  <2>1. t.head = NULL /\ Len(v) + 1 = 1
    BY <1>1, NoList
  <2>2. Hash!HASH_ADD(t, e) = Hash!HASH_ADD_TO_TABLE(Hash!FirstElement(t, e), e)
    BY <2>1 DEF Hash!HASH_ADD
  <2>3. TableIs(Hash!HASH_ADD_TO_TABLE(Hash!FirstElement(t, e), e), List!Order!Enter(v, 1, e))
    BY <1>0, <1>1, FirstElementIs
  <2> QED BY <2>1, <2>2, <2>3
<1>2. CASE Len(v) # 0
  <2> DEFINE u == Hash!HASH_APPEND_LIST(t, e)
             i == Len(v) + 1
  <2>1. t.head # NULL
    BY <1>2, NoList
  <2>2. Hash!HASH_ADD(t, e) = Hash!HASH_ADD_TO_TABLE(u, e)
    BY <2>1 DEF Hash!HASH_ADD
  <2>3. /\ IsTable(t) /\ t.tail = v[Len(v)] /\ Len(v) \in Nat /\ \A j \in 1 .. Len(v) : v[j] \in Elts
        /\ t.next \in Linkage /\ t.prev \in Linkage
    BY <1>2 DEF TableIs, Listing, Distinct
  <2>4. At(v, i) = NULL /\ Prior(v, i) = t.tail /\ i # 1 /\ i \in 1 .. Len(v) + 1
    <3>1. i > Len(v) /\ i # 1 /\ i - 1 = Len(v) /\ i \in 1 .. Len(v) + 1
      BY <1>2, <2>3
    <3> HIDE DEF i
    <3> QED BY <2>3, <3>1 DEF At, Prior
  <2> HIDE DEF i
  <2>5. /\ IsTable(u) /\ SameBuckets(u, t) /\ u.num_items = t.num_items /\ u.head = t.head
        /\ u.tail = e /\ u.next = Hash!Put([t.next EXCEPT ![e] = NULL], t.tail, e)
        /\ u.prev = [t.prev EXCEPT ![e] = t.tail]
    BY <2>3 DEF Hash!HASH_APPEND_LIST, IsTable, Fields, SameBuckets
  <2> HIDE DEF u
  <2>6. u.next = NextIn(t.next, v, i, e) /\ u.prev = PrevIn(t.prev, v, i, e)
    BY <2>4, <2>5 DEF NextIn, PrevIn, Hash!Put
  <2>7. Enlisted(u, t, v, i, e)
    BY <2>4, <2>5, <2>6 DEF Enlisted, i
  <2>8. TableIs(Hash!HASH_ADD_TO_TABLE(u, e), List!Order!Enter(v, i, e))
    BY <1>2, <2>4, <2>7, EnlistedAdds
  <2> QED BY <2>2, <2>8 DEF i
<1> QED BY <1>1, <1>2

LEMMA AppOrderIs ==
  ASSUME StackAssumption, NEW t, NEW v, Listing(t, v)
  PROVE  Hash!AppOrder(t) = v
<1>1. /\ Distinct(v) /\ t.next \in Linkage /\ Linked(v, t.next) /\ t.head = At(v, 1)
  BY DEF Listing, Doubly
<1> QED BY <1>1, HashWalkIs DEF Hash!AppOrder

\* Where an element goes that is added in order.
Greater(v, e) == { i \in 1 .. Len(v) : RankOf[v[i]] > RankOf[e] }
InOrderAt(v, e) == IF Greater(v, e) = {} THEN Len(v) + 1
               ELSE CHOOSE i \in Greater(v, e) : \A j \in Greater(v, e) : i <= j

LEMMA InOrderAtIs ==
  ASSUME NEW v, Len(v) \in Nat, NEW e
  PROVE  /\ InOrderAt(v, e) \in 1 .. Len(v) + 1
         /\ Greater(v, e) = {} <=> InOrderAt(v, e) = Len(v) + 1
         /\ Greater(v, e) # {} => InOrderAt(v, e) \in 1 .. Len(v)
<1>1. CASE Greater(v, e) = {}
  BY <1>1 DEF InOrderAt
<1>2. CASE Greater(v, e) # {}
  <2>1. Greater(v, e) \subseteq Nat /\ Greater(v, e) \subseteq 1 .. Len(v)
    BY DEF Greater
  <2>2. \E i \in Greater(v, e) : \A j \in Greater(v, e) : i <= j
    <3>1. PICK G : G = Greater(v, e)
      OBVIOUS
    <3>2. \E i \in G : \A j \in G : i <= j
      BY <1>2, <2>1, <3>1, LeastNatural
    <3> QED BY <3>1, <3>2
  <2>3. InOrderAt(v, e) \in Greater(v, e)
    BY <1>2, <2>2 DEF InOrderAt
  <2> QED BY <1>2, <2>1, <2>3
<1> QED BY <1>1, <1>2

LEMMA AddsInOrder ==
  ASSUME StackAssumption, HashAssumption, NEW t, NEW v, TableIs(t, v), NEW e, Fresh(v, e)
  PROVE  TableIs(Hash!HASH_ADD_INORDER(t, e), List!Order!Enter(v, InOrderAt(v, e), e))
<1> DEFINE iter == Hash!HASH_AKBI_INNER_LOOP(t, e)
           before == t.prev[iter]
           u == [t EXCEPT !.next = Hash!Put([@ EXCEPT ![e] = iter], before, e),
                          !.prev = [@ EXCEPT ![e] = before, ![iter] = e],
                          !.head = IF before = NULL THEN e ELSE @]
           i == InOrderAt(v, e)
<1>0. /\ e \in Elts /\ e # NULL /\ NULL \notin Elts /\ IsTable(t) /\ Listing(t, v)
      /\ v \in Seq(Elts) /\ Len(v) \in Nat /\ \A j \in 1 .. Len(v) : v[j] \in Elts
  BY DEF Fresh, StackAssumption, TableIs, Listing, Distinct
<1>1. Hash!HASH_ADD_INORDER(t, e)
        = Hash!HASH_ADD_TO_TABLE(IF t.head = NULL THEN Hash!FirstElement(t, e)
                                 ELSE IF iter = NULL THEN Hash!HASH_APPEND_LIST(t, e) ELSE u, e)
  BY DEF Hash!HASH_ADD_INORDER
<1>2. /\ i \in 1 .. Len(v) + 1
      /\ Greater(v, e) = {} <=> i = Len(v) + 1
      /\ Greater(v, e) # {} => i \in 1 .. Len(v)
  BY <1>0, InOrderAtIs
<1>3. iter = IF Greater(v, e) = {} THEN NULL ELSE v[i]
  <2>1. Hash!AppOrder(t) = v
    BY <1>0, AppOrderIs
  <2> DEFINE x == Hash!AppOrder(t)
             places == { k \in DOMAIN x : RankOf[x[k]] > RankOf[e] }
  <2>2. iter = Hash!FirstOf(x, places)
    BY DEF Hash!HASH_AKBI_INNER_LOOP
  <2>3. places = Greater(v, e)
    <3>1. DOMAIN x = 1 .. Len(v)
      BY <1>0, <2>1
    <3> QED BY <2>1, <3>1 DEF Greater
  <2> HIDE DEF x, places, iter
  <2>4. x = v
    BY <2>1 DEF x
  <2>5. iter = Hash!FirstOf(v, Greater(v, e))
    BY <2>2, <2>3, <2>4
  <2> QED BY <2>5 DEF Hash!FirstOf, InOrderAt
<1> HIDE DEF iter, i
<1>4. CASE Len(v) = 0
  <2>0. t.head = NULL
    BY <1>4, NoList
  <2>1. t.head = NULL /\ i = 1
    BY <1>2, <1>4, <2>0
  <2>2. TableIs(Hash!HASH_ADD_TO_TABLE(Hash!FirstElement(t, e), e), List!Order!Enter(v, 1, e))
    BY <1>0, <1>4, FirstElementIs
  <2> QED BY <1>1, <2>1, <2>2 DEF i
<1>5. CASE Len(v) # 0 /\ Greater(v, e) = {}
  <2>1. t.head # NULL
    BY <1>5, NoList
  <2>2. Hash!HASH_ADD_INORDER(t, e) = Hash!HASH_ADD(t, e)
    BY <1>1, <1>3, <1>5, <2>1 DEF Hash!HASH_ADD
  <2>3. TableIs(Hash!HASH_ADD(t, e), List!Order!Enter(v, Len(v) + 1, e))
    BY Adds
  <2>4. i = Len(v) + 1
    BY <1>2, <1>5
  <2>5. TableIs(Hash!HASH_ADD_INORDER(t, e), List!Order!Enter(v, i, e))
    BY <2>2, <2>3, <2>4
  <2> QED BY <2>5 DEF i
<1>6. CASE Len(v) # 0 /\ Greater(v, e) # {}
  <2>1. t.head # NULL /\ i \in 1 .. Len(v) /\ iter = v[i] /\ iter \in Elts /\ iter # NULL
    BY <1>0, <1>2, <1>3, <1>6, NoList
  <2>2. Hash!HASH_ADD_INORDER(t, e) = Hash!HASH_ADD_TO_TABLE(u, e)
    BY <1>1, <2>1
  <2>3. before = Prior(v, i) /\ At(v, i) = iter
    BY <1>0, <2>1 DEF Listing, Doubly, Mirrored, At
  <2>4. before = NULL <=> i = 1
    <3>1. i # 1 => i - 1 \in 1 .. Len(v)
      BY <1>0, <2>1
    <3> QED BY <1>0, <2>3, <3>1 DEF Prior
  <2> HIDE DEF before
  <2>5. /\ IsTable(u) /\ SameBuckets(u, t) /\ u.num_items = t.num_items /\ u.tail = t.tail
        /\ u.next = Hash!Put([t.next EXCEPT ![e] = iter], before, e)
        /\ u.prev = [t.prev EXCEPT ![e] = before, ![iter] = e]
        /\ u.head = IF before = NULL THEN e ELSE t.head
    BY <1>0 DEF IsTable, Fields, SameBuckets
  <2> HIDE DEF u
  <2>6. u.next = NextIn(t.next, v, i, e) /\ u.prev = PrevIn(t.prev, v, i, e)
    BY <2>1, <2>3, <2>5 DEF NextIn, PrevIn, Hash!Put
  <2>7. i # Len(v) + 1
    BY <1>0, <2>1
  <2>8. Enlisted(u, t, v, i, e)
    BY <2>4, <2>5, <2>6, <2>7 DEF Enlisted
  <2>9. TableIs(Hash!HASH_ADD_TO_TABLE(u, e), List!Order!Enter(v, i, e))
    BY <1>2, <1>6, <2>8, EnlistedAdds
  <2> QED BY <2>2, <2>9 DEF i
<1> QED BY <1>4, <1>5, <1>6

-----------------------------------------------------------------------------
(* A lookup, and what leaves the table *)

LEMMA FirstOfIs ==
  ASSUME NEW x, NEW k \in Nat
  PROVE  Hash!FirstOf(x, {k}) = x[k] /\ Hash!FirstOf(x, {}) = NULL
<1>1. (CHOOSE i \in {k} : \A j \in {k} : i <= j) = k
  OBVIOUS
<1>2. {k} # {}
  OBVIOUS
<1> QED BY <1>1, <1>2 DEF Hash!FirstOf

LEMMA Finds ==
  ASSUME StackAssumption, HashAssumption, NEW t, NEW v, TableIs(t, v), NEW f \in Elts
  PROVE  /\ (\A j \in 1 .. Len(v) : KeyOf[v[j]] # KeyOf[f]) => Hash!HASH_FIND(t, KeyOf[f]) = NULL
         /\ \A j \in 1 .. Len(v) :
              KeyOf[v[j]] = KeyOf[f] => Hash!HASH_FIND(t, KeyOf[f]) = v[j]
<1> DEFINE key == KeyOf[f]
           n == t.num_buckets
           b == HashOf[key] % n
           find == Hash!HASH_FIND(t, key)
<1>0. Distinct(v) /\ Unlike(v) /\ Len(v) \in Nat
  BY DEF TableIs, Listing, Distinct
<1>1. CASE Len(v) = 0
  <2>1. t.head = NULL
    BY <1>1, NoList
  <2>2. find = NULL
    BY <2>1 DEF Hash!HASH_FIND
  <2> QED BY <1>1, <2>2
<1>2. CASE Len(v) # 0
  <2>1. PICK ch : Holding(t.buckets, t.hh_next, t.hh_prev, n, ch, Members(v))
    BY <1>2 DEF TableIs, Stored, Chained
  <2>2. /\ n \in Nat \ {0} /\ ch \in [0 .. n - 1 -> Seq(Elts)]
    BY <2>1 DEF Holding
  <2>3. b \in 0 .. n - 1 /\ \A e \in Elts : KeyOf[e] = key => Home(e, n) = b
    <3>1. HashOf[key] \in Nat
      BY DEF HashAssumption
    <3> HIDE DEF n, key
    <3>2. HashOf[key] % n \in 0 .. n - 1
      BY <2>2, <3>1
    <3> QED BY <3>2 DEF Home, Hash!HASH_TO_BKT
  <2> DEFINE x == ch[b]
             places == { i \in DOMAIN x : KeyOf[x[i]] = key }
  <2>4. find = Hash!FirstOf(x, places)
    <3>1. Hash!Walk(t.buckets[b].hh_head, t.hh_next) = ch[b]
      <4> HIDE DEF b, n
      <4> QED BY <2>1, <2>3, ChainsWalked
    <3> DEFINE y == Hash!Chain(t, b)
    <3>2. y = x
      BY <3>1 DEF Hash!Chain
    <3>3. t.head # NULL
      BY <1>2, NoList
    <3>4. find = Hash!FirstOf(y, { i \in DOMAIN y : KeyOf[y[i]] = key })
      BY <3>3 DEF Hash!HASH_FIND, Hash!HASH_FIND_IN_BKT
    <3> HIDE DEF y, x, find, key
    <3> QED BY <3>2, <3>4
  <2>5. /\ \A j \in 1 .. Len(x) : \E k \in 1 .. Len(v) : x[j] = v[k]
        /\ \A e \in Members(v) : Home(e, n) = b => \E j \in 1 .. Len(x) : x[j] = e
        /\ Distinct(x)
    BY <2>1, <2>3 DEF Holding, Members, ChainIs
  <2>6. DOMAIN x = 1 .. Len(x) /\ Len(x) \in Nat
    BY <2>5 DEF Distinct
  <2> HIDE DEF x, b, n, find, key
  <2>7. ASSUME \A j \in 1 .. Len(v) : KeyOf[v[j]] # key PROVE find = NULL
    <3>1. places = {}
      BY <2>5, <2>6, <2>7
    <3> QED BY <2>4, <3>1, FirstOfIs
  <2>8. ASSUME NEW j \in 1 .. Len(v), KeyOf[v[j]] = key PROVE find = v[j]
    <3>1. v[j] \in Elts /\ v[j] \in Members(v)
      BY <1>0 DEF Distinct, Members
    <3>2. PICK k \in 1 .. Len(x) : x[k] = v[j]
      BY <2>3, <2>5, <2>8, <3>1
    <3>3. k \in places
      BY <2>6, <2>8, <3>2
    <3>4. ASSUME NEW i \in places PROVE i = k
      <4>1. i \in 1 .. Len(x) /\ KeyOf[x[i]] = key
        BY <2>6
      <4>2. PICK l \in 1 .. Len(v) : x[i] = v[l]
        BY <2>5, <4>1
      <4>3. l = j
        BY <1>0, <2>8, <4>1, <4>2 DEF Unlike
      <4> QED BY <2>5, <3>2, <4>1, <4>2, <4>3 DEF Distinct
    <3> HIDE DEF places
    <3>5. places = {k}
      BY <3>3, <3>4
    <3>6. k \in Nat
      BY <2>6
    <3>7. Hash!FirstOf(x, {k}) = x[k]
      BY <3>6, FirstOfIs
    <3> QED BY <2>4, <3>2, <3>5, <3>7
  <2> QED BY <2>7, <2>8 DEF find, key
<1> QED BY <1>1, <1>2

LEMMA RemovedMembers ==
  ASSUME NEW v, Distinct(v), Unlike(v), NEW i \in 1 .. Len(v)
  PROVE  LET x == List!Order!RemoveAt(v, i)
         IN  /\ Distinct(x) /\ Unlike(x) /\ Members(x) = Members(v) \ {v[i]}
             /\ Len(x) = Len(v) - 1 /\ Len(v) \in Nat
             /\ Len(x) # 0 => x[Len(x)] = IF i = Len(v) THEN v[Len(v) - 1] ELSE v[Len(v)]
<1> DEFINE x == List!Order!RemoveAt(v, i)
           n == Len(v)
<1>0. /\ v \in Seq(Elts) /\ n \in Nat /\ i \in Nat /\ i \in 1 .. n
      /\ \A j \in 1 .. n : v[j] \in Elts
      /\ \A j, k \in 1 .. n : v[j] = v[k] => j = k
      /\ \A j, k \in 1 .. n : KeyOf[v[j]] = KeyOf[v[k]] => j = k
  BY DEF Distinct, Unlike
<1>1. /\ Distinct(x) /\ Len(x) = n - 1
      /\ \A j \in 1 .. n - 1 : x[j] = IF j < i THEN v[j] ELSE v[j + 1]
      /\ \A j \in 1 .. Len(x) : x[j] # v[i]
      /\ \A k \in 1 .. n : k # i => \E j \in 1 .. Len(x) : x[j] = v[k]
  BY RemovedDistinct
<1> HIDE DEF x, n
<1>2. ASSUME NEW j \in 1 .. n - 1
      PROVE  \E k \in 1 .. n : x[j] = v[k] /\ k # i /\ k = IF j < i THEN j ELSE j + 1
  <2>1. CASE j < i
    BY <1>0, <1>1, <2>1
  <2>2. CASE j >= i
    <3>1. j + 1 \in 1 .. n /\ x[j] = v[j + 1] /\ j + 1 # i
      BY <1>0, <1>1, <2>2
    <3> QED BY <1>0, <2>2, <3>1
  <2> QED BY <1>0, <2>1, <2>2
<1>3. ASSUME NEW j \in 1 .. n - 1, NEW k \in 1 .. n - 1, KeyOf[x[j]] = KeyOf[x[k]] PROVE j = k
  <2>1. PICK y \in 1 .. n : x[j] = v[y] /\ y = IF j < i THEN j ELSE j + 1
    BY <1>2
  <2>2. PICK z \in 1 .. n : x[k] = v[z] /\ z = IF k < i THEN k ELSE k + 1
    BY <1>2
  <2>3. y = z
    BY <1>0, <1>3, <2>1, <2>2
  <2> QED BY <1>0, <2>1, <2>2, <2>3
<1>4. { x[j] : j \in 1 .. n - 1 } = { v[j] : j \in 1 .. n } \ {v[i]}
  <2>1. \A j \in 1 .. n - 1 : x[j] # v[i] /\ \E k \in 1 .. n : x[j] = v[k]
    BY <1>1, <1>2
  <2>2. \A k \in 1 .. n : v[k] # v[i] => \E j \in 1 .. n - 1 : x[j] = v[k]
    BY <1>1
  <2> QED BY <2>1, <2>2
<1>5. ASSUME n - 1 # 0 PROVE x[n - 1] = IF i = n THEN v[n - 1] ELSE v[n]
  <2>1. PICK l \in 1 .. n - 1 : l = n - 1
    BY <1>0, <1>5
  <2>2. l + 1 = n /\ (l < i <=> i = n)
    BY <1>0, <2>1
  <2>3. x[l] = IF l < i THEN v[l] ELSE v[l + 1]
    BY <1>1
  <2> QED BY <2>1, <2>2, <2>3
<1> QED BY <1>0, <1>1, <1>3, <1>4, <1>5 DEF x, n, Unlike, Members

LEMMA Deletes ==
  ASSUME StackAssumption, HashAssumption, NEW t, NEW v, TableIs(t, v), NEW i \in 1 .. Len(v)
  PROVE  TableIs(Hash!HASH_DELETE(t, v[i]), List!Order!RemoveAt(v, i))
<1> DEFINE e == v[i]
           x == List!Order!RemoveAt(v, i)
           n == Len(v)
           r == Hash!HASH_DELETE(t, e)
           u == [t EXCEPT !.tail = IF @ = e THEN t.prev[e] ELSE @,
                          !.head = IF t.prev[e] = NULL THEN t.next[e] ELSE @,
                          !.next = Hash!Put(@, t.prev[e], t.next[e]),
                          !.prev = Hash!Put(@, t.next[e], t.prev[e]),
                          !.num_items = @ - 1]
<1>0. Len(v) # 0 /\ Len(v) \in Nat
  BY DEF TableIs, Listing, Distinct
<1>1. /\ IsTable(t) /\ Distinct(v) /\ Unlike(v) /\ t.next \in Linkage /\ t.prev \in Linkage
      /\ t.hh_next \in Linkage /\ t.hh_prev \in Linkage
      /\ Doubly(v, t.next, t.prev) /\ t.head = At(v, 1) /\ t.tail = v[Len(v)]
      /\ t.num_items = Len(v) /\ Stored(t, Members(v), Len(v))
  BY <1>0 DEF TableIs, Listing
<1>2. /\ v \in Seq(Elts) /\ e \in Elts /\ e \in Members(v) /\ NULL \notin Elts
      /\ \A j \in 1 .. n : v[j] \in Elts
      /\ \A j, k \in 1 .. n : v[j] = v[k] => j = k
  BY <1>1 DEF Distinct, Members, StackAssumption
<1>3. /\ Distinct(x) /\ Unlike(x) /\ Members(x) = Members(v) \ {e} /\ Len(x) = n - 1
      /\ Len(x) # 0 => x[Len(x)] = IF i = n THEN v[n - 1] ELSE v[n]
  BY <1>1, RemovedMembers
<1>4. /\ t.next[e] = At(v, i + 1) /\ t.prev[e] = Prior(v, i)
  BY <1>1 DEF Doubly, Linked, Mirrored
<1>5. /\ t.next[e] = IF i < n THEN v[i + 1] ELSE NULL
      /\ t.prev[e] = IF i = 1 THEN NULL ELSE v[i - 1]
      /\ n \in Nat /\ i \in Nat /\ i >= 1 /\ i <= n /\ (i < n => i + 1 \in 1 .. n) /\ (i # 1 => i - 1 \in 1 .. n)
  BY <1>0, <1>4 DEF At, Prior
<1> HIDE DEF n, e
<1>6. (t.prev[e] = NULL <=> i = 1) /\ (t.next[e] = NULL <=> i = n)
  <2>1. (i # 1 => v[i - 1] \in Elts) /\ (i < n => v[i + 1] \in Elts) /\ (i # n => i < n)
    BY <1>2, <1>5
  <2> QED BY <1>2, <1>5, <2>1
<1>7. CASE n = 1
  <2>1. i = 1 /\ t.prev[e] = NULL /\ t.next[e] = NULL /\ Len(x) = 0
    BY <1>3, <1>5, <1>6, <1>7
  <2>2. r = [Hash!NoTable EXCEPT !.next = t.next, !.prev = t.prev,
                                 !.hh_next = t.hh_next, !.hh_prev = t.hh_prev]
    BY <2>1 DEF Hash!HASH_DELETE
  <2>3. /\ IsTable(r) /\ r.next = t.next /\ r.prev = t.prev /\ r.hh_next = t.hh_next
        /\ r.hh_prev = t.hh_prev /\ r.head = NULL
    BY <2>2 DEF IsTable, Fields, Hash!NoTable
  <2> HIDE DEF r, x
  <2>4. Doubly(x, r.next, r.prev) /\ At(x, 1) = NULL
    BY <2>1 DEF Doubly, Linked, Mirrored, At
  <2>5. TableIs(r, x)
    BY <1>1, <1>3, <2>1, <2>3, <2>4 DEF TableIs, Listing
  <2> QED BY <2>5 DEF r, x, e
<1>8. CASE n # 1
  <2>1. ~ (t.prev[e] = NULL /\ t.next[e] = NULL)
    BY <1>5, <1>6, <1>8
  <2>2. r = Hash!HASH_DEL_IN_BKT(u, e)
    BY <2>1 DEF Hash!HASH_DELETE
  <2>3. /\ IsTable(u) /\ SameBuckets(u, t) /\ u.num_items = n - 1
        /\ u.tail = (IF t.tail = e THEN t.prev[e] ELSE t.tail)
        /\ u.head = (IF t.prev[e] = NULL THEN t.next[e] ELSE t.head)
        /\ u.next = Hash!Put(t.next, t.prev[e], t.next[e])
        /\ u.prev = Hash!Put(t.prev, t.next[e], t.prev[e])
    BY <1>1 DEF IsTable, Fields, SameBuckets, n
  <2> HIDE DEF u, r, x
  <2>4. u.next = NextOut(t.next, v, i) /\ u.prev = PrevOut(t.prev, v, i)
    BY <1>4, <2>3 DEF NextOut, PrevOut
  <2>5. u.next \in Linkage /\ u.prev \in Linkage /\ Doubly(x, u.next, u.prev)
    <3>1. PICK nx \in Linkage : nx = t.next
      BY <1>1
    <3>2. PICK pv \in Linkage : pv = t.prev
      BY <1>1
    <3>3. Doubly(v, nx, pv) /\ Distinct(v)
      BY <1>1, <3>1, <3>2
    <3>4. /\ NextOut(nx, v, i) \in Linkage /\ PrevOut(pv, v, i) \in Linkage
          /\ Doubly(List!Order!RemoveAt(v, i), NextOut(nx, v, i), PrevOut(pv, v, i))
      BY <3>1, <3>2, <3>3, RemoveDoubly
    <3> QED BY <2>4, <3>1, <3>2, <3>4 DEF x
  <2>6. u.head = At(x, 1)
    <3>1. At(x, 1) = IF i = 1 THEN At(v, 2) ELSE At(v, 1)
      BY <1>0, <1>2, RemovedFirst DEF x
    <3> QED BY <1>1, <1>4, <1>6, <2>3, <3>1
  <2>7. u.tail = x[Len(x)]
    <3>1. t.tail = e <=> i = n
      BY <1>0, <1>1, <1>2 DEF e, n
    <3>2. Len(x) # 0 /\ (i = n => i # 1)
      BY <1>0, <1>3, <1>8 DEF n
    <3> QED BY <1>1, <1>3, <1>5, <2>3, <3>1, <3>2 DEF n
  <2>8. Listing(u, x)
    BY <1>3, <2>3, <2>5, <2>6, <2>7 DEF Listing
  <2>9. Unchains(r, u, Members(v), n, e)
    <3>1. Stored(u, Members(v), n)
      BY <1>1, <2>3, StoredSame DEF n
    <3>2. PICK S, m : S = Members(v) /\ m = n
      OBVIOUS
    <3>3. m \in Int /\ Stored(u, S, m) /\ IsTable(u) /\ e \in S
      BY <1>0, <1>2, <2>3, <3>1, <3>2 DEF n
    <3>4. Unchains(Hash!HASH_DEL_IN_BKT(u, e), u, S, m, e)
      BY <3>3, DeletesInBucket
    <3> QED BY <2>2, <3>2, <3>4
  <2>10. IsTable(r) /\ Stored(r, Members(x), n - 1) /\ SameList(r, u)
    BY <1>3, <2>9 DEF Unchains
  <2>11. Listing(r, x) /\ r.num_items = n - 1
    BY <2>3, <2>8, <2>10, ListingSame DEF SameList
  <2>12. r.hh_next \in Linkage /\ r.hh_prev \in Linkage
    BY <2>10, StoredLinks
  <2>13. TableIs(r, x)
    BY <1>3, <2>10, <2>11, <2>12 DEF TableIs
  <2> QED BY <2>13 DEF r, x, e
<1> QED BY <1>7, <1>8

LEMMA FreedKeeps ==
  ASSUME StackAssumption, NEW t, NEW v, TableIs(t, v), NEW T, \A j \in 1 .. Len(v) : v[j] \notin T
  PROVE  TableIs(Hash!Freed(t, T), v)
<1> DEFINE r == Hash!Freed(t, T)
<1>1. /\ IsTable(t) /\ Distinct(v) /\ Unlike(v) /\ t.next \in Linkage /\ t.prev \in Linkage
      /\ t.hh_next \in Linkage /\ t.hh_prev \in Linkage
      /\ Doubly(v, t.next, t.prev) /\ t.head = At(v, 1) /\ (Len(v) # 0 => t.tail = v[Len(v)])
      /\ Len(v) # 0 => t.num_items = Len(v) /\ Stored(t, Members(v), Len(v))
  BY DEF TableIs, Listing
<1>2. /\ IsTable(r) /\ r.head = t.head /\ r.tail = t.tail /\ r.num_items = t.num_items
      /\ r.buckets = t.buckets /\ r.num_buckets = t.num_buckets
      /\ r.ideal_chain_maxlen = t.ideal_chain_maxlen /\ r.noexpand = t.noexpand
      /\ r.next = [e \in Elts |-> IF e \in T THEN NULL ELSE t.next[e]]
      /\ r.prev = [e \in Elts |-> IF e \in T THEN NULL ELSE t.prev[e]]
      /\ r.hh_next = [e \in Elts |-> IF e \in T THEN NULL ELSE t.hh_next[e]]
      /\ r.hh_prev = [e \in Elts |-> IF e \in T THEN NULL ELSE t.hh_prev[e]]
  BY <1>1 DEF Hash!Freed, IsTable, Fields
<1> HIDE DEF r
<1>3. /\ r.next \in Linkage /\ r.prev \in Linkage /\ r.hh_next \in Linkage /\ r.hh_prev \in Linkage
  BY <1>1, <1>2 DEF Linkage, Nodes
<1>4. \A e \in Elts : e \notin T => /\ r.next[e] = t.next[e] /\ r.prev[e] = t.prev[e]
                                    /\ r.hh_next[e] = t.hh_next[e] /\ r.hh_prev[e] = t.hh_prev[e]
  BY <1>2
<1>5. \A j \in 1 .. Len(v) : r.next[v[j]] = t.next[v[j]] /\ r.prev[v[j]] = t.prev[v[j]]
  BY <1>1, <1>4 DEF Distinct
<1>6. Doubly(v, r.next, r.prev)
  <2>1. PICK hn, hp, fn, fp : hn = t.next /\ hp = t.prev /\ fn = r.next /\ fp = r.prev
    OBVIOUS
  <2>2. Doubly(v, fn, fp)
    BY <1>1, <1>5, <2>1, DoublyKept
  <2> QED BY <2>1, <2>2
<1>7. ASSUME Len(v) # 0 PROVE Stored(r, Members(v), Len(v))
  <2>1. PICK ch : /\ Holding(t.buckets, t.hh_next, t.hh_prev, t.num_buckets, ch, Members(v))
                  /\ Summed(ch, t.num_buckets, Len(v))
    BY <1>1, <1>7 DEF Stored, Chained
  <2>2. \A e \in Members(v) : e \in Elts /\ e \notin T
    BY <1>1 DEF Members, Distinct
  <2>3. PICK bk, hn, hp, n, S :
          bk = t.buckets /\ hn = t.hh_next /\ hp = t.hh_prev /\ n = t.num_buckets /\ S = Members(v)
    OBVIOUS
  <2>4. PICK fn \in Linkage : fn = r.hh_next
    BY <1>3
  <2>5. PICK fp \in Linkage : fp = r.hh_prev
    BY <1>3
  <2>6. Holding(bk, hn, hp, n, ch, S) /\ \A e \in S : fn[e] = hn[e] /\ fp[e] = hp[e]
    BY <1>4, <2>1, <2>2, <2>3, <2>4, <2>5
  <2>7. Holding(bk, fn, fp, n, ch, S)
    BY <2>4, <2>5, <2>6, HoldingKept
  <2>8. Chained(r, Members(v), Len(v))
    BY <1>2, <2>1, <2>3, <2>4, <2>5, <2>7 DEF Chained
  <2> QED BY <1>1, <1>2, <1>7, <2>8 DEF Stored, Bounded
<1> QED BY <1>1, <1>2, <1>3, <1>6, <1>7 DEF TableIs, Listing, r

LEMMA Clears ==
  ASSUME StackAssumption, NEW t, NEW v, TableIs(t, v)
  PROVE  TableIs(Hash!Freed(Hash!HASH_CLEAR(t), Elts), <<>>)
<1> DEFINE r == Hash!HASH_CLEAR(t)
<1>1. /\ IsTable(r) /\ r.next = t.next /\ r.prev = t.prev /\ r.hh_next = t.hh_next
      /\ r.hh_prev = t.hh_prev /\ r.head = NULL
  BY DEF IsTable, Fields, Hash!NoTable, Hash!HASH_CLEAR
<1>2. /\ t.next \in Linkage /\ t.prev \in Linkage /\ t.hh_next \in Linkage /\ t.hh_prev \in Linkage
  BY DEF TableIs, Listing
<1> HIDE DEF r
<1>3. TableIs(r, <<>>)
  BY <1>1, <1>2 DEF TableIs, Listing, Distinct, Unlike, Doubly, Linked, Mirrored, At
<1>4. \A j \in 1 .. Len(<<>>) : <<>>[j] \notin Elts
  OBVIOUS
<1>5. PICK o : o = <<>>
  OBVIOUS
<1>6. TableIs(Hash!Freed(r, Elts), o)
  BY <1>3, <1>4, <1>5, FreedKeeps
<1> QED BY <1>5, <1>6 DEF r

-----------------------------------------------------------------------------
(* The sort *)

LEMMA HashMergeSort ==
  ASSUME NEW x
  PROVE  Hash!MergeSort(x) = List!MergeSort(x)
BY DEF Hash!MergeSort, List!MergeSort, Hash!MergePass, List!MergePass, Hash!LastPass, List!LastPass,
       Hash!NMerges, List!NMerges, Hash!Run, List!Run, Hash!Merge, List!Merge, Hash!TakeP, List!TakeP,
       Hash!FlattenSeq, List!FlattenSeq

LEMMA MapCardinality ==
  ASSUME NEW S
  PROVE  Hash!Map!Cardinality(S) = List!Order!Cardinality(S)
BY DEF Hash!Map!Cardinality, List!Order!Cardinality, Hash!Map!IsFiniteSet, List!Order!IsFiniteSet

LEMMA MapSorted ==
  ASSUME NEW x
  PROVE  Hash!Map!Sorted(x) = List!Order!Sorted(x)
BY DEF Hash!Map!Sorted, List!Order!Sorted, Hash!Map!Cardinality, List!Order!Cardinality,
       Hash!Map!IsFiniteSet, List!Order!IsFiniteSet

\* The sorted list has the members of the old one.
SortedFrom(x, v) ==
  /\ Distinct(x) /\ Unlike(x) /\ Members(x) = Members(v) /\ Len(x) = Len(v)
  /\ Hash!Map!Sorted(v) = x

LEMMA HashSorts ==
  ASSUME ListAssumption, NEW v, Distinct(v), Unlike(v)
  PROVE  /\ SortedFrom(Hash!Map!Sorted(v), v)
         /\ Len(v) # 0 => Hash!MergeSort(v) = Hash!Map!Sorted(v)
<1>0. v \in Seq(Elts) /\ Len(v) \in Nat /\ \A j \in 1 .. Len(v) : v[j] \in Elts
  BY DEF Distinct
<1> DEFINE x == IF Len(v) = 0 THEN v ELSE List!MergeSort(v)
<1>1. Sorts(x, v)
  <2>1. CASE Len(v) = 0
    BY <1>0, <2>1 DEF Sorts, InOrder
  <2>2. CASE Len(v) # 0
    BY <2>2, MergeSortIs
  <2> QED BY <2>1, <2>2
<1>2. Len(v) # 0 => Hash!MergeSort(v) = x
  BY HashMergeSort
<1> HIDE DEF x
<1>3. List!Order!Sorted(v) = x /\ Permutes(x, v)
  BY <1>1, SortedIs, SortsPermute
<1>4. Hash!Map!Sorted(v) = x
  BY <1>3, MapSorted
<1>5. PICK from : CameFrom(x, v, from)
  BY <1>1, SortsFrom
<1>6. /\ from \in [1 .. Len(v) -> 1 .. Len(v)] /\ \A m \in 1 .. Len(v) : x[m] = v[from[m]]
      /\ \A m, k \in 1 .. Len(v) : from[m] = from[k] => m = k
      /\ \A i \in 1 .. Len(v) : \E m \in 1 .. Len(v) : from[m] = i
  BY <1>5 DEF CameFrom
<1>7. x \in Seq(Elts) /\ Len(x) = Len(v) /\ \A j, k \in 1 .. Len(v) : x[j] = x[k] => j = k
  BY <1>3 DEF Permutes
<1>8. Distinct(x)
  BY <1>0, <1>6, <1>7 DEF Distinct
<1>9. Unlike(x)
  <2>1. ASSUME NEW j \in 1 .. Len(v), NEW k \in 1 .. Len(v), KeyOf[x[j]] = KeyOf[x[k]] PROVE j = k
    <3>1. PICK y \in 1 .. Len(v), z \in 1 .. Len(v) : y = from[j] /\ z = from[k]
      BY <1>6
    <3>2. x[j] = v[y] /\ x[k] = v[z]
      BY <1>6, <3>1
    <3>3. KeyOf[v[y]] = KeyOf[v[z]]
      BY <2>1, <3>2
    <3>4. y = z
      BY <3>3 DEF Unlike
    <3> QED BY <1>6, <3>1, <3>4
  <2> QED BY <1>7, <2>1 DEF Unlike
<1>10. Members(x) = Members(v)
  <2>1. \A m \in 1 .. Len(v) : \E i \in 1 .. Len(v) : x[m] = v[i]
    BY <1>6
  <2>2. \A i \in 1 .. Len(v) : \E m \in 1 .. Len(v) : x[m] = v[i]
    BY <1>6
  <2>3. { x[m] : m \in 1 .. Len(v) } = { v[i] : i \in 1 .. Len(v) }
    <3>1. PICK D : D = 1 .. Len(v)
      OBVIOUS
    <3>2. /\ \A m \in D : \E i \in D : x[m] = v[i]
          /\ \A i \in D : \E m \in D : x[m] = v[i]
      BY <2>1, <2>2, <3>1
    <3>3. { x[m] : m \in D } = { v[i] : i \in D }
      BY <3>2
    <3> QED BY <3>1, <3>3
  <2> QED BY <1>7, <2>3 DEF Members
<1> QED BY <1>2, <1>4, <1>7, <1>8, <1>9, <1>10 DEF SortedFrom

LEMMA RelinkedIs ==
  ASSUME NEW x, Distinct(x), NEW nx, NEW pv
  PROVE  LET links == Hash!Linked(x, nx, pv)
         IN  \A j \in 1 .. Len(x) : links.next[x[j]] = At(x, j + 1) /\ links.prev[x[j]] = Prior(x, j)
<1> DEFINE links == Hash!Linked(x, nx, pv)
           at(e) == CHOOSE i \in DOMAIN x : x[i] = e
<1>0. /\ x \in Seq(Elts) /\ Len(x) \in Nat /\ DOMAIN x = 1 .. Len(x)
      /\ \A j \in 1 .. Len(x) : x[j] \in Elts
      /\ \A j, k \in 1 .. Len(x) : x[j] = x[k] => j = k
  BY DEF Distinct
<1>1. ASSUME NEW j \in 1 .. Len(x)
      PROVE  links.next[x[j]] = At(x, j + 1) /\ links.prev[x[j]] = Prior(x, j)
  <2>1. at(x[j]) = j
    <3>1. \A i \in DOMAIN x : x[i] = x[j] => i = j
      BY <1>0
    <3> QED BY <1>0, <3>1
  <2>2. x[j] \in Hash!ToSet(x) /\ x[j] \in Elts
    BY <1>0 DEF Hash!ToSet
  <2>3. /\ links.next = [e \in Elts |-> IF e \notin Hash!ToSet(x) THEN nx[e]
                                        ELSE IF at(e) = Len(x) THEN NULL ELSE x[at(e) + 1]]
        /\ links.prev = [e \in Elts |-> IF e \notin Hash!ToSet(x) THEN pv[e]
                                        ELSE IF at(e) = 1 THEN NULL ELSE x[at(e) - 1]]
    BY DEF Hash!Linked
  <2> HIDE DEF links, at
  <2>4. /\ links.next[x[j]] = IF j = Len(x) THEN NULL ELSE x[j + 1]
        /\ links.prev[x[j]] = IF j = 1 THEN NULL ELSE x[j - 1]
    BY <2>1, <2>2, <2>3
  <2>5. j + 1 <= Len(x) <=> j # Len(x)
    <3>1. PICK n \in Nat : n = Len(x)
      BY <1>0
    <3>2. j \in 1 .. n
      BY <3>1
    <3> QED BY <3>1, <3>2
  <2> QED BY <2>4, <2>5 DEF At, Prior
<1> QED BY <1>1

LEMMA RelinkedTyped ==
  ASSUME StackAssumption, NEW x, Distinct(x), NEW nx \in Linkage, NEW pv \in Linkage
  PROVE  LET links == Hash!Linked(x, nx, pv)
         IN  links.next \in Linkage /\ links.prev \in Linkage
<1> DEFINE links == Hash!Linked(x, nx, pv)
           at(e) == CHOOSE i \in DOMAIN x : x[i] = e
<1>0. /\ x \in Seq(Elts) /\ Len(x) \in Nat /\ DOMAIN x = 1 .. Len(x)
      /\ \A j \in 1 .. Len(x) : x[j] \in Elts
      /\ \A j, k \in 1 .. Len(x) : x[j] = x[k] => j = k
  BY DEF Distinct
<1>1. ASSUME NEW e \in Elts, e \in Hash!ToSet(x)
      PROVE  \E j \in 1 .. Len(x) : x[j] = e
  BY <1>0, <1>1 DEF Hash!ToSet
<1>2. /\ links.next = [e \in Elts |-> IF e \notin Hash!ToSet(x) THEN nx[e]
                                      ELSE IF at(e) = Len(x) THEN NULL ELSE x[at(e) + 1]]
      /\ links.prev = [e \in Elts |-> IF e \notin Hash!ToSet(x) THEN pv[e]
                                      ELSE IF at(e) = 1 THEN NULL ELSE x[at(e) - 1]]
  BY DEF Hash!Linked
<1>3. ASSUME NEW e \in Elts
      PROVE  links.next[e] \in Nodes /\ links.prev[e] \in Nodes
  <2>1. CASE e \notin Hash!ToSet(x)
    BY <1>2, <2>1 DEF Linkage
  <2>2. CASE e \in Hash!ToSet(x)
    <3>1. PICK j \in 1 .. Len(x) : x[j] = e
      BY <1>1, <2>2
    <3>2. links.next[e] = At(x, j + 1) /\ links.prev[e] = Prior(x, j)
      BY <3>1, RelinkedIs
    <3>3. (j + 1 <= Len(x) => j + 1 \in 1 .. Len(x)) /\ (j # 1 => j - 1 \in 1 .. Len(x))
      BY <1>0
    <3> HIDE DEF links
    <3> QED BY <1>0, <3>2, <3>3 DEF At, Prior, Nodes
  <2> QED BY <2>1, <2>2
<1> HIDE DEF at
<1>4. links.next = [e \in Elts |-> links.next[e]] /\ links.prev = [e \in Elts |-> links.prev[e]]
  <2> HIDE DEF links
  <2> QED BY <1>2
<1> HIDE DEF links
<1>5. links.next \in Linkage /\ links.prev \in Linkage
  BY <1>3, <1>4 DEF Linkage
<1> QED BY <1>5 DEF links

LEMMA SortsTable ==
  ASSUME StackAssumption, ListAssumption, NEW t, NEW v, TableIs(t, v)
  PROVE  TableIs(Hash!HASH_SRT(t), Hash!Map!Sorted(v))
<1> DEFINE x == Hash!Map!Sorted(v)
           r == Hash!HASH_SRT(t)
           links == Hash!Linked(x, t.next, t.prev)
<1>0. /\ IsTable(t) /\ Distinct(v) /\ Unlike(v) /\ t.next \in Linkage /\ t.prev \in Linkage
      /\ t.hh_next \in Linkage /\ t.hh_prev \in Linkage /\ Listing(t, v)
      /\ Len(v) # 0 => t.num_items = Len(v) /\ Stored(t, Members(v), Len(v))
      /\ v \in Seq(Elts) /\ Len(v) \in Nat
  BY DEF TableIs, Listing, Distinct
<1>1. /\ Distinct(x) /\ Unlike(x) /\ Members(x) = Members(v) /\ Len(x) = Len(v)
      /\ Len(v) # 0 => Hash!MergeSort(v) = x
  BY <1>0, HashSorts DEF SortedFrom
<1>2. CASE Len(v) = 0
  <2>1. t.head = NULL
    BY <1>2, NoList
  <2>2. r = t
    BY <2>1 DEF Hash!HASH_SRT
  <2>3. x = v
    BY <1>0, <1>1, <1>2 DEF Distinct
  <2> QED BY <2>2, <2>3
<1>3. CASE Len(v) # 0
  <2>1. t.head # NULL /\ Hash!AppOrder(t) = v
    BY <1>0, <1>3, NoList, AppOrderIs
  <2>2. r = [t EXCEPT !.next = links.next, !.prev = links.prev,
                      !.head = Head(x), !.tail = Hash!Last(x)]
    BY <1>1, <1>3, <2>1 DEF Hash!HASH_SRT
  <2>3. /\ links.next \in Linkage /\ links.prev \in Linkage
        /\ \A j \in 1 .. Len(x) : links.next[x[j]] = At(x, j + 1) /\ links.prev[x[j]] = Prior(x, j)
    <3>1. PICK nx, pv : nx = t.next /\ pv = t.prev
      OBVIOUS
    <3>2. nx \in Linkage /\ pv \in Linkage
      BY <1>0, <3>1
    <3> DEFINE l == Hash!Linked(x, nx, pv)
    <3>3. l = links
      BY <3>1
    <3>4. \A j \in 1 .. Len(x) : l.next[x[j]] = At(x, j + 1) /\ l.prev[x[j]] = Prior(x, j)
      <4> HIDE DEF x
      <4> QED BY <1>1, RelinkedIs
    <3>5. l.next \in Linkage /\ l.prev \in Linkage
      <4> HIDE DEF x
      <4> QED BY <1>1, <3>2, RelinkedTyped
    <3> HIDE DEF l, links, x
    <3> QED BY <3>3, <3>4, <3>5
  <2> HIDE DEF links
  <2>4. /\ IsTable(r) /\ r.next = links.next /\ r.prev = links.prev /\ r.head = Head(x)
        /\ r.tail = Hash!Last(x) /\ SameBuckets(r, t) /\ r.num_items = t.num_items
    <3> HIDE DEF x, r
    <3> QED BY <1>0, <2>2 DEF IsTable, Fields, SameBuckets
  <2> HIDE DEF r, x
  <2>5. Doubly(x, r.next, r.prev)
    BY <2>3, <2>4 DEF Doubly, Linked, Mirrored
  <2>6. Head(x) = At(x, 1) /\ Hash!Last(x) = x[Len(x)]
    <3>1. x \in Seq(Elts) /\ Len(x) \in Nat \ {0}
      BY <1>0, <1>1, <1>3 DEF Distinct
    <3> QED BY <3>1 DEF At, Hash!Last
  <2>7. Listing(r, x)
    BY <1>1, <2>3, <2>4, <2>5, <2>6 DEF Listing
  <2>8. Stored(r, Members(x), Len(x))
    BY <1>0, <1>1, <1>3, <2>4, StoredSame
  <2>9. r.hh_next \in Linkage /\ r.hh_prev \in Linkage
    BY <1>0, <2>4 DEF SameBuckets
  <2>10. TableIs(r, x)
    BY <1>0, <1>1, <1>3, <2>4, <2>7, <2>8, <2>9 DEF TableIs
  <2> QED BY <2>10 DEF r, x
<1> QED BY <1>2, <1>3

-----------------------------------------------------------------------------
(* What a table that is a list and chains of the same elements promises *)

Totals(f, chains, n) ==
  f = [k \in 0 .. n |-> IF k = 0 THEN 0 ELSE f[k - 1] + Len(chains[k - 1])]

LEMMA SumIs ==
  ASSUME NEW n \in Nat, NEW ch, NEW m, Summed(ch, n, m), NEW chains,
         \A b \in 0 .. n - 1 : chains[b] = ch[b], NEW f, Totals(f, chains, n)
  PROVE  f[n] = m
<1>1. PICK at : SumsTo(ch, n, at) /\ at[n] = m
  BY DEF Summed
<1>2. at[0] = 0 /\ \A k \in 1 .. n : at[k] = at[k - 1] + Len(ch[k - 1])
  BY <1>1 DEF SumsTo
<1>3. f[0] = 0 /\ \A k \in 1 .. n : f[k] = f[k - 1] + Len(chains[k - 1])
  BY DEF Totals
<1>4. \A k \in 1 .. n : chains[k - 1] = ch[k - 1]
  OBVIOUS
<1> DEFINE Q == { k \in Nat : k <= n => f[k] = at[k] }
<1>5. 0 \in Q
  BY <1>2, <1>3
<1>6. ASSUME NEW k \in Nat, k \in Q PROVE k + 1 \in Q
  <2>1. CASE k + 1 <= n
    <3>1. k + 1 \in 1 .. n /\ k + 1 - 1 = k /\ k <= n
      BY <2>1
    <3> QED BY <1>2, <1>3, <1>4, <1>6, <3>1
  <2>2. CASE ~ (k + 1 <= n)
    BY <2>2
  <2> QED BY <2>1, <2>2
<1> HIDE DEF Q
<1>7. \A k \in Nat : k \in Q
  BY <1>5, <1>6, Induction
<1>8. n \in Q
  BY <1>7
<1> QED BY <1>1, <1>8 DEF Q

LEMMA SumDefined ==
  ASSUME NEW n \in Nat, NEW ch, NEW m, Summed(ch, n, m), NEW chains,
         \A b \in 0 .. n - 1 : chains[b] = ch[b]
  PROVE  \E f : Totals(f, chains, n)
<1>1. PICK at : SumsTo(ch, n, at) /\ at[n] = m
  BY DEF Summed
<1>2. at[0] = 0 /\ \A k \in 1 .. n : at[k] = at[k - 1] + Len(ch[k - 1])
  BY <1>1 DEF SumsTo
<1> DEFINE f == [k \in 0 .. n |-> at[k]]
<1>3. ASSUME NEW k \in 0 .. n
      PROVE  f[k] = IF k = 0 THEN 0 ELSE f[k - 1] + Len(chains[k - 1])
  <2>1. CASE k = 0
    BY <1>2, <2>1
  <2>2. CASE k # 0
    <3>1. k \in 1 .. n /\ k - 1 \in 0 .. n - 1 /\ k - 1 \in 0 .. n
      BY <2>2
    <3> QED BY <1>2, <2>2, <3>1
  <2> QED BY <2>1, <2>2
<1>4. Totals(f, chains, n)
  BY <1>3 DEF Totals
<1> HIDE DEF f
<1> QED BY <1>4

LEMMA FsckHolds ==
  ASSUME StackAssumption, NEW t, NEW v, TableIs(t, v)
  PROVE  Hash!HASH_FSCK(t)
<1> DEFINE n == t.num_buckets
           chains == [b \in 0 .. n - 1 |-> Hash!Chain(t, b)]
           f0 == CHOOSE f : f = [k \in 0 .. n |-> IF k = 0 THEN 0 ELSE f[k - 1] + Len(chains[k - 1])]
           Mirrors(x, prev) == \A i \in DOMAIN x : prev[x[i]] = (IF i = 1 THEN NULL ELSE x[i - 1])
<1> SUFFICES ASSUME t.head # NULL
             PROVE  /\ \A b \in DOMAIN chains : /\ Mirrors(chains[b], t.hh_prev)
                                                /\ t.buckets[b].count = Len(chains[b])
                    /\ t.num_items = f0[n]
                    /\ Mirrors(Hash!AppOrder(t), t.prev)
                    /\ t.num_items = Len(Hash!AppOrder(t))
  BY DEF Hash!HASH_FSCK
<1>1. Len(v) # 0
  BY NoList
<1>2. Listing(t, v) /\ t.num_items = Len(v) /\ Stored(t, Members(v), Len(v))
  BY <1>1 DEF TableIs
<1>3. PICK ch : /\ Holding(t.buckets, t.hh_next, t.hh_prev, n, ch, Members(v))
                /\ Summed(ch, n, Len(v))
  BY <1>2 DEF Stored, Chained
<1>4. n \in Nat /\ \A b \in 0 .. n - 1 : ChainIs(t.buckets[b], ch[b], t.hh_next, t.hh_prev)
  BY <1>3 DEF Holding
<1>5. ASSUME NEW b \in 0 .. n - 1 PROVE chains[b] = ch[b]
  <2>1. Hash!Walk(t.buckets[b].hh_head, t.hh_next) = ch[b]
    <3> HIDE DEF n
    <3> QED BY <1>3, ChainsWalked
  <2> QED BY <2>1 DEF Hash!Chain
<1>6. ASSUME NEW b \in DOMAIN chains
      PROVE  Mirrors(chains[b], t.hh_prev) /\ t.buckets[b].count = Len(chains[b])
  <2>1. b \in 0 .. n - 1
    OBVIOUS
  <2>2. /\ chains[b] = ch[b] /\ t.buckets[b].count = Len(ch[b]) /\ Distinct(ch[b])
        /\ Mirrored(ch[b], t.hh_prev)
    BY <1>4, <1>5, <2>1 DEF ChainIs, Doubly
  <2>3. DOMAIN ch[b] = 1 .. Len(ch[b])
    BY <2>2 DEF Distinct
  <2> HIDE DEF chains, n
  <2> QED BY <2>2, <2>3 DEF Mirrored, Prior
<1>7. t.num_items = f0[n]
  <2> HIDE DEF chains, n
  <2>0. PICK n1, c1, m : n1 = n /\ c1 = chains /\ m = Len(v)
    OBVIOUS
  <2>a. n1 \in Nat /\ Summed(ch, n1, m) /\ \A b \in 0 .. n1 - 1 : c1[b] = ch[b]
    BY <1>3, <1>4, <1>5, <2>0
  <2>1. \E f : Totals(f, c1, n1)
    BY <2>a, SumDefined
  <2>2. Totals(f0, c1, n1)
    BY <2>0, <2>1 DEF Totals
  <2> HIDE DEF f0
  <2>3. f0[n] = Len(v)
    <3>1. f0[n1] = m
      BY <2>a, <2>2, SumIs
    <3> QED BY <2>0, <3>1
  <2> QED BY <1>2, <2>3
<1>8. Hash!AppOrder(t) = v
  BY <1>2, AppOrderIs
<1>9. Mirrors(v, t.prev)
  <2>1. DOMAIN v = 1 .. Len(v) /\ Mirrored(v, t.prev)
    BY <1>2 DEF Listing, Doubly, Distinct
  <2> QED BY <2>1 DEF Mirrored, Prior
<1> HIDE DEF chains, f0
<1> QED BY <1>2, <1>6, <1>7, <1>8, <1>9

LEMMA TableKeepsItsWord ==
  ASSUME StackAssumption, HashAssumption, NEW v, TableIs(table, v)
  PROVE  HashWellFormed
<1>0. /\ Listing(table, v) /\ Distinct(v) /\ Unlike(v) /\ Hash!AppOrder(table) = v
      /\ v \in Seq(Elts) /\ Len(v) \in Nat /\ \A j \in 1 .. Len(v) : v[j] \in Elts
  BY AppOrderIs DEF TableIs, Listing, Distinct
<1>1. \A e : e \in Hash!ToSet(v) <=> \E j \in 1 .. Len(v) : v[j] = e
  BY <1>0 DEF Hash!ToSet
<1>2. Hash!HASH_FSCK(table)
  BY FsckHolds
<1>3. ASSUME table.head # NULL
      PROVE  /\ Len(v) # 0 /\ table.tail = Hash!Last(v)
             /\ \A b \in 0 .. table.num_buckets - 1 : \A i \in DOMAIN Hash!Chain(table, b) :
                  Hash!HASH_TO_BKT(Hash!Chain(table, b)[i], table.num_buckets) = b
             /\ ~ table.noexpand => Bounded(table)
  <2>1. Len(v) # 0
    BY <1>3, NoList
  <2>2. table.tail = Hash!Last(v)
    BY <1>0, <2>1 DEF Listing, Hash!Last
  <2>3. PICK ch : Holding(table.buckets, table.hh_next, table.hh_prev, table.num_buckets, ch, Members(v))
    BY <2>1 DEF TableIs, Stored, Chained
  <2>4. ASSUME NEW b \in 0 .. table.num_buckets - 1, NEW i \in DOMAIN Hash!Chain(table, b)
        PROVE  Hash!HASH_TO_BKT(Hash!Chain(table, b)[i], table.num_buckets) = b
    <3>1. Hash!Walk(table.buckets[b].hh_head, table.hh_next) = ch[b]
      <4>1. PICK bk, hn, n : bk = table.buckets /\ hn = table.hh_next /\ n = table.num_buckets
        OBVIOUS
      <4>2. Holding(bk, hn, table.hh_prev, n, ch, Members(v)) /\ b \in 0 .. n - 1
        BY <2>3, <4>1
      <4>3. Hash!Walk(bk[b].hh_head, hn) = ch[b]
        BY <4>2, ChainsWalked
      <4> QED BY <4>1, <4>3
    <3>2. Hash!Chain(table, b) = ch[b]
      BY <3>1 DEF Hash!Chain
    <3>3. DOMAIN ch[b] = 1 .. Len(ch[b]) /\ \A j \in 1 .. Len(ch[b]) : Home(ch[b][j], table.num_buckets) = b
      BY <2>3 DEF Holding, ChainIs, Distinct
    <3> QED BY <3>2, <3>3 DEF Home
  <2> QED BY <2>1, <2>2, <2>4 DEF TableIs, Stored
<1>4. Hash!WellFormed
  <2>1. \A e, f \in Hash!ToSet(v) : KeyOf[e] = KeyOf[f] => e = f
    BY <1>0, <1>1 DEF Unlike
  <2> QED BY <1>0, <1>2, <1>3, <2>1 DEF Hash!WellFormed
<1>5. Hash!FindsExactly
  <2>1. ASSUME NEW key \in Hash!Keys
        PROVE  LET e == Hash!HASH_FIND(table, key)
                   with == { f \in Hash!ToSet(v) : KeyOf[f] = key }
               IN  IF with = {} THEN e = NULL ELSE e \in with
    <3>1. PICK f \in Elts : key = KeyOf[f]
      BY DEF Hash!Keys
    <3>2. PICK t : t = table
      OBVIOUS
    <3>3. /\ (\A j \in 1 .. Len(v) : KeyOf[v[j]] # KeyOf[f]) => Hash!HASH_FIND(t, KeyOf[f]) = NULL
          /\ \A j \in 1 .. Len(v) :
               KeyOf[v[j]] = KeyOf[f] => Hash!HASH_FIND(t, KeyOf[f]) = v[j]
      BY <3>2, Finds
    <3>4. CASE \A j \in 1 .. Len(v) : KeyOf[v[j]] # key
      BY <1>1, <3>1, <3>2, <3>3, <3>4
    <3>5. CASE \E j \in 1 .. Len(v) : KeyOf[v[j]] = key
      <4>1. PICK j \in 1 .. Len(v) : KeyOf[v[j]] = key
        BY <3>5
      <4>2. Hash!HASH_FIND(table, key) = v[j] /\ v[j] \in Hash!ToSet(v)
        BY <1>1, <3>1, <3>2, <3>3, <4>1
      <4> QED BY <4>1, <4>2
    <3> QED BY <3>4, <3>5
  <2> QED BY <1>0, <2>1 DEF Hash!FindsExactly
<1>6. Hash!ChainsBounded
  BY <1>3 DEF Hash!ChainsBounded, Bounded
<1> QED BY <1>4, <1>5, <1>6 DEF HashWellFormed

-----------------------------------------------------------------------------
(* What the client does, to the table and to its order *)

LEMMA WithoutIs ==
  ASSUME NEW v, Distinct(v), Unlike(v), NEW key
  PROVE  /\ (\A j \in 1 .. Len(v) : KeyOf[v[j]] # key) => Hash!Map!Without(v, key) = v
         /\ \A i \in 1 .. Len(v) :
              KeyOf[v[i]] = key => Hash!Map!Without(v, key) = List!Order!RemoveAt(v, i)
<1> DEFINE with == { i \in DOMAIN v : KeyOf[v[i]] = key }
<1>0. DOMAIN v = 1 .. Len(v)
  BY DEF Distinct
<1>1. Hash!Map!Without(v, key)
        = IF with = {} THEN v ELSE Hash!Map!RemoveAt(v, CHOOSE i \in with : TRUE)
  BY DEF Hash!Map!Without
<1>2. ASSUME \A j \in 1 .. Len(v) : KeyOf[v[j]] # key PROVE with = {}
  BY <1>0, <1>2
<1>3. ASSUME NEW i \in 1 .. Len(v), KeyOf[v[i]] = key
      PROVE  with # {} /\ (CHOOSE k \in with : TRUE) = i
  BY <1>0, <1>3 DEF Unlike
<1> HIDE DEF with
<1>4. ASSUME NEW i \in 1 .. Len(v), KeyOf[v[i]] = key
      PROVE  Hash!Map!Without(v, key) = List!Order!RemoveAt(v, i)
  <2>1. Hash!Map!Without(v, key) = Hash!Map!RemoveAt(v, i)
    BY <1>1, <1>3, <1>4
  <2> QED BY <2>1 DEF Hash!Map!RemoveAt, List!Order!RemoveAt
<1> QED BY <1>1, <1>2, <1>4

LEMMA AppendedIs ==
  ASSUME NEW v \in Seq(Elts), NEW e \in Elts
  PROVE  List!Order!Enter(v, Len(v) + 1, e) = Append(v, e)
<1>1. PICK i : i = Len(v) + 1
  OBVIOUS
<1>2. Len(v) \in Nat /\ i \in 1 .. Len(v) + 1
  BY <1>1
<1> DEFINE x == List!Order!Enter(v, i, e)
<1>3. x \in Seq(Elts) /\ Len(x) = Len(v) + 1
      /\ \A j \in 1 .. Len(v) + 1 :
           x[j] = IF j < i THEN v[j] ELSE IF j = i THEN e ELSE v[j - 1]
  BY <1>2, EnteredIs
<1> HIDE DEF x
<1>4. \A j \in 1 .. Len(v) + 1 : x[j] = Append(v, e)[j]
  BY <1>1, <1>2, <1>3
<1>5. x = Append(v, e)
  BY <1>2, <1>3, <1>4
<1> QED BY <1>1, <1>5 DEF x

LEMMA InsertedIs ==
  ASSUME NEW v \in Seq(Elts), NEW e
  PROVE  Hash!Map!Inserted(v, e) = List!Order!Enter(v, InOrderAt(v, e), e)
<1> DEFINE greater == { i \in DOMAIN v : RankOf[v[i]] > RankOf[e] }
<1>1. greater = Greater(v, e)
  BY DEF Greater
<1>2. Hash!Map!Inserted(v, e)
        = Hash!Map!InsertAt(v, IF greater = {} THEN Len(v) + 1
                               ELSE CHOOSE i \in greater : \A j \in greater : i <= j, e)
  BY DEF Hash!Map!Inserted
<1> HIDE DEF greater
<1>3. Hash!Map!Inserted(v, e) = Hash!Map!InsertAt(v, InOrderAt(v, e), e)
  BY <1>1, <1>2 DEF InOrderAt
<1> QED BY <1>3 DEF Hash!Map!InsertAt, List!Order!Enter

\* The table t after e was added at an end, or by rank, and before.
Added(t, e, v, x) == TableIs(t, x) /\ x = Append(v, e)
Ordered(t, e, v, x) == TableIs(t, x) /\ x = Hash!Map!Inserted(v, e)

LEMMA AddedIs ==
  ASSUME StackAssumption, HashAssumption, NEW t, NEW v, TableIs(t, v), NEW e, Fresh(v, e)
  PROVE  /\ Added(Hash!HASH_ADD(t, e), e, v, Append(v, e))
         /\ Ordered(Hash!HASH_ADD_INORDER(t, e), e, v, Hash!Map!Inserted(v, e))
         /\ \A j \in 1 .. Len(Append(v, e)) : Append(v, e)[j] = e \/ Append(v, e)[j] \in Members(v)
         /\ \A j \in 1 .. Len(Hash!Map!Inserted(v, e)) :
              Hash!Map!Inserted(v, e)[j] = e \/ Hash!Map!Inserted(v, e)[j] \in Members(v)
<1>0. v \in Seq(Elts) /\ e \in Elts /\ Len(v) \in Nat /\ Distinct(v) /\ Unlike(v)
  BY DEF TableIs, Listing, Distinct, Fresh
<1>1. List!Order!Enter(v, Len(v) + 1, e) = Append(v, e)
  BY <1>0, AppendedIs
<1>2. Hash!Map!Inserted(v, e) = List!Order!Enter(v, InOrderAt(v, e), e)
  BY <1>0, InsertedIs
<1>3. TableIs(Hash!HASH_ADD(t, e), List!Order!Enter(v, Len(v) + 1, e))
  BY Adds
<1>4. TableIs(Hash!HASH_ADD_INORDER(t, e), List!Order!Enter(v, InOrderAt(v, e), e))
  BY AddsInOrder
<1>5. ASSUME NEW i \in 1 .. Len(v) + 1
      PROVE  LET x == List!Order!Enter(v, i, e)
             IN  \A j \in 1 .. Len(x) : x[j] = e \/ x[j] \in Members(v)
  <2>1. Members(List!Order!Enter(v, i, e)) = Members(v) \cup {e}
    BY <1>0, FreshEnters
  <2> QED BY <2>1 DEF Members
<1>6. Len(v) + 1 \in 1 .. Len(v) + 1 /\ InOrderAt(v, e) \in 1 .. Len(v) + 1
  BY <1>0, InOrderAtIs
<1>7. LET x == List!Order!Enter(v, Len(v) + 1, e)
      IN  \A j \in 1 .. Len(x) : x[j] = e \/ x[j] \in Members(v)
  BY <1>5, <1>6
<1>8. LET x == List!Order!Enter(v, InOrderAt(v, e), e)
      IN  \A j \in 1 .. Len(x) : x[j] = e \/ x[j] \in Members(v)
  BY <1>5, <1>6
<1>9. Added(Hash!HASH_ADD(t, e), e, v, Append(v, e))
  BY <1>1, <1>3 DEF Added
<1>10. Ordered(Hash!HASH_ADD_INORDER(t, e), e, v, Hash!Map!Inserted(v, e))
  BY <1>2, <1>4 DEF Ordered
<1>11. \A j \in 1 .. Len(Append(v, e)) : Append(v, e)[j] = e \/ Append(v, e)[j] \in Members(v)
  BY <1>1, <1>7
<1>12. \A j \in 1 .. Len(Hash!Map!Inserted(v, e)) :
         Hash!Map!Inserted(v, e)[j] = e \/ Hash!Map!Inserted(v, e)[j] \in Members(v)
  BY <1>2, <1>8
<1> QED BY <1>9, <1>10, <1>11, <1>12

\* What was found there is gone.
LEMMA ReplacedGone ==
  ASSUME StackAssumption, HashAssumption, NEW t, NEW v, TableIs(t, v), NEW e \in Elts, e \notin Members(v)
  PROVE  LET old == Hash!HASH_FIND(t, KeyOf[e])
             u == IF old = NULL THEN t ELSE Hash!HASH_DELETE(t, old)
             x == Hash!Map!Without(v, KeyOf[e])
         IN  TableIs(u, x) /\ Fresh(x, e) /\ old # e /\ old \notin Members(x)
<1> DEFINE key == KeyOf[e]
           old == Hash!HASH_FIND(t, key)
           u == IF old = NULL THEN t ELSE Hash!HASH_DELETE(t, old)
           x == Hash!Map!Without(v, key)
<1>0. /\ Distinct(v) /\ Unlike(v) /\ \A j \in 1 .. Len(v) : v[j] \in Elts
      /\ NULL \notin Elts /\ \A j \in 1 .. Len(v) : v[j] # e
  BY DEF TableIs, Listing, Distinct, StackAssumption, Members
<1>1. /\ (\A j \in 1 .. Len(v) : KeyOf[v[j]] # key) => old = NULL
      /\ \A j \in 1 .. Len(v) : KeyOf[v[j]] = key => old = v[j]
  BY Finds
<1>2. /\ (\A j \in 1 .. Len(v) : KeyOf[v[j]] # key) => x = v
      /\ \A i \in 1 .. Len(v) : KeyOf[v[i]] = key => x = List!Order!RemoveAt(v, i)
  <2> HIDE DEF key
  <2> QED BY <1>0, WithoutIs
<1> HIDE DEF old, x, key
<1>3. CASE \A j \in 1 .. Len(v) : KeyOf[v[j]] # key
  <2>1. old = NULL /\ u = t /\ x = v
    BY <1>1, <1>2, <1>3
  <2>2. Fresh(v, e)
    BY <1>0, <1>3 DEF Fresh, key
  <2>3. NULL \notin Members(v) /\ NULL # e
    BY <1>0 DEF Members
  <2> HIDE DEF u
  <2> QED BY <2>1, <2>2, <2>3 DEF u, x, old, key
<1>4. CASE \E j \in 1 .. Len(v) : KeyOf[v[j]] = key
  <2>1. PICK i \in 1 .. Len(v) : KeyOf[v[i]] = key
    BY <1>4
  <2>2. old = v[i] /\ old # NULL /\ old # e /\ u = Hash!HASH_DELETE(t, v[i])
        /\ x = List!Order!RemoveAt(v, i)
    BY <1>0, <1>1, <1>2, <2>1
  <2>3. TableIs(Hash!HASH_DELETE(t, v[i]), List!Order!RemoveAt(v, i))
    BY Deletes
  <2>4. Members(List!Order!RemoveAt(v, i)) = Members(v) \ {v[i]}
    BY <1>0, RemovedMembers
  <2> HIDE DEF u
  <2>5. TableIs(u, x) /\ Members(x) = Members(v) \ {v[i]}
    BY <2>2, <2>3, <2>4
  <2>6. \A j \in 1 .. Len(x) : x[j] \in Members(v) /\ x[j] # v[i]
    <3>1. \A j \in 1 .. Len(x) : x[j] \in Members(x)
      BY DEF Members
    <3> QED BY <2>5, <3>1
  <2>7. ASSUME NEW j \in 1 .. Len(x) PROVE x[j] # e /\ KeyOf[x[j]] # KeyOf[e]
    <3>1. PICK k \in 1 .. Len(v) : x[j] = v[k]
      BY <2>6 DEF Members
    <3>2. v[k] # v[i] /\ k # i
      BY <2>6, <3>1
    <3> QED BY <1>0, <2>1, <3>1, <3>2 DEF Unlike, key
  <2>8. Fresh(x, e)
    BY <2>7 DEF Fresh
  <2> QED BY <2>2, <2>5, <2>8 DEF u, x, old, key
<1> QED BY <1>3, <1>4

LEMMA Replaces ==
  ASSUME StackAssumption, HashAssumption, NEW t, NEW v, TableIs(t, v), NEW e \in Elts, e \notin Members(v)
  PROVE  LET old == Hash!HASH_FIND(t, KeyOf[e])
             x == Hash!Map!Without(v, KeyOf[e])
         IN  /\ TableIs(Hash!Freed(Hash!HASH_REPLACE(t, e), {old}), Append(x, e))
             /\ TableIs(Hash!Freed(Hash!HASH_REPLACE_INORDER(t, e), {old}), Hash!Map!Inserted(x, e))
<1> DEFINE old == Hash!HASH_FIND(t, KeyOf[e])
           u == IF old = NULL THEN t ELSE Hash!HASH_DELETE(t, old)
           x == Hash!Map!Without(v, KeyOf[e])
<1>1. TableIs(u, x) /\ Fresh(x, e) /\ old # e /\ old \notin Members(x)
  BY ReplacedGone
<1>2. Hash!HASH_REPLACE(t, e) = Hash!HASH_ADD(u, e)
      /\ Hash!HASH_REPLACE_INORDER(t, e) = Hash!HASH_ADD_INORDER(u, e)
  BY DEF Hash!HASH_REPLACE, Hash!HASH_REPLACE_INORDER
<1> HIDE DEF old, u, x
<1>3. /\ Added(Hash!HASH_ADD(u, e), e, x, Append(x, e))
      /\ Ordered(Hash!HASH_ADD_INORDER(u, e), e, x, Hash!Map!Inserted(x, e))
      /\ \A j \in 1 .. Len(Append(x, e)) : Append(x, e)[j] = e \/ Append(x, e)[j] \in Members(x)
      /\ \A j \in 1 .. Len(Hash!Map!Inserted(x, e)) :
           Hash!Map!Inserted(x, e)[j] = e \/ Hash!Map!Inserted(x, e)[j] \in Members(x)
  BY <1>1, AddedIs
<1>4. TableIs(Hash!Freed(Hash!HASH_REPLACE(t, e), {old}), Append(x, e))
  <2>1. PICK r, y : r = Hash!HASH_REPLACE(t, e) /\ y = Append(x, e)
    OBVIOUS
  <2>2. TableIs(r, y) /\ \A j \in 1 .. Len(y) : y[j] \notin {old}
    BY <1>1, <1>2, <1>3, <2>1 DEF Added
  <2>3. TableIs(Hash!Freed(r, {old}), y)
    BY <2>2, FreedKeeps
  <2> QED BY <2>1, <2>3
<1>5. TableIs(Hash!Freed(Hash!HASH_REPLACE_INORDER(t, e), {old}), Hash!Map!Inserted(x, e))
  <2>1. PICK r, y : r = Hash!HASH_REPLACE_INORDER(t, e) /\ y = Hash!Map!Inserted(x, e)
    OBVIOUS
  <2>2. TableIs(r, y) /\ \A j \in 1 .. Len(y) : y[j] \notin {old}
    BY <1>1, <1>2, <1>3, <2>1 DEF Ordered
  <2>3. TableIs(Hash!Freed(r, {old}), y)
    BY <2>2, FreedKeeps
  <2> QED BY <2>1, <2>3
<1> QED BY <1>4, <1>5 DEF old, x

-----------------------------------------------------------------------------
(* The table holds an order of elements of different keys *)

HashInv == \E v : TableIs(table, v)

\* What the actions of a client that hold on to the table's elements do to the
\* order v, and to what is walked.
Gains(v, x) == \E e \in Elts : Fresh(v, e) /\ x = Append(v, e)
Loses(v, x) == \E i \in 1 .. Len(v) : x = List!Order!RemoveAt(v, i) /\ hel = v[i]
Changes(v, x) ==
  \/ \E e \in Elts : /\ e \notin Members(v)
                     /\ \/ x = Append(Hash!Map!Without(v, KeyOf[e]), e)
                        \/ x = Hash!Map!Inserted(Hash!Map!Without(v, KeyOf[e]), e)
  \/ \E i \in 1 .. Len(v) : x = List!Order!RemoveAt(v, i)
  \/ x = <<>>
  \/ x = Hash!Map!Sorted(v)

HashMoves(v, x) ==
  /\ TableIs(table', x) /\ UNCHANGED Hash!walkvars /\ Changes(v, x)
  /\ walking => Gains(v, x) \/ Loses(v, x)

LEMMA NotFound ==
  ASSUME StackAssumption, HashAssumption, NEW t, NEW v, TableIs(t, v), NEW e \in Elts,
         Hash!HASH_FIND(t, KeyOf[e]) = NULL
  PROVE  Fresh(v, e) /\ e \notin Members(v) /\ Hash!Map!Without(v, KeyOf[e]) = v
<1>0. Distinct(v) /\ Unlike(v) /\ NULL \notin Elts /\ \A j \in 1 .. Len(v) : v[j] \in Elts
  BY DEF TableIs, Listing, StackAssumption, Distinct
<1>1. \A j \in 1 .. Len(v) : KeyOf[v[j]] # KeyOf[e]
  BY <1>0, Finds
<1>2. Fresh(v, e) /\ e \notin Members(v)
  BY <1>1 DEF Fresh, Members
<1>3. PICK key : key = KeyOf[e]
  OBVIOUS
<1>4. (\A j \in 1 .. Len(v) : KeyOf[v[j]] # key) => Hash!Map!Without(v, key) = v
  BY <1>0, WithoutIs
<1> QED BY <1>1, <1>2, <1>3, <1>4

LEMMA InIs ==
  ASSUME StackAssumption, NEW v, TableIs(table, v), NEW e
  PROVE  Hash!In(e) <=> e \in Members(v)
<1>1. Hash!AppOrder(table) = v /\ DOMAIN v = 1 .. Len(v)
  BY AppOrderIs DEF TableIs, Listing, Distinct
<1> QED BY <1>1 DEF Hash!In, Hash!ToSet, Members

LEMMA HashAdd ==
  ASSUME StackAssumption, HashAssumption, NEW v, TableIs(table, v), NEW e \in Elts, Hash!Add(e)
  PROVE  HashMoves(v, Append(v, e))
<1>1. PICK t : t = table
  OBVIOUS
<1>2. TableIs(t, v) /\ Hash!HASH_FIND(t, KeyOf[e]) = NULL /\ table' = Hash!HASH_ADD(t, e)
      /\ UNCHANGED Hash!walkvars
  BY <1>1 DEF Hash!Add
<1>3. Fresh(v, e) /\ e \notin Members(v) /\ Hash!Map!Without(v, KeyOf[e]) = v
  BY <1>2, NotFound
<1>4. Added(Hash!HASH_ADD(t, e), e, v, Append(v, e))
  BY <1>2, <1>3, AddedIs
<1> QED BY <1>2, <1>3, <1>4 DEF Added, HashMoves, Changes, Gains

LEMMA HashAddInorder ==
  ASSUME StackAssumption, HashAssumption, NEW v, TableIs(table, v), NEW e \in Elts,
         Hash!AddInorder(e)
  PROVE  HashMoves(v, Hash!Map!Inserted(v, e))
<1>1. PICK t : t = table
  OBVIOUS
<1>2. TableIs(t, v) /\ Hash!HASH_FIND(t, KeyOf[e]) = NULL /\ ~ walking
      /\ table' = Hash!HASH_ADD_INORDER(t, e) /\ UNCHANGED Hash!walkvars
  BY <1>1 DEF Hash!AddInorder
<1>3. Fresh(v, e) /\ e \notin Members(v) /\ Hash!Map!Without(v, KeyOf[e]) = v
  BY <1>2, NotFound
<1>4. Ordered(Hash!HASH_ADD_INORDER(t, e), e, v, Hash!Map!Inserted(v, e))
  BY <1>2, <1>3, AddedIs
<1> QED BY <1>2, <1>3, <1>4 DEF Ordered, HashMoves, Changes

LEMMA HashReplace ==
  ASSUME StackAssumption, HashAssumption, NEW v, TableIs(table, v), NEW e \in Elts,
         Hash!Replace(e)
  PROVE  \E x : HashMoves(v, x)
<1>1. PICK t, x : t = table /\ x = Hash!Map!Without(v, KeyOf[e])
  OBVIOUS
<1>2. e \notin Members(v) /\ TableIs(t, v)
  BY <1>1, InIs DEF Hash!Replace
<1>3. LET old == Hash!HASH_FIND(t, KeyOf[e])
      IN  /\ TableIs(Hash!Freed(Hash!HASH_REPLACE(t, e), {old}), Append(x, e))
          /\ TableIs(Hash!Freed(Hash!HASH_REPLACE_INORDER(t, e), {old}), Hash!Map!Inserted(x, e))
  BY <1>1, <1>2, Replaces
<1>4. TableIs(table', Append(x, e)) \/ TableIs(table', Hash!Map!Inserted(x, e))
  BY <1>1, <1>3 DEF Hash!Replace
<1>5. ~ walking /\ UNCHANGED Hash!walkvars
  BY DEF Hash!Replace
<1>6. Changes(v, Append(x, e)) /\ Changes(v, Hash!Map!Inserted(x, e))
  BY <1>1, <1>2 DEF Changes
<1> QED BY <1>4, <1>5, <1>6 DEF HashMoves

LEMMA HashDelete ==
  ASSUME StackAssumption, HashAssumption, NEW v, TableIs(table, v), NEW e \in Elts,
         Hash!Delete(e)
  PROVE  \E x : HashMoves(v, x)
<1>1. PICK t : t = table
  OBVIOUS
<1>2. e \in Members(v) /\ TableIs(t, v) /\ Distinct(v) /\ Unlike(v)
  BY <1>1, InIs DEF Hash!Delete, TableIs, Listing
<1>3. PICK i \in 1 .. Len(v) : v[i] = e
  BY <1>2 DEF Members
<1>4. PICK x : x = List!Order!RemoveAt(v, i)
  OBVIOUS
<1>5. TableIs(Hash!HASH_DELETE(t, e), x)
  BY <1>2, <1>3, <1>4, Deletes
<1>6. Members(x) = Members(v) \ {e}
  BY <1>2, <1>3, <1>4, RemovedMembers
<1>7. \A j \in 1 .. Len(x) : x[j] \notin {e}
  BY <1>6 DEF Members
<1>8. PICK r : r = Hash!HASH_DELETE(t, e)
  OBVIOUS
<1>9. TableIs(Hash!Freed(r, {e}), x)
  BY <1>5, <1>7, <1>8, FreedKeeps
<1>10. TableIs(table', x) /\ UNCHANGED Hash!walkvars /\ (walking => e = hel)
  BY <1>1, <1>8, <1>9 DEF Hash!Delete
<1>11. Changes(v, x) /\ (walking => Loses(v, x))
  BY <1>3, <1>4, <1>10 DEF Changes, Loses
<1> QED BY <1>10, <1>11 DEF HashMoves

LEMMA HashClears ==
  ASSUME StackAssumption, NEW v, TableIs(table, v), Hash!Clear
  PROVE  HashMoves(v, <<>>)
<1>1. PICK t : t = table
  OBVIOUS
<1>2. TableIs(Hash!Freed(Hash!HASH_CLEAR(t), Elts), <<>>)
  BY <1>1, Clears
<1> QED BY <1>1, <1>2 DEF Hash!Clear, HashMoves, Changes

LEMMA HashSortsIt ==
  ASSUME StackAssumption, ListAssumption, NEW v, TableIs(table, v), Hash!Sort
  PROVE  HashMoves(v, Hash!Map!Sorted(v))
<1>1. PICK t : t = table
  OBVIOUS
<1>2. TableIs(Hash!HASH_SRT(t), Hash!Map!Sorted(v))
  BY <1>1, SortsTable
<1> QED BY <1>1, <1>2 DEF Hash!Sort, HashMoves, Changes

LEMMA HashMovesOn ==
  ASSUME StackAssumption, ListAssumption, HashAssumption, NEW v, TableIs(table, v),
         [Hash!Next]_(Hash!vars)
  PROVE  UNCHANGED table \/ \E x : HashMoves(v, x)
<1>1. ASSUME Hash!Clear \/ Hash!Sort PROVE \E x : HashMoves(v, x)
  BY <1>1, HashClears, HashSortsIt
<1>2. ASSUME Hash!StartWalk \/ Hash!StepWalk \/ Hash!EndWalk PROVE UNCHANGED table
  BY <1>2 DEF Hash!StartWalk, Hash!StepWalk, Hash!EndWalk
<1>3. CASE UNCHANGED Hash!vars
  BY <1>3 DEF Hash!vars
<1>4. ASSUME NEW e \in Elts, Hash!Add(e) \/ Hash!AddInorder(e) \/ Hash!Replace(e) \/ Hash!Delete(e)
      PROVE  \E x : HashMoves(v, x)
  BY <1>4, HashAdd, HashAddInorder, HashReplace, HashDelete
<1> QED BY <1>1, <1>2, <1>3, <1>4 DEF Hash!Next

LEMMA HashInit ==
  ASSUME StackAssumption, Hash!Init
  PROVE  TableIs(table, <<>>) /\ Hash!AppOrder(table) = <<>>
<1> DEFINE r == Hash!NoTable
<1>1. /\ IsTable(r) /\ r.next \in Linkage /\ r.prev \in Linkage /\ r.hh_next \in Linkage
      /\ r.hh_prev \in Linkage /\ r.head = NULL
  BY DEF IsTable, Fields, Hash!NoTable, Linkage, Nodes
<1> HIDE DEF r
<1>2. TableIs(r, <<>>)
  BY <1>1 DEF TableIs, Listing, Distinct, Unlike, Doubly, Linked, Mirrored, At
<1>3. PICK o : o = <<>>
  OBVIOUS
<1>4. TableIs(table, o) /\ Hash!AppOrder(table) = o
  <2>1. TableIs(table, o)
    BY <1>2, <1>3 DEF Hash!Init, r
  <2> QED BY <2>1, AppOrderIs DEF TableIs
<1> QED BY <1>3, <1>4

LEMMA HashNext ==
  ASSUME StackAssumption, ListAssumption, HashAssumption, HashInv, [Hash!Next]_(Hash!vars)
  PROVE  HashInv'
<1>1. PICK v : TableIs(table, v)
  BY DEF HashInv
<1>2. CASE UNCHANGED table
  BY <1>1, <1>2 DEF HashInv
<1>3. ASSUME NEW x, HashMoves(v, x) PROVE HashInv'
  BY <1>3 DEF HashInv, HashMoves
<1> QED BY <1>1, <1>2, <1>3, HashMovesOn

\* Whatever is added, replaced, deleted or sorted, the table is the sound one
\* of its elements: FSCK passes, each lookup finds what is there, and no chain
\* outgrows its bound.
THEOREM HashStaysSound == Hash!Spec => []HashWellFormed
<1> StackAssumption /\ ListAssumption /\ HashAssumption
  BY ContainersAssumption
<1>1. Hash!Init => HashInv
  BY HashInit DEF HashInv
<1>2. HashInv /\ [Hash!Next]_(Hash!vars) => HashInv'
  BY HashNext
<1>3. HashInv => HashWellFormed
  BY TableKeepsItsWord DEF HashInv
<1> QED BY <1>1, <1>2, <1>3, PTL DEF Hash!Spec

LEMMA MapNext ==
  ASSUME StackAssumption, ListAssumption, HashAssumption, HashInv, [Hash!Next]_(Hash!vars)
  PROVE  [Hash!Map!Next]_(Hash!AppOrder(table))
<1> DEFINE order == Hash!AppOrder(table)
<1>1. PICK v : TableIs(table, v)
  BY DEF HashInv
<1>2. order = v /\ Distinct(v) /\ Unlike(v) /\ DOMAIN v = 1 .. Len(v)
  BY <1>1, AppOrderIs DEF TableIs, Listing, Distinct
<1>3. CASE UNCHANGED table
  BY <1>3
<1>4. ASSUME NEW x, HashMoves(v, x) PROVE Hash!Map!Next
  <2>1. order' = x
    <3>1. Hash!AppOrder(table') = x
      BY <1>4, AppOrderIs DEF HashMoves, TableIs
    <3> QED BY <3>1
  <2>2. Hash!Map!ToSet(v) = Members(v)
    BY <1>2 DEF Hash!Map!ToSet, Members
  <2>3. ASSUME NEW e \in Elts, e \notin Members(v), x = Append(Hash!Map!Without(v, KeyOf[e]), e)
        PROVE  Hash!Map!Add
    <3>1. e \in Elts \ Hash!Map!ToSet(order) /\ order' = Append(Hash!Map!Without(order, KeyOf[e]), e)
      <4> HIDE DEF order
      <4> QED BY <1>2, <2>1, <2>2, <2>3
    <3> QED BY <3>1 DEF Hash!Map!Add
  <2>4. ASSUME NEW e \in Elts, e \notin Members(v),
               x = Hash!Map!Inserted(Hash!Map!Without(v, KeyOf[e]), e)
        PROVE  Hash!Map!AddInOrder
    <3>1. /\ e \in Elts \ Hash!Map!ToSet(order)
          /\ order' = Hash!Map!Inserted(Hash!Map!Without(order, KeyOf[e]), e)
      <4> HIDE DEF order
      <4> QED BY <1>2, <2>1, <2>2, <2>4
    <3> QED BY <3>1 DEF Hash!Map!AddInOrder
  <2>5. ASSUME NEW i \in 1 .. Len(v), x = List!Order!RemoveAt(v, i)
        PROVE  Hash!Map!Delete
    <3>1. PICK key : key = KeyOf[v[i]]
      OBVIOUS
    <3>2. Hash!Map!Without(v, key) = x
      BY <1>2, <2>5, <3>1, WithoutIs
    <3>3. v[i] \in Elts
      BY <1>2 DEF Distinct
    <3>4. order' = Hash!Map!Without(order, key) /\ \E j \in DOMAIN order : KeyOf[order[j]] = key
      <4> HIDE DEF order
      <4> QED BY <1>2, <2>1, <3>1, <3>2
    <3> QED BY <3>1, <3>3, <3>4 DEF Hash!Map!Delete, Hash!Map!HasKey
  <2>6. CASE x = <<>>
    BY <2>1, <2>6 DEF Hash!Map!Next, Hash!Map!Clear
  <2>7. ASSUME x = Hash!Map!Sorted(v) PROVE Hash!Map!Sort
    <3>1. order' = Hash!Map!Sorted(order)
      <4> HIDE DEF order
      <4> QED BY <1>2, <2>1, <2>7
    <3> QED BY <3>1 DEF Hash!Map!Sort
  <2> QED BY <1>4, <2>3, <2>4, <2>5, <2>6, <2>7 DEF HashMoves, Changes, Hash!Map!Next
<1> QED BY <1>1, <1>3, <1>4, HashMovesOn

\* The table is a map that remembers an order: every macro is one of the
\* operations on it, the sort the stable one.
THEOREM HashIsMap == Hash!Spec => HashImplementsMap
<1> StackAssumption /\ ListAssumption /\ HashAssumption
  BY ContainersAssumption
<1>1. Hash!Init => HashInv /\ Hash!Map!Init
  BY HashInit DEF HashInv, Hash!Map!Init
<1>2. HashInv /\ [Hash!Next]_(Hash!vars) => HashInv'
  BY HashNext
<1>3. HashInv /\ [Hash!Next]_(Hash!vars) => [Hash!Map!Next]_(Hash!AppOrder(table))
  BY MapNext
<1> QED BY <1>1, <1>2, <1>3, PTL DEF Hash!Spec, HashImplementsMap, Hash!ImplementsMap,
                                     Hash!Map!Spec

-----------------------------------------------------------------------------
(* Walking the table while its elements are deleted and added *)

\* The sequence x starts with b.
Starts(x, b) ==
  /\ x \in Seq(Elts) /\ Len(x) \in Nat /\ Len(b) \in Nat /\ Len(b) <= Len(x)
  /\ \A j \in 1 .. Len(b) : x[j] = b[j]

\* The order v ends with what follows the m-th of x.
Coming(v, x, m, d) ==
  /\ m \in Nat /\ 1 <= m /\ m < Len(x) /\ d \in Nat
  /\ Len(v) = d + Len(x) - m
  /\ \A j \in m + 1 .. Len(x) : v[d + j - m] = x[j]

\* Up to the m-th place and one more, y is x, and so are its first ones.
Follows(v, y, c, x, b, m) ==
  Starts(y, b) /\ Coming(v, y, m, c) /\ \A j \in 1 .. m + 1 : y[j] = x[j]

LEMMA AheadGains ==
  ASSUME NEW v \in Seq(Elts), NEW x, NEW m, NEW d, NEW b, NEW e \in Elts,
         Starts(x, b), Coming(v, x, m, d)
  PROVE  Follows(Append(v, e), Append(x, e), d, x, b, m)
<1>0. /\ x \in Seq(Elts) /\ Len(x) \in Nat /\ Len(v) \in Nat /\ m \in Nat /\ d \in Nat
      /\ v \in Seq(Elts) /\ e \in Elts /\ m < Len(x) /\ Len(v) = d + Len(x) - m
      /\ \A j \in m + 1 .. Len(x) : v[d + j - m] = x[j]
  BY DEF Starts, Coming
<1>1. PICK y, u : y = Append(x, e) /\ u = Append(v, e)
  OBVIOUS
<1>2. /\ y \in Seq(Elts) /\ Len(y) = Len(x) + 1 /\ y[Len(x) + 1] = e
      /\ \A j \in 1 .. Len(x) : y[j] = x[j]
  BY <1>0, <1>1
<1>3. /\ Len(u) = Len(v) + 1 /\ u[Len(v) + 1] = e
      /\ \A j \in 1 .. Len(v) : u[j] = v[j]
  <2>1. v \in Seq(Elts) /\ e \in Elts /\ u = Append(v, e)
    BY <1>0, <1>1
  <2>2. Len(u) = Len(v) + 1 /\ u[Len(v) + 1] = e
    BY <2>1, LenProperties
  <2>3. \A j \in 1 .. Len(v) : u[j] = v[j]
    BY <2>1, LenProperties
  <2> QED BY <2>2, <2>3
<1>4. ASSUME NEW j \in m + 1 .. Len(y) PROVE u[d + j - m] = y[j]
  <2>1. CASE j = Len(x) + 1
    BY <1>0, <1>2, <1>3, <2>1
  <2>2. CASE j # Len(x) + 1
    <3>1. j \in m + 1 .. Len(x) /\ j \in 1 .. Len(x) /\ d + j - m \in 1 .. Len(v)
      BY <1>0, <1>2, <2>2
    <3> QED BY <1>0, <1>2, <1>3, <3>1
  <2> QED BY <2>1, <2>2
<1>5. Coming(u, y, m, d)
  BY <1>0, <1>2, <1>3, <1>4 DEF Coming
<1>6. Starts(y, b)
  BY <1>0, <1>2 DEF Starts
<1>7. \A j \in 1 .. m + 1 : y[j] = x[j]
  BY <1>0, <1>2
<1> QED BY <1>1, <1>5, <1>6, <1>7 DEF Follows

LEMMA AheadLoses ==
  ASSUME NEW v, Distinct(v), NEW b, Distinct(b), NEW x, NEW m, NEW d,
         Starts(x, b), Coming(v, x, m, d), x[m + 1] # x[m],
         NEW i \in 1 .. Len(v), v[i] = x[m]
  PROVE  \E y, c : Follows(List!Order!RemoveAt(v, i), y, c, x, b, m)
<1>0. /\ x \in Seq(Elts) /\ Len(x) \in Nat /\ Len(v) \in Nat /\ m \in Nat /\ d \in Nat
      /\ v \in Seq(Elts) /\ 1 <= m /\ m < Len(x) /\ Len(v) = d + Len(x) - m
      /\ \A j \in m + 1 .. Len(x) : v[d + j - m] = x[j]
      /\ Len(b) \in Nat /\ Len(b) <= Len(x) /\ \A j \in 1 .. Len(b) : x[j] = b[j]
  BY DEF Starts, Coming, Distinct
<1>1. PICK u : u = List!Order!RemoveAt(v, i)
  OBVIOUS
<1>2. /\ Len(u) = Len(v) - 1
      /\ \A j \in 1 .. Len(v) - 1 : u[j] = IF j < i THEN v[j] ELSE v[j + 1]
  BY <1>0, <1>1, RemovedIs
\* It was before what is to meet.
<1>3. CASE i <= d
  <2>1. ASSUME NEW j \in m + 1 .. Len(x) PROVE u[d - 1 + j - m] = x[j]
    <3>1. j \in Int /\ m + 1 <= j /\ j <= Len(x) /\ 1 <= d
      BY <1>0, <1>3
    <3>2. d - 1 + j - m \in 1 .. Len(v) - 1
      BY <1>0, <3>1
    <3>3. PICK k \in 1 .. Len(v) - 1 : k = d - 1 + j - m
      BY <3>2
    <3>4. ~ (k < i) /\ k + 1 = d + j - m
      BY <1>0, <1>3, <3>3
    <3>5. u[k] = v[k + 1]
      BY <1>2, <3>4
    <3> QED BY <1>0, <3>3, <3>4, <3>5
  <2>2. d - 1 \in Nat /\ Len(u) = d - 1 + Len(x) - m
    BY <1>0, <1>2, <1>3
  <2>3. Coming(u, x, m, d - 1)
    BY <1>0, <2>1, <2>2 DEF Coming
  <2> QED BY <1>0, <1>1, <2>3 DEF Follows
\* It had been added again.
<1>4. CASE i > d
  <2>1. PICK k \in Nat : k = m + i - d
    BY <1>0, <1>4
  <2>2. k \in m + 1 .. Len(x) /\ d + k - m = i /\ x[k] = x[m] /\ k # m + 1
    <3>1. k \in m + 1 .. Len(x) /\ d + k - m = i
      BY <1>0, <1>4, <2>1
    <3>2. x[k] = v[i]
      BY <1>0, <3>1
    <3> QED BY <3>1, <3>2
  <2>3. k > Len(b)
    <3>1. ASSUME k <= Len(b) PROVE FALSE
      <4>1. k \in 1 .. Len(b) /\ m \in 1 .. Len(b) /\ b[k] = b[m] /\ k # m
        BY <1>0, <2>2, <3>1
      <4> QED BY <4>1 DEF Distinct
    <3> QED BY <1>0, <2>1, <3>1
  <2>4. PICK y : y = List!Order!RemoveAt(x, k)
    OBVIOUS
  <2>5. /\ y \in Seq(Elts) /\ Len(y) = Len(x) - 1
        /\ \A j \in 1 .. Len(x) - 1 : y[j] = IF j < k THEN x[j] ELSE x[j + 1]
    <3>1. k \in 1 .. Len(x)
      BY <1>0, <2>2
    <3> QED BY <1>0, <2>4, <3>1, RemovedIs
  <2>6. ASSUME NEW j \in m + 1 .. Len(y) PROVE u[d + j - m] = y[j]
    <3>1. j \in 1 .. Len(x) - 1 /\ d + j - m \in 1 .. Len(v) - 1
          /\ j \in m + 1 .. Len(x) /\ j + 1 \in m + 1 .. Len(x)
      BY <1>0, <2>5
    <3>2. v[d + j - m] = x[j] /\ v[d + (j + 1) - m] = x[j + 1] /\ d + (j + 1) - m = d + j - m + 1
      BY <1>0, <3>1
    <3>3. CASE j < k
      <4>1. d + j - m < i
        BY <1>0, <2>2, <3>3
      <4> QED BY <1>2, <2>5, <3>1, <3>2, <3>3, <4>1
    <3>4. CASE ~ (j < k)
      <4>1. ~ (d + j - m < i)
        BY <1>0, <2>2, <3>4
      <4> QED BY <1>2, <2>5, <3>1, <3>2, <3>4, <4>1
    <3> QED BY <3>3, <3>4
  <2>7. m < Len(y) /\ Len(u) = d + Len(y) - m
    BY <1>0, <1>2, <2>2, <2>5
  <2>8. Coming(u, y, m, d)
    BY <1>0, <2>6, <2>7 DEF Coming
  <2>9. Starts(y, b)
    <3>1. Len(y) \in Nat /\ Len(b) <= Len(y)
      BY <1>0, <2>1, <2>2, <2>3, <2>5
    <3>2. ASSUME NEW j \in 1 .. Len(b) PROVE y[j] = b[j]
      <4>1. j \in Int /\ 1 <= j /\ j <= Len(b)
        BY <1>0
      <4>2. Len(x) \in Nat /\ Len(b) \in Nat /\ k \in Nat /\ k <= Len(x)
        BY <1>0, <2>1, <2>2
      <4>3. j \in 1 .. Len(x) - 1 /\ j < k
        BY <2>3, <4>1, <4>2
      <4> QED BY <1>0, <2>5, <4>3
    <3> QED BY <1>0, <2>5, <3>1, <3>2 DEF Starts
  <2>10. ASSUME NEW j \in 1 .. m + 1 PROVE y[j] = x[j]
    <3>1. m + 1 < k /\ k <= Len(x)
      BY <1>0, <2>1, <2>2
    <3>2. j \in Int /\ 1 <= j /\ j <= m + 1
      BY <1>0
    <3>3. Len(x) \in Nat /\ m \in Nat /\ k \in Nat
      BY <1>0, <2>1
    <3>4. j \in 1 .. Len(x) - 1 /\ j < k
      BY <3>1, <3>2, <3>3
    <3> QED BY <2>5, <3>4
  <2> QED BY <1>1, <2>8, <2>9, <2>10 DEF Follows
<1> QED BY <1>0, <1>3, <1>4

\* What the link of the next one is.
LEMMA AheadSteps ==
  ASSUME StackAssumption, NEW v, Distinct(v), NEW link, Linked(v, link), NEW x, NEW m, NEW d,
         NEW b, Starts(x, b), Coming(v, x, m, d)
  PROVE  /\ m + 1 = Len(x) => link[x[m + 1]] = NULL
         /\ m + 1 # Len(x) => /\ link[x[m + 1]] = x[m + 2] /\ x[m + 2] # x[m + 1]
                              /\ Coming(v, x, m + 1, d + 1)
<1>0. /\ x \in Seq(Elts) /\ Len(x) \in Nat /\ Len(v) \in Nat /\ m \in Nat /\ d \in Nat
      /\ v \in Seq(Elts) /\ 1 <= m /\ m < Len(x) /\ Len(v) = d + Len(x) - m
      /\ \A j \in m + 1 .. Len(x) : v[d + j - m] = x[j]
  BY DEF Starts, Coming, Distinct
<1>1. d + 1 \in 1 .. Len(v) /\ v[d + 1] = x[m + 1]
  <2>1. m + 1 \in m + 1 .. Len(x) /\ d + (m + 1) - m = d + 1
    BY <1>0
  <2> QED BY <1>0, <2>1
<1>2. PICK i \in 1 .. Len(v) : i = d + 1
  BY <1>1
<1>3. link[v[i]] = At(v, i + 1)
  BY <1>2 DEF Linked
<1>4. CASE m + 1 = Len(x)
  <2>1. i + 1 > Len(v)
    BY <1>0, <1>2, <1>4
  <2>2. link[v[i]] = NULL
    BY <1>0, <1>2, <1>3, <2>1 DEF At
  <2> QED BY <1>1, <1>2, <1>4, <2>2
<1>5. CASE m + 1 # Len(x)
  <2>1. i + 1 \in 1 .. Len(v) /\ v[i + 1] = x[m + 2]
    <3>1. m + 2 \in m + 1 .. Len(x) /\ d + (m + 2) - m = i + 1
      BY <1>0, <1>2, <1>5
    <3>2. v[d + (m + 2) - m] = x[m + 2]
      BY <1>0, <3>1
    <3> QED BY <1>0, <1>2, <1>5, <3>1, <3>2
  <2>2. v[i + 1] # v[i]
    BY <1>0, <1>2, <2>1 DEF Distinct
  <2>3. link[v[i]] = v[i + 1]
    BY <1>3, <2>1 DEF At
  <2>4. Coming(v, x, m + 1, d + 1)
    BY <1>0, <1>5 DEF Coming
  <2> QED BY <1>1, <1>2, <1>5, <2>1, <2>2, <2>3, <2>4
<1> QED BY <1>4, <1>5

\* What has been met so far is x up to the element the walk is at, and the next
\* one has been read.
Going(v, x, d) ==
  /\ Starts(x, hbegun) /\ Coming(v, x, Len(hmet), d)
  /\ \A j \in 1 .. Len(hmet) : hmet[j] = x[j]
  /\ htmp = x[Len(hmet) + 1] /\ htmp # hel

\* All that was there has been met.
Done == htmp = NULL /\ Starts(hmet, hbegun)

HashWalking(v) ==
  walking =>
    /\ Distinct(hbegun) /\ hmet \in Seq(Elts) /\ Len(hmet) \in Nat
    /\ IF hel = NULL THEN Starts(hmet, hbegun)
       ELSE /\ Len(hmet) # 0 /\ hel = hmet[Len(hmet)]
            /\ Done \/ \E x, d : Going(v, x, d)

HashWalkInv == \E v : TableIs(table, v) /\ HashWalking(v)

LEMMA WalkSeesPrefix ==
  ASSUME StackAssumption, HashWalkInv
  PROVE  Hash!WalkMeetsAll
<1> SUFFICES ASSUME walking
             PROVE  IF hel = NULL THEN Hash!IsPrefix(hbegun, hmet)
                    ELSE Hash!IsPrefix(hmet, hbegun) \/ Hash!IsPrefix(hbegun, hmet)
  BY DEF Hash!WalkMeetsAll
<1>1. PICK v : HashWalking(v)
  BY DEF HashWalkInv
<1>2. hbegun \in Seq(Elts) /\ Len(hbegun) \in Nat /\ hmet \in Seq(Elts) /\ Len(hmet) \in Nat
  BY <1>1 DEF HashWalking, Distinct
<1>3. ASSUME NEW p \in Seq(Elts), NEW q \in Seq(Elts), Len(p) \in Nat, Len(q) \in Nat,
             Len(p) <= Len(q), \A j \in 1 .. Len(p) : p[j] = q[j]
      PROVE  Hash!IsPrefix(p, q)
  <2>1. PICK n \in Nat : n = Len(p)
    BY <1>3
  <2>2. n <= Len(q) /\ n <= Len(p) /\ Len(q) \in Nat
    BY <1>3, <2>1
  <2>3. SubSeq(p, 1, n) = SubSeq(q, 1, n)
    <3>1. /\ SubSeq(p, 1, n) = [j \in 1 .. n |-> p[j]]
          /\ SubSeq(q, 1, n) = [j \in 1 .. n |-> q[j]]
      BY <1>3, <2>1, <2>2
    <3> QED BY <1>3, <2>1, <3>1
  <2> QED BY <2>1, <2>2, <2>3 DEF Hash!IsPrefix
<1>4. ASSUME Starts(hmet, hbegun) PROVE Hash!IsPrefix(hbegun, hmet)
  <2>1. Len(hbegun) <= Len(hmet) /\ \A j \in 1 .. Len(hbegun) : hbegun[j] = hmet[j]
    BY <1>4 DEF Starts
  <2> QED BY <1>2, <1>3, <2>1
<1>5. ASSUME NEW x, NEW d, Going(v, x, d)
      PROVE  Hash!IsPrefix(hmet, hbegun) \/ Hash!IsPrefix(hbegun, hmet)
  <2>1. /\ \A j \in 1 .. Len(hmet) : hmet[j] = x[j]
        /\ \A j \in 1 .. Len(hbegun) : x[j] = hbegun[j]
    BY <1>5 DEF Going, Starts
  <2>2. CASE Len(hmet) <= Len(hbegun)
    <3>1. \A j \in 1 .. Len(hmet) : hmet[j] = hbegun[j]
      BY <1>2, <2>1, <2>2
    <3> QED BY <1>2, <1>3, <2>2, <3>1
  <2>3. CASE Len(hbegun) <= Len(hmet)
    <3>1. \A j \in 1 .. Len(hbegun) : hbegun[j] = hmet[j]
      BY <1>2, <2>1, <2>3
    <3> QED BY <1>2, <1>3, <2>3, <3>1
  <2> QED BY <1>2, <2>2, <2>3
<1> QED BY <1>1, <1>4, <1>5 DEF HashWalking, Done

\* The body deletes the element the walk is at, or adds others.
LEMMA WalkSurvives ==
  ASSUME StackAssumption, NEW v, TableIs(table, v), HashWalking(v), NEW x, HashMoves(v, x)
  PROVE  HashWalking(x)'
<1> SUFFICES ASSUME walking PROVE HashWalking(x)'
  BY DEF HashMoves, Hash!walkvars, HashWalking
<1>0. UNCHANGED <<hel, htmp, walking, hbegun, hmet>> /\ Distinct(v) /\ v \in Seq(Elts)
  BY DEF HashMoves, Hash!walkvars, TableIs, Listing, Distinct
<1>1. PICK m : m = Len(hmet)
  OBVIOUS
<1>2. /\ Distinct(hbegun) /\ hmet \in Seq(Elts) /\ m \in Nat
      /\ hel # NULL => m # 0 /\ hel = hmet[m]
  BY <1>1 DEF HashWalking
<1>3. ASSUME NEW y, NEW c, NEW z, NEW d, Going(v, z, d), hel # NULL, Follows(x, y, c, z, hbegun, m)
      PROVE  Going(x, y, c)'
  <2>1. /\ Coming(v, z, m, d) /\ \A j \in 1 .. m : hmet[j] = z[j]
        /\ htmp = z[m + 1] /\ htmp # hel
    BY <1>1, <1>3 DEF Going
  <2>2. /\ Starts(y, hbegun) /\ Coming(x, y, m, c) /\ \A j \in 1 .. m + 1 : y[j] = z[j]
    BY <1>3 DEF Follows
  <2>3. (\A j \in 1 .. m : hmet[j] = y[j]) /\ htmp = y[m + 1]
    BY <1>2, <2>1, <2>2
  <2> QED BY <1>0, <1>1, <2>1, <2>2, <2>3 DEF Going
<1>4. ASSUME NEW z, NEW d, Going(v, z, d), hel # NULL
      PROVE  \E y, c : Going(x, y, c)'
  <2>1. /\ Starts(z, hbegun) /\ Coming(v, z, m, d) /\ hel = z[m] /\ z[m + 1] # z[m]
    <3>1. m \in 1 .. m
      BY <1>2, <1>4
    <3> QED BY <1>1, <1>2, <1>4, <3>1 DEF Going
  <2>2. ASSUME Gains(v, x) PROVE \E y, c : Follows(x, y, c, z, hbegun, m)
    <3>1. PICK e \in Elts : x = Append(v, e)
      BY <2>2 DEF Gains
    <3>2. PICK b : b = hbegun
      OBVIOUS
    <3>3. Follows(Append(v, e), Append(z, e), d, z, b, m)
      BY <1>0, <2>1, <3>2, AheadGains
    <3> QED BY <3>1, <3>2, <3>3
  <2>3. ASSUME Loses(v, x) PROVE \E y, c : Follows(x, y, c, z, hbegun, m)
    <3>1. PICK i \in 1 .. Len(v) : x = List!Order!RemoveAt(v, i) /\ hel = v[i]
      BY <2>3 DEF Loses
    <3>2. PICK b : b = hbegun
      OBVIOUS
    <3>3. \E y, c : Follows(List!Order!RemoveAt(v, i), y, c, z, b, m)
      BY <1>0, <1>2, <2>1, <3>1, <3>2, AheadLoses
    <3> QED BY <3>1, <3>2, <3>3
  <2>4. PICK y, c : Follows(x, y, c, z, hbegun, m)
    BY <2>2, <2>3 DEF HashMoves
  <2> QED BY <1>3, <1>4, <2>4
<1>5. CASE hel = NULL
  BY <1>0, <1>5 DEF HashWalking
<1>6. CASE hel # NULL /\ Done
  BY <1>0, <1>6 DEF HashWalking, Done
<1>7. CASE hel # NULL /\ \E z, d : Going(v, z, d)
  <2>1. \E y, c : Going(x, y, c)'
    BY <1>4, <1>7
  <2> QED BY <1>0, <1>1, <1>2, <1>7, <2>1 DEF HashWalking
<1> QED BY <1>5, <1>6, <1>7 DEF HashWalking

LEMMA IterStarts ==
  ASSUME StackAssumption, NEW v, TableIs(table, v), Hash!StartWalk
  PROVE  HashWalking(v)'
<1>0. /\ hel' = table.head /\ htmp' = Hash!NextOf(table.head) /\ hbegun' = Hash!AppOrder(table)
      /\ hmet' = IF table.head = NULL THEN <<>> ELSE <<table.head>>
  BY DEF Hash!StartWalk
<1>1. /\ Distinct(v) /\ v \in Seq(Elts) /\ Len(v) \in Nat /\ Linked(v, table.next)
      /\ table.head = At(v, 1) /\ hbegun' = v
      /\ table.head = NULL <=> Len(v) = 0
  <2>1. PICK t : t = table
    OBVIOUS
  <2>2. t.head = NULL <=> Len(v) = 0
    BY <2>1, NoList
  <2> QED BY <1>0, <2>1, <2>2, AppOrderIs DEF TableIs, Listing, Distinct, Doubly
<1>2. CASE Len(v) = 0
  <2>1. hel' = NULL /\ hmet' = <<>>
    BY <1>0, <1>1, <1>2
  <2>2. Starts(<<>>, v)
    BY <1>1, <1>2 DEF Starts
  <2> QED BY <1>1, <2>1, <2>2 DEF HashWalking
<1>3. CASE Len(v) # 0
  <2>1. /\ 1 \in 1 .. Len(v) /\ table.head # NULL /\ hel' = v[1] /\ hmet' = <<v[1]>>
        /\ htmp' = At(v, 2)
    <3>1. 1 \in 1 .. Len(v) /\ 1 <= Len(v)
      BY <1>1, <1>3
    <3>2. table.head = v[1] /\ table.head # NULL
      BY <1>1, <1>3, <3>1 DEF At
    <3>3. table.next[v[1]] = At(v, 2)
      BY <1>1, <3>1 DEF Linked
    <3> QED BY <1>0, <3>1, <3>2, <3>3 DEF Hash!NextOf
  <2>2. hmet' \in Seq(Elts) /\ Len(hmet') = 1 /\ hmet'[1] = v[1]
    BY <1>1, <2>1
  <2>3. CASE Len(v) = 1
    <3>1. htmp' = NULL
      BY <2>1, <2>3 DEF At
    <3>2. Starts(hmet', v)
      BY <2>2, <2>3 DEF Starts
    <3>3. Done'
      BY <1>1, <3>1, <3>2 DEF Done
    <3> QED BY <1>1, <2>1, <2>2, <3>3 DEF HashWalking, Distinct, StackAssumption
  <2>4. CASE Len(v) # 1
    <3>1. 2 \in 1 .. Len(v) /\ htmp' = v[2] /\ htmp' # hel'
      BY <1>1, <1>3, <2>1, <2>4 DEF At, Distinct
    <3>2. Coming(v, v, 1, 1)
      <4>1. PICK n \in Nat : n = Len(v)
        BY <1>1
      <4>2. 1 < n /\ n = 1 + n - 1 /\ \A j \in 1 + 1 .. n : v[1 + j - 1] = v[j]
        BY <1>3, <2>4, <4>1
      <4> QED BY <4>1, <4>2 DEF Coming
    <3>3. Starts(v, v)
      BY <1>1 DEF Starts
    <3>4. Going(v, v, 1)'
      BY <1>1, <2>2, <3>1, <3>2, <3>3 DEF Going
    <3>5. hel' = hmet'[Len(hmet')] /\ Len(hmet') # 0 /\ hel' # NULL /\ Len(hmet') \in Nat
      BY <1>0, <2>1, <2>2
    <3> QED BY <1>1, <2>2, <3>4, <3>5 DEF HashWalking
  <2> QED BY <2>3, <2>4
<1> QED BY <1>2, <1>3

LEMMA IterGoesOn ==
  ASSUME StackAssumption, NEW v, TableIs(table, v), HashWalking(v), Hash!StepWalk
  PROVE  HashWalking(v)'
<1>0. /\ walking /\ hel # NULL /\ hel' = htmp /\ htmp' = Hash!NextOf(hel)' /\ table' = table
      /\ hmet' = IF htmp = NULL THEN hmet ELSE Append(hmet, htmp)
      /\ htmp' = IF htmp = NULL THEN NULL ELSE table.next[htmp]
      /\ UNCHANGED <<walking, hbegun>>
  BY DEF Hash!StepWalk, Hash!StepTo, Hash!NextOf
<1>1. /\ Distinct(v) /\ v \in Seq(Elts) /\ Linked(v, table.next)
      /\ Distinct(hbegun) /\ hmet \in Seq(Elts) /\ Len(hmet) \in Nat
      /\ Done \/ \E x, d : Going(v, x, d)
  BY <1>0 DEF HashWalking, TableIs, Listing, Distinct, Doubly
<1>2. CASE Done
  <2>1. hel' = NULL /\ hmet' = hmet /\ Starts(hmet, hbegun)
    BY <1>0, <1>2 DEF Done
  <2> QED BY <1>0, <1>1, <2>1 DEF HashWalking
<1>3. ASSUME NEW x, NEW d, Going(v, x, d) PROVE HashWalking(v)'
  <2>1. PICK m : m = Len(hmet)
    OBVIOUS
  <2>2. /\ Starts(x, hbegun) /\ Coming(v, x, m, d) /\ (\A j \in 1 .. m : hmet[j] = x[j])
        /\ htmp = x[m + 1] /\ m \in Nat
    BY <1>1, <1>3, <2>1 DEF Going
  <2>3. /\ x \in Seq(Elts) /\ Len(x) \in Nat /\ m < Len(x) /\ Len(hbegun) \in Nat
        /\ Len(hbegun) <= Len(x) /\ \A j \in 1 .. Len(hbegun) : x[j] = hbegun[j]
    BY <2>2 DEF Starts, Coming
  <2>4. htmp \in Elts /\ htmp # NULL
    <3>1. m + 1 \in 1 .. Len(x)
      BY <2>2, <2>3
    <3> QED BY <2>2, <2>3, <3>1 DEF StackAssumption
  <2>5. hel' = x[m + 1] /\ hmet' = Append(hmet, htmp) /\ htmp' = table.next[x[m + 1]]
    BY <1>0, <2>2, <2>4
  <2>6. PICK met1 : met1 = Append(hmet, htmp)
    OBVIOUS
  <2>7. /\ met1 \in Seq(Elts) /\ Len(met1) = m + 1 /\ met1[m + 1] = x[m + 1]
        /\ \A j \in 1 .. m : met1[j] = hmet[j]
    BY <1>1, <2>1, <2>2, <2>4, <2>6
  <2>8. \A j \in 1 .. m + 1 : met1[j] = x[j]
    BY <2>2, <2>7
  <2>9. /\ m + 1 = Len(x) => table.next[x[m + 1]] = NULL
        /\ m + 1 # Len(x) => /\ table.next[x[m + 1]] = x[m + 2] /\ x[m + 2] # x[m + 1]
                             /\ Coming(v, x, m + 1, d + 1)
    <3>1. PICK link, b : link = table.next /\ b = hbegun
      OBVIOUS
    <3>2. Linked(v, link) /\ Starts(x, b)
      BY <1>1, <2>2, <3>1
    <3>3. /\ m + 1 = Len(x) => link[x[m + 1]] = NULL
          /\ m + 1 # Len(x) => /\ link[x[m + 1]] = x[m + 2] /\ x[m + 2] # x[m + 1]
                               /\ Coming(v, x, m + 1, d + 1)
      BY <1>1, <2>2, <3>2, AheadSteps
    <3> QED BY <3>1, <3>3
  <2>10. Done' \/ \E d1 : Going(v, x, d1)'
    <3>1. CASE m + 1 = Len(x)
      <4>1. Starts(met1, hbegun)
        <5>1. \A j \in 1 .. Len(hbegun) : j \in 1 .. m + 1 /\ met1[j] = hbegun[j]
          BY <2>2, <2>3, <2>8, <3>1
        <5> QED BY <2>3, <2>7, <3>1, <5>1 DEF Starts
      <4> QED BY <1>0, <2>5, <2>6, <2>9, <3>1, <4>1 DEF Done
    <3>2. CASE m + 1 # Len(x)
      <4>1. htmp' = x[m + 1 + 1] /\ htmp' # hel'
        <5>1. m + 2 = m + 1 + 1
          BY <2>2
        <5> QED BY <2>5, <2>9, <3>2, <5>1
      <4>2. Len(hmet') = m + 1 /\ Coming(v, x, m + 1, d + 1)
        BY <2>5, <2>6, <2>7, <2>9, <3>2
      <4>3. Starts(x, hbegun') /\ \A j \in 1 .. m + 1 : hmet'[j] = x[j]
        BY <1>0, <2>2, <2>5, <2>6, <2>8
      <4>4. Going(v, x, d + 1)'
        BY <4>1, <4>2, <4>3 DEF Going
      <4> QED BY <4>4
    <3> QED BY <3>1, <3>2
  <2>11. /\ hmet' \in Seq(Elts) /\ Len(hmet') = m + 1 /\ m + 1 \in Nat /\ m + 1 # 0
         /\ hel' = hmet'[m + 1] /\ hel' # NULL
    BY <2>2, <2>4, <2>5, <2>6, <2>7
  <2> QED BY <1>0, <1>1, <2>10, <2>11 DEF HashWalking
<1> QED BY <1>1, <1>2, <1>3

LEMMA HashWalkNext ==
  ASSUME StackAssumption, ListAssumption, HashAssumption, HashWalkInv, [Hash!Next]_(Hash!vars)
  PROVE  HashWalkInv'
<1>1. PICK v : TableIs(table, v) /\ HashWalking(v)
  BY DEF HashWalkInv
<1>2. ASSUME NEW x, HashMoves(v, x) PROVE HashWalkInv'
  <2>1. HashWalking(x)' /\ TableIs(table', x)
    BY <1>1, <1>2, WalkSurvives DEF HashMoves
  <2> QED BY <2>1 DEF HashWalkInv
<1>3. ASSUME UNCHANGED table, HashWalking(v)' PROVE HashWalkInv'
  BY <1>1, <1>3 DEF HashWalkInv
<1>4. CASE UNCHANGED Hash!vars
  BY <1>1, <1>3, <1>4 DEF Hash!vars, HashWalking, Done, Going
<1>5. CASE Hash!StartWalk
  BY <1>1, <1>3, <1>5, IterStarts DEF Hash!StartWalk
<1>6. CASE Hash!StepWalk
  BY <1>1, <1>3, <1>6, IterGoesOn DEF Hash!StepWalk
<1>7. CASE Hash!EndWalk
  BY <1>1, <1>3, <1>7 DEF Hash!EndWalk, HashWalking
<1>8. CASE \E x : HashMoves(v, x)
  BY <1>2, <1>8
<1>9. ASSUME NEW e \in Elts, Hash!Add(e) \/ Hash!AddInorder(e) \/ Hash!Replace(e) \/ Hash!Delete(e)
      PROVE  \E x : HashMoves(v, x)
  BY <1>1, <1>9, HashAdd, HashAddInorder, HashReplace, HashDelete
<1>10. ASSUME Hash!Clear \/ Hash!Sort PROVE \E x : HashMoves(v, x)
  BY <1>1, <1>10, HashClears, HashSortsIt
<1> QED BY <1>4, <1>5, <1>6, <1>7, <1>8, <1>9, <1>10 DEF Hash!Next

\* HASH_ITER meets every element that was there when it began, in order and
\* once, whatever its body deletes and adds.
THEOREM HashWalksMeetAll == Hash!Spec => []Hash!WalkMeetsAll
<1> StackAssumption /\ ListAssumption /\ HashAssumption
  BY ContainersAssumption
<1>1. Hash!Init => HashWalkInv
  BY HashInit DEF HashWalkInv, HashWalking, Hash!Init
<1>2. HashWalkInv /\ [Hash!Next]_(Hash!vars) => HashWalkInv'
  BY HashWalkNext
<1>3. HashWalkInv => Hash!WalkMeetsAll
  BY WalkSeesPrefix
<1> QED BY <1>1, <1>2, <1>3, PTL DEF Hash!Spec

-----------------------------------------------------------------------------
(* All of the containers: what one of them promises, its client keeps *)

LEMMA ArrayWalksMeetAll == Array!Spec => []Array!WalksMirror
<1> ArrayAssumption /\ RingAssumption
  BY ContainersAssumption
<1>1. Array!Init => ArrayInv
  BY NoArrayIs DEF Array!Init, ArrayInv, ArrayAssumption
<1>2. ArrayInv /\ [Array!Next]_(Array!vars) => ArrayInv'
  BY ArrayNext
<1>3. ArrayInv => Array!WalksMirror
  BY ArrayWalks
<1> QED BY <1>1, <1>2, <1>3, PTL DEF Array!Spec

LEMMA RingWalksMeetAll == Ring!Spec => []Ring!WalksMirror
<1> RingAssumption
  BY ContainersAssumption
<1>1. RingInv => Ring!WalksMirror
  BY RingWalks
<1> QED BY <1>1, RingInvariant, PTL

\* A client of any one container is a client of each: it uses the others not at
\* all.  What is proved of each, a refinement too, holds of the client.
THEOREM EachContainerIsUsed ==
  Spec => /\ Array!Spec /\ Ring!Spec /\ Stack!Spec
          /\ String!Spec /\ List!Spec /\ Hash!Spec
<1>1. Init => /\ Array!Init /\ Ring!Init /\ Stack!Init
              /\ String!Init /\ List!Init /\ Hash!Init
  BY DEF Init
<1> DEFINE Step == [Next]_<<client, hashvars, listvars, arrayvars, ringvars, stackvars, stringvars>>
<1>2. Step => [Array!Next]_(Array!vars)
  BY DEF Next, arrayvars, Array!vars
<1>3. Step => [Ring!Next]_(Ring!vars)
  BY DEF Next, ringvars, Ring!vars
<1>4. Step => [Stack!Next]_(Stack!vars)
  BY DEF Next, stackvars, Stack!vars
<1>5. Step => [String!Next]_(String!vars)
  BY DEF Next, stringvars, String!vars
<1>6. Step => [List!Next]_(List!vars)
  BY DEF Next, listvars, List!vars, List!lists, List!walkvars
<1>7. Step => [Hash!Next]_(Hash!vars)
  BY DEF Next, hashvars, Hash!vars
<1> QED
  BY <1>1, <1>2, <1>3, <1>4, <1>5, <1>6, <1>7, PTL
  DEF Spec, Array!Spec, Ring!Spec, Stack!Spec, String!Spec, List!Spec, Hash!Spec

\* Whatever the client does between two steps of a walk, the walk meets each
\* element it is to meet once, in order, and ends: over a hash table, over each
\* kind of list, over an array and a ring in both directions.
THEOREM EveryWalkMeetsAll == Spec => []WalksMeetAll
<1>1. Hash!WalkMeetsAll /\ List!WalkMeetsAll /\ Array!WalksMirror /\ Ring!WalksMirror
        => WalksMeetAll
  BY DEF WalksMeetAll
<1> QED
  BY <1>1, EachContainerIsUsed, HashWalksMeetAll, ListWalksMeetAll, ArrayWalksMeetAll,
     RingWalksMeetAll, PTL

\* What the run checks of the containers on a small instance holds of each of
\* them for all the constants: the invariants, and that each implements what it
\* stands for.
THEOREM EveryContainerKeeps ==
  Spec => /\ []ArraySlotsExact /\ ArrayImplementsVector
          /\ []RingDestroyedOnce /\ RingRemembersLast
          /\ []StackLastInFirstOut
          /\ []StringTerminated /\ StringAppendsExactly /\ []StringFindsExactly
          /\ []ListKindsAgree /\ ListImplementsOrder
          /\ []HashWellFormed /\ HashImplementsMap
BY EachContainerIsUsed, SlotsAreExact, ArrayIsVector, RingIsDestroyedOnce, RingIsHistory,
   StacksAreLastInFirstOut, StringIsTerminated, StringAppends, StringSearchesFind,
   ListsAgree, ListsAreOrders, HashStaysSound, HashIsMap, PTL

=============================================================================
