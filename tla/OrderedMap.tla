----------------------------- MODULE OrderedMap ------------------------------
(***************************************************************************)
(* What a uthash table promises: a map from keys to elements that also     *)
(* remembers an order, that of insertion until the client sorts it or adds *)
(* in order.                                                               *)
(***************************************************************************)
EXTENDS Integers, Sequences, FiniteSets, SequencesExt

CONSTANTS Elts, KeyOf, RankOf

VARIABLE order

Without(s, key) ==
  LET with == { i \in DOMAIN s : KeyOf[s[i]] = key }
  IN  IF with = {} THEN s ELSE RemoveAt(s, CHOOSE i \in with : TRUE)
HasKey(key) == \E i \in DOMAIN order : KeyOf[order[i]] = key

\* e before the first element of s of a greater rank.
Inserted(s, e) ==
  LET greater == { i \in DOMAIN s : RankOf[s[i]] > RankOf[e] }
      at == IF greater = {} THEN Len(s) + 1
            ELSE CHOOSE i \in greater : \A j \in greater : i <= j
  IN  InsertAt(s, at, e)

\* By rank, and by old position among equals.
Sorted(s) ==
  LET before(i, j) == RankOf[s[i]] < RankOf[s[j]] \/ (RankOf[s[i]] = RankOf[s[j]] /\ i < j)
      place(j) == 1 + Cardinality({ i \in DOMAIN s : before(i, j) })
  IN  [n \in DOMAIN s |-> s[CHOOSE j \in DOMAIN s : place(j) = n]]

Init == order = <<>>

\* A key that is there is replaced, and loses its place.
Add == \E e \in Elts \ ToSet(order) : order' = Append(Without(order, KeyOf[e]), e)
AddInOrder == \E e \in Elts \ ToSet(order) : order' = Inserted(Without(order, KeyOf[e]), e)
Delete == \E key \in { KeyOf[e] : e \in Elts } : HasKey(key) /\ order' = Without(order, key)
Clear == order' = <<>>
Sort == order' = Sorted(order)

Next == Add \/ AddInOrder \/ Delete \/ Clear \/ Sort
Spec == Init /\ [][Next]_order
=============================================================================
