---------------------------- MODULE OrderedLists -----------------------------
(***************************************************************************)
(* What the list macros promise: each list is a sequence, and an element   *)
(* is in one of them at most.                                              *)
(***************************************************************************)
EXTENDS Integers, Sequences, FiniteSets, SequencesExt

CONSTANTS Elts, Heads, RankOf

VARIABLE order   \* of each list

\* e entered before, or after, the i-th element.
Enter(s, i, e) == SubSeq(s, 1, i - 1) \o <<e>> \o SubSeq(s, i, Len(s))

\* By rank, and by old position among equals.
Sorted(s) ==
  LET before(i, j) == RankOf[s[i]] < RankOf[s[j]] \/ (RankOf[s[i]] = RankOf[s[j]] /\ i < j)
      place(j) == 1 + Cardinality({ i \in DOMAIN s : before(i, j) })
  IN  [n \in DOMAIN s |-> s[CHOOSE j \in DOMAIN s : place(j) = n]]

Init == order = [h \in Heads |-> <<>>]

Insert ==
  \E h \in Heads, e \in Elts : \E i \in 1 .. Len(order[h]) + 1 :
    /\ \A g \in Heads : e \notin ToSet(order[g])
    /\ order' = [order EXCEPT ![h] = Enter(@, i, e)]

Replace ==
  \E h \in Heads, e \in Elts : \E i \in DOMAIN order[h] :
    /\ \A g \in Heads : e \notin ToSet(order[g])
    /\ order' = [order EXCEPT ![h] = [@ EXCEPT ![i] = e]]

Delete == \E h \in Heads : \E i \in DOMAIN order[h] :
            order' = [order EXCEPT ![h] = RemoveAt(@, i)]

Concat == \E h, g \in Heads :
            /\ h # g
            /\ order' = [order EXCEPT ![h] = @ \o order[g], ![g] = <<>>]

Sort == \E h \in Heads : order' = [order EXCEPT ![h] = Sorted(@)]

Next == Insert \/ Replace \/ Delete \/ Concat \/ Sort
Spec == Init /\ [][Next]_order
=============================================================================
