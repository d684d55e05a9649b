------------------------------- MODULE Vectors -------------------------------
(***************************************************************************)
(* What a dynamic array promises: a sequence of its own copies of what was *)
(* put in, as long as the client likes.                                    *)
(***************************************************************************)
EXTENDS Integers, Sequences, FiniteSets

CONSTANTS Values, Zero, MaxLen

VARIABLES items, from   \* the array, and another that is put into it

Zeros(k) == [j \in 1 .. k |-> Zero]

\* w entered at j, after as many zeros as that needs.
Enter(s, w, j) == LET padded == s \o Zeros(j - Len(s))
                  IN  SubSeq(padded, 1, j) \o w \o SubSeq(padded, j + 1, Len(padded))

Init == items = <<>> /\ from = <<>>

Put == \E v \in Values \cup {Zero}, j \in 0 .. MaxLen : items' = Enter(items, <<v>>, j)
PutAll == \E j \in 0 .. MaxLen : from # <<>> /\ items' = Enter(items, from, j)
Double == items' = items \o items
Remove == \E lo \in 1 .. Len(items), k \in 1 .. MaxLen :
            /\ lo + k - 1 <= Len(items)
            /\ items' = SubSeq(items, 1, lo - 1) \o SubSeq(items, lo + k, Len(items))
Resize == \E num \in 0 .. MaxLen : items' = SubSeq(items \o Zeros(num - Len(items)), 1, num)

\* The same values, as often, in order.
Sort ==
  LET Where(s, v) == { k \in DOMAIN s : s[k] = v }
  IN  /\ \A v \in Values \cup {Zero} : Cardinality(Where(items', v)) = Cardinality(Where(items, v))
      /\ Len(items') = Len(items)
      /\ \A j, k \in DOMAIN items' : j < k => items'[j] <= items'[k]

Next ==
  \/ (Put \/ PutAll \/ Double \/ Remove \/ Resize \/ Sort) /\ UNCHANGED from
  \/ from' \in Seq(Values) /\ UNCHANGED items
Spec == Init /\ [][Next]_<<items, from>>
=============================================================================
