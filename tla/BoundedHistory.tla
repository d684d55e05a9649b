--------------------------- MODULE BoundedHistory ----------------------------
(***************************************************************************)
(* What a ring buffer promises: it remembers the last n values pushed.     *)
(***************************************************************************)
EXTENDS Integers, Sequences

CONSTANTS Values, MaxSlots

VARIABLES n, items

Init == n = 0 /\ items = <<>>

Push(v) ==
  /\ n > 0
  /\ items' = IF Len(items) < n THEN Append(items, v) ELSE Append(Tail(items), v)
  /\ UNCHANGED n

Clear == items' = <<>> /\ UNCHANGED n
Resize == n' \in 0 .. MaxSlots /\ items' = <<>>

Next == (\E v \in Values : Push(v)) \/ Clear \/ Resize
Spec == Init /\ [][Next]_<<n, items>>
=============================================================================
