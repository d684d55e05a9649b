----------------------------- MODULE AtomicStore -----------------------------
(***************************************************************************)
(* What the _safe routines of shm_racer promise together: each is one      *)
(* indivisible update of the shared structure, however often the program   *)
(* cancels threads half way.                                               *)
(***************************************************************************)
EXTENDS Integers

CONSTANT Increments   \* what one setValue adds to cnt_x

VARIABLE store

\* Bit 0x20, the one readModifyWrite sets.
SetBit(v) == IF (v \div 32) % 2 = 1 THEN v ELSE v + 32

Init == store = [m \in {"cnt_x", "a", "num_parcels"} |-> 0]

Next ==
  \/ store' = [store EXCEPT !.cnt_x = @ + Increments]
  \/ store' = [store EXCEPT !.a = SetBit(@)]

Spec == Init /\ [][Next]_store
=============================================================================
