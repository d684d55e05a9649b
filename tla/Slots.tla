-------------------------------- MODULE Slots --------------------------------
(***************************************************************************)
(* The slots of a UT_array or UT_ringbuffer whose elements own something,  *)
(* as those of ut_str_icd own a string: a slot holds an element's value or *)
(* is Raw, and the functions of the UT_icd turn the one into the other.    *)
(* Destroying a Raw slot frees twice, constructing over an element loses   *)
(* it: both leave the slot Bad.  An icd without init has memset, which     *)
(* makes the element Zero: a null string.                                  *)
(***************************************************************************)
CONSTANTS
  Values, Zero, Raw, Bad,
  NULL   \* points to no slot

Elements == Values \cup {Zero}
Slot == Elements \cup {Raw, Bad}

ASSUME SlotsAssumption ==
  /\ Raw \notin Elements /\ Bad \notin Elements /\ Raw # Bad
  /\ Zero \notin Values

icd_dtor(slot) == IF slot \in Elements THEN Raw ELSE Bad
icd_copy(slot, v) == IF slot = Raw THEN v ELSE Bad
icd_init(slot) == icd_copy(slot, Zero)
=============================================================================
