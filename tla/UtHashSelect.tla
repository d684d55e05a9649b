----------------------------- MODULE UtHashSelect -----------------------------
(***************************************************************************)
(* A client of HASH_SELECT: elements with two handles, a table src of all  *)
(* of them, and a table dst into which some are selected.                  *)
(***************************************************************************)
EXTENDS UtHash

VARIABLES src, dst

vars == <<src, dst>>

Init == src = NoTable /\ dst = NoTable

Listed(t, e) == HASH_FIND(t, KeyOf[e]) # NULL

AddSrc(e) == ~ Listed(src, e) /\ src' = HASH_ADD(src, e) /\ UNCHANGED dst
AddDst(e) == ~ Listed(dst, e) /\ dst' = HASH_ADD(dst, e) /\ UNCHANGED src

DeleteSrc(e) == Listed(src, e) /\ src' = Freed(HASH_DELETE(src, e), {e}) /\ UNCHANGED dst
DeleteDst(e) == Listed(dst, e) /\ dst' = Freed(HASH_DELETE(dst, e), {e}) /\ UNCHANGED src

\* Into an empty table.
Select(S) ==
  /\ dst.head = NULL
  /\ dst' = HASH_SELECT(dst, src, S)
  /\ UNCHANGED src

SortDst == dst' = HASH_SRT(dst) /\ UNCHANGED src

Next ==
  \/ \E e \in Elts : AddSrc(e) \/ DeleteSrc(e) \/ AddDst(e) \/ DeleteDst(e)
  \/ \E S \in SUBSET Elts : Select(S)
  \/ SortDst

Spec == Init /\ [][Next]_vars

-----------------------------------------------------------------------------
(* Properties *)

\* HASH_FSCK closes HASH_SELECT and HASH_ADD alike: both keep every count and
\* every link of the destination.
SelectionChecked == HASH_FSCK(dst)

=============================================================================
