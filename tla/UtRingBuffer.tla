---------------------------- MODULE UtRingBuffer -----------------------------
(***************************************************************************)
(* The macros of utringbuffer.h on one ring of n slots.  The struct's      *)
(* fields keep their names.  The client gives a ring at least one slot,    *)
(* as every use of it supposes, and pushes nothing it already holds.       *)
(***************************************************************************)
EXTENDS Slots, Integers, Sequences

CONSTANT MaxSlots   \* bound of the model: the largest ring

VARIABLES
  i,   \* index of next available slot; wraps at n
  n,   \* capacity; 0 when the ring is not initialised
  f,   \* full
  d    \* n slots

vars == <<i, n, f, d>>

TypeOK ==
  /\ n \in 0 .. MaxSlots
  /\ i \in 0 .. MaxSlots
  /\ f \in BOOLEAN
  /\ d \in [0 .. n - 1 -> Slot]

Init == i = 0 /\ n = 0 /\ f = FALSE /\ d = [j \in 0 .. n - 1 |-> Raw]

-----------------------------------------------------------------------------
(* Reading *)

utringbuffer_len == IF f THEN n ELSE i
utringbuffer_empty == i = 0 /\ ~ f
utringbuffer_full == f

_utringbuffer_real_idx_NoWrap(j) == j
_utringbuffer_real_idx(j) == IF f THEN (j + i) % n ELSE j
_utringbuffer_fake_idx_Forward(j) == IF f THEN (j + i) % n ELSE j
_utringbuffer_fake_idx(j) == IF f THEN (j + n - i) % n ELSE j

\* A pointer to an element is the index of its slot.
utringbuffer_eltptr(j) ==
  IF j \in 0 .. utringbuffer_len - 1 THEN _utringbuffer_real_idx(j) ELSE NULL

utringbuffer_front == utringbuffer_eltptr(0)
utringbuffer_back == IF utringbuffer_empty THEN NULL ELSE utringbuffer_eltptr(utringbuffer_len - 1)

utringbuffer_next(e) ==
  IF e = NULL THEN utringbuffer_front ELSE utringbuffer_eltptr(_utringbuffer_fake_idx(e) + 1)
utringbuffer_prev(e) ==
  IF e = NULL THEN utringbuffer_back ELSE utringbuffer_eltptr(_utringbuffer_fake_idx(e) - 1)

-----------------------------------------------------------------------------
(* Changing *)

utringbuffer_init(m) ==
  /\ n = 0
  /\ i' = 0 /\ f' = FALSE /\ n' = m
  /\ d' = [j \in 0 .. m - 1 |-> Raw]

\* Every slot is destroyed if the ring is full, those before i if it is not.
Cleared_UpToI == [j \in 0 .. n - 1 |-> IF j < i THEN icd_dtor(d[j]) ELSE d[j]]
Cleared == [j \in 0 .. n - 1 |-> IF f \/ j < i THEN icd_dtor(d[j]) ELSE d[j]]

utringbuffer_clear ==
  /\ i' = 0 /\ f' = FALSE
  /\ d' = Cleared
  /\ UNCHANGED n

\* Cleared, then freed.
utringbuffer_done ==
  /\ i' = 0 /\ f' = FALSE /\ n' = 0
  /\ d' = [j \in 0 .. -1 |-> Raw]

NextSlot == IF i + 1 = n THEN 0 ELSE i + 1

\* The oldest element is destroyed before its slot takes the new one.
utringbuffer_push_back(p) ==
  /\ n > 0
  /\ d' = [d EXCEPT ![i] = icd_copy(IF f THEN icd_dtor(@) ELSE @, p)]
  /\ i' = NextSlot
  /\ f' = (f \/ i + 1 = n)
  /\ UNCHANGED n

Next ==
  \/ \E m \in 1 .. MaxSlots : utringbuffer_init(m)
  \/ \E p \in Values : utringbuffer_push_back(p)
  \/ utringbuffer_clear \/ utringbuffer_done

Spec == Init /\ [][Next]_vars

-----------------------------------------------------------------------------
(* Properties *)

\* An element is destroyed exactly once: the slots in use hold elements, the
\* others are raw.
DestroyedOnce ==
  \A j \in 0 .. n - 1 : IF f \/ j < i THEN d[j] \in Elements ELSE d[j] = Raw

\* What a reader finds at 0, 1, ... is the last n values pushed, oldest first.
Items == [k \in 1 .. utringbuffer_len |-> d[_utringbuffer_real_idx(k - 1)]]
History == INSTANCE BoundedHistory WITH items <- Items
RemembersLast == History!Spec

\* next(NULL), next, ... meets every element once, front to back, and ends;
\* prev meets the same ones from the back.
WalksMirror ==
  LET forth[k \in 0 .. MaxSlots + 1] == IF k = 0 THEN NULL ELSE utringbuffer_next(forth[k - 1])
      back[k \in 0 .. MaxSlots + 1] == IF k = 0 THEN NULL ELSE utringbuffer_prev(back[k - 1])
      len == utringbuffer_len
  IN  /\ forth[len + 1] = NULL /\ back[len + 1] = NULL
      /\ { forth[k] : k \in 1 .. len } = { j \in 0 .. n - 1 : f \/ j < i }
      /\ \A k \in 1 .. len : /\ forth[k] = back[len + 1 - k]
                             /\ d[forth[k]] = Items[k]
=============================================================================
