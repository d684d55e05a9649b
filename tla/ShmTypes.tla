------------------------------ MODULE ShmTypes ------------------------------
(***************************************************************************)
(* The data shmlib works on: threads, accesses to the shared structure,    *)
(* the overlap and race tests, and the text keys under which a pair of     *)
(* racing accesses is recorded.                                            *)
(*                                                                         *)
(* A thread is its 1-based index: shm_op increments the caller's thd_idx,  *)
(* so that 0 means "no thread" in every table.  An access is what the      *)
(* SHM_OP macro passes to shm_op: the direction, the byte range of one     *)
(* member of sSHM, the caller's buffer size and the call site (info).      *)
(***************************************************************************)
EXTENDS Integers

CONSTANTS
  NumThreads,   \* threads that call shm_op
  Sites,        \* call sites, the info strings get_info_str builds
  NoSite,       \* the empty info string of a zeroed record
  SHM_SIZE,     \* sizeof(sSHM)
  Ops           \* the accesses the callers make

SHM_READ  == 0
SHM_WRITE == 1
RW == {SHM_READ, SHM_WRITE}

TRAP_TYPE_NONE == 0
TRAP_TYPE_READ == 1
TRAP_TYPE_WRITE == 2
TrapTypes == {TRAP_TYPE_NONE, TRAP_TYPE_READ, TRAP_TYPE_WRITE}

Threads == 1..NumThreads
NoThread == 0

\* The accesses SHM_OP can build stay inside sSHM (offsetof and sizeof of one
\* member); a direct caller of shm_op may also pass a zero size.
OpType == [rw: RW, offset: Nat, size: Nat, bufsize: Nat, info: Sites]

ASSUME ShmTypesAssumption ==
  /\ NumThreads \in Nat \ {0}
  /\ NoSite \notin Sites
  /\ SHM_SIZE \in Nat
  /\ Ops \subseteq OpType
  /\ \A o \in Ops : o.offset + o.size <= SHM_SIZE

\* shm_op rejects a zero size; a null buffer is a zero buffer here.
IsValid(o) == o.bufsize # 0 /\ o.size # 0

LowOffset(o) == o.offset
HighOffset(o) == o.offset + o.size - 1

SmallerOf(a, b) == IF a < b THEN a ELSE b

-----------------------------------------------------------------------------
(* Overlap: isWithinTrapOffset and isWithinNMOffset are the same test. *)

isWithinOffset_Exclusive(e, offset, size) ==
  ~ (offset >= e.hi \/ offset + (size - 1) < e.lo)

isWithinOffset(e, offset, size) ==
  ~ (offset > e.hi \/ offset + (size - 1) < e.lo)

\* Reference definition of the overlap: some byte lies in both ranges.
ShareAByte(e, offset, size) ==
  (e.lo .. e.hi) \cap (offset .. offset + size - 1) # {}

-----------------------------------------------------------------------------
(* The race between an access made earlier (or held open by a trap) with    *)
(* direction held and a later access with direction rw.                     *)

RaceKinds == {"WAR", "RAW", "WAW"}
NoRace == "none"

RaceViolation(held, rw) ==
  CASE held = SHM_READ  /\ rw = SHM_WRITE -> "WAR"
    [] held = SHM_WRITE /\ rw = SHM_READ  -> "RAW"
    [] held = SHM_WRITE /\ rw = SHM_WRITE -> "WAW"
    [] OTHER -> NoRace

\* Access o of thread t races with the recorded access e (a trap or a log
\* entry) whose direction field reads as held.
Races(t, o, e, held) ==
  /\ e.thread # NoThread
  /\ e.thread # t
  /\ isWithinOffset(e, o.offset, o.size)
  /\ RaceViolation(held, o.rw) # NoRace

\* msg_key: "[t]: info KIND [u]: info2".
Key == [by: Threads, site: Sites, kind: RaceKinds,
        with: Threads, held: Sites \cup {NoSite}]

MsgKey(t, o, e, held) ==
  [by |-> t, site |-> o.info, kind |-> RaceViolation(held, o.rw),
   with |-> e.thread, held |-> e.info]

=============================================================================
