----------------------------- MODULE TrapTable ------------------------------
(***************************************************************************)
(* shm_trapper: MAX_SHM_TRAPS slots.  A thread that has just made its      *)
(* access leaves a trap in the first free slot and sleeps; an access of    *)
(* another thread that runs into the trap is a race caught in the act.     *)
(* A slot is free when its thread_idx is 0.                                *)
(***************************************************************************)
EXTENDS ShmTypes

CONSTANT MAX_SHM_TRAPS

VARIABLE traps   \* shm_trapper.thread_trap_info

ASSUME TrapTableAssumption == MAX_SHM_TRAPS \in Nat \ {0}

Slots == 0 .. MAX_SHM_TRAPS - 1

Trap == [thread: Threads \cup {NoThread}, type: TrapTypes,
         lo: Int, hi: Int, info: Sites \cup {NoSite}]

ZeroTrap == [thread |-> NoThread, type |-> TRAP_TYPE_NONE,
             lo |-> 0, hi |-> 0, info |-> NoSite]

TrapTypeOK == traps \in [Slots -> Trap]

TrapInit == traps = [i \in Slots |-> ZeroTrap]

IsFree(i) == traps[i].thread = NoThread

\* The direction of the access a trap stands for (trap_type is readWrite + 1).
HeldDirection(trap) == trap.type - 1

TrapOf(t, o) ==
  [thread |-> t, type |-> o.rw + 1, lo |-> LowOffset(o), hi |-> HighOffset(o),
   info |-> o.info]

-----------------------------------------------------------------------------
\* The keys find_trap_violations hands to trap_violation_logger, one for each
\* trap of another thread that access o of thread t runs into.
find_trap_violations(t, o) ==
  { MsgKey(t, o, traps[i], HeldDirection(traps[i])) :
      i \in { j \in Slots : Races(t, o, traps[j], HeldDirection(traps[j])) } }

FreeSlots == { i \in Slots : IsFree(i) }

\* set_trap up to the delay: the first free slot takes the trap.
place_trap(t, o) ==
  \E i \in FreeSlots :
    /\ \A j \in FreeSlots : i <= j
    /\ traps' = [traps EXCEPT ![i] = TrapOf(t, o)]

clear_traps_Lost(t) == UNCHANGED traps

clear_traps(t) ==
  traps' = [i \in Slots |-> IF traps[i].thread = t THEN ZeroTrap ELSE traps[i]]

clearall_traps == traps' = [i \in Slots |-> ZeroTrap]

=============================================================================
