------------------------------- MODULE ShmLib -------------------------------
(***************************************************************************)
(* shm_op, called by NumThreads threads at once, over the access log, the  *)
(* trap table and the hazard tables.                                       *)
(*                                                                         *)
(* A call runs its checks, its log entry, its memory copy and its trap     *)
(* under shm_mutex, sleeps without it, and takes it again to clear its     *)
(* trap.  Each call of shm_op's body is an action; the two loops whose     *)
(* rounds read the clock or change a record (find_near_misses and the      *)
(* average in set_trap) take one action a round.  Locking is folded into   *)
(* the first action of a critical section, unlocking into the last.        *)
(*                                                                         *)
(* The clients are threads that make up to MaxCalls calls per round, and   *)
(* a main thread that resets the library between rounds once every thread  *)
(* is done, which is what shm_racer intends; what it really does after a   *)
(* timeout is the subject of ShmRacer.                                     *)
(***************************************************************************)
EXTENDS AccessLog, TrapTable, HazardTables

CONSTANTS
  DEFAULT_DELAY,  \* delay of a trap no near miss asks for
  CYCLE_COUNT,    \* rounds of a thread set
  MaxCalls,       \* bound of the model: calls a thread makes in one round
  Values          \* contents of a byte

ASSUME ShmLibAssumption ==
  /\ DEFAULT_DELAY \in Nat
  /\ CYCLE_COUNT \in Nat \ {0}
  /\ MaxCalls \in Nat
  /\ Values # {}

VARIABLES
  mutex,   \* holder of shm_mutex
  pc,      \* where each thread is in shm_op
  op,      \* the arguments of its call
  frame,   \* its loop variables: shm_scan_idx; avg_delay, then sleep_time;
           \* nm_count; the hazards HASH_ITER has still to visit
  buf,     \* the caller's buffer
  mem,     \* shm_master, byte by byte
  calls,   \* calls made in this round
  round    \* try_idx + 1

vars == <<clock, shm_access_log, idx, traps, logged, nm,
          mutex, pc, op, frame, buf, mem, calls, round>>

hazardvars == <<logged, nm>>
clientvars == <<calls, round>>

PCs == {"idle", "enter", "flush", "near", "log", "trap", "delay",
        "sleep", "leave"}

\* Inside the first critical section, the lock held.
Critical == {"flush", "near", "log", "trap", "delay"}

\* The trap is set and not yet cleared.
Parked == {"delay", "sleep", "leave"}

\* From the check against the traps to the clearing of one's own.
Window == Critical \cup Parked

NoOp == [rw |-> SHM_READ, offset |-> 0, size |-> 0, bufsize |-> 0,
         info |-> NoSite]
NoFrame == [scan |-> 0, mean |-> 0, hits |-> 0, todo |-> {}]
NoBuffer == [b \in {} |-> 0]
BufferFor(o) == [0 .. o.bufsize - 1 -> Values]

Frame == [scan: Nat, mean: Nat, hits: Nat, todo: SUBSET Key]

TypeOK ==
  /\ LogTypeOK /\ TrapTypeOK /\ HazardTypeOK
  /\ mutex \in Threads \cup {NoThread}
  /\ pc \in [Threads -> PCs]
  /\ op \in [Threads -> Ops \cup {NoOp}]
  /\ \A t \in Threads : pc[t] # "idle" =>
       op[t] \in Ops /\ IsValid(op[t]) /\ calls[t] < MaxCalls
  /\ frame \in [Threads -> Frame]
  /\ \A t \in Threads : frame[t].todo \subseteq DOMAIN nm
  /\ buf \in [Threads -> UNION { BufferFor(o) : o \in Ops \cup {NoOp} }]
  /\ \A t \in Threads : buf[t] \in BufferFor(op[t])
  /\ mem \in [0 .. SHM_SIZE - 1 -> Values]
  /\ calls \in [Threads -> 0 .. MaxCalls]
  /\ round \in 1 .. CYCLE_COUNT

Init ==
  /\ LogInit /\ TrapInit /\ HazardInit
  /\ mutex = NoThread
  /\ pc = [t \in Threads |-> "idle"]
  /\ op = [t \in Threads |-> NoOp]
  /\ frame = [t \in Threads |-> NoFrame]
  /\ buf = [t \in Threads |-> NoBuffer]
  /\ \E v \in Values : mem = [b \in 0 .. SHM_SIZE - 1 |-> v]
  /\ calls = [t \in Threads |-> 0]
  /\ round = 1

Goto(t, label) == pc' = [pc EXCEPT ![t] = label]

Lock_Barging(t) == mutex' = t
Lock(t) == mutex = NoThread /\ mutex' = t

Unlock_Forgotten(t) == UNCHANGED mutex
Unlock(t) == mutex' = NoThread

-----------------------------------------------------------------------------
\* A call with a null or empty buffer or a zero size returns SHM_RC_FAIL
\* before it touches anything.
Call(t) ==
  /\ pc[t] = "idle"
  /\ calls[t] < MaxCalls
  /\ \E o \in Ops :
       \/ /\ IsValid(o)
          /\ op' = [op EXCEPT ![t] = o]
          /\ \E data \in BufferFor(o) :
               buf' = [buf EXCEPT ![t] = data]
          /\ Goto(t, "enter")
          /\ UNCHANGED calls
       \/ /\ ~ IsValid(o)
          /\ calls' = [calls EXCEPT ![t] = @ + 1]
          /\ UNCHANGED <<op, buf, pc>>
  /\ UNCHANGED <<clock, logvars, traps, hazardvars, mutex, frame, mem, round>>

\* pthread_mutex_lock, find_trap_violations
FindTrapViolations(t) ==
  /\ pc[t] = "enter"
  /\ Lock(t)
  /\ trap_violation_logger(find_trap_violations(t, op[t]))
  /\ Goto(t, "flush")
  /\ UNCHANGED <<clock, logvars, traps, op, frame, buf, mem, clientvars>>

FlushAccessLog(t) ==
  /\ pc[t] = "flush"
  /\ flush_access_log
  /\ Goto(t, "near")
  /\ UNCHANGED <<clock, traps, hazardvars, mutex, op, frame, buf, mem,
                 clientvars>>

\* What find_near_misses reads at index i.  Its loop runs to idx inclusive: at
\* idx there is no access of the log but whatever an earlier one left there,
\* and when the log is full idx lies outside the array.  In the build the next
\* object in memory is shm_trapper, and the fields of its first trap sit at
\* the offsets of an entry's: trap_type is read as rw, the padding after it as
\* an empty info, and the times as 0.
ScannedEntry(i) ==
  IF i < MAX_ACCESS_LOG_ENTRIES
  THEN shm_access_log[i]
  ELSE [thread |-> traps[0].thread, rw |-> traps[0].type,
        lo |-> traps[0].lo, hi |-> traps[0].hi, info |-> NoSite, time |-> 0]

\* One round of find_near_misses, or its end.
FindNearMisses(t) ==
  /\ pc[t] = "near"
  /\ LET i == frame[t].scan
         e == ScannedEntry(i)
     IN \/ /\ i > idx
           /\ frame' = [frame EXCEPT ![t].scan = 0]
           /\ Goto(t, "log")
           /\ UNCHANGED nm
        \/ /\ i <= idx
           /\ frame' = [frame EXCEPT ![t].scan = i + 1]
           /\ IF Races(t, op[t], e, e.rw)
              THEN nm_violation_logger(MsgKey(t, op[t], e, e.rw), Age(e))
              ELSE UNCHANGED nm
           /\ UNCHANGED pc
  /\ UNCHANGED <<clock, logvars, traps, logged, mutex, op, buf, mem,
                 clientvars>>

\* The copy of shm_op, MIN(size, buf_size) bytes in the access's direction.
CopyData(t) ==
  LET o == op[t]
      n == SmallerOf(o.size, o.bufsize)
  IN \/ /\ o.rw = SHM_READ
        /\ buf' = [buf EXCEPT ![t] =
                     [b \in 0 .. o.bufsize - 1 |->
                        IF b < n THEN mem[o.offset + b] ELSE @[b]]]
        /\ UNCHANGED mem
     \/ /\ o.rw = SHM_WRITE
        /\ mem' = [b \in 0 .. SHM_SIZE - 1 |->
                     IF b \in o.offset .. o.offset + n - 1
                     THEN buf[t][b - o.offset] ELSE mem[b]]
        /\ UNCHANGED buf

LogAndCopy(t) ==
  /\ pc[t] = "log"
  /\ log_access(t, op[t])
  /\ CopyData(t)
  /\ Goto(t, "trap")
  /\ UNCHANGED <<clock, traps, hazardvars, mutex, op, frame, clientvars>>

\* set_trap up to its loop; with no free slot it returns 0 and shm_op unlocks.
SetTrap(t) ==
  /\ pc[t] = "trap"
  /\ \/ /\ place_trap(t, op[t])
        /\ frame' = [frame EXCEPT ![t].todo = NearMissesAt(t, op[t])]
        /\ Goto(t, "delay")
        /\ UNCHANGED mutex
     \/ /\ FreeSlots = {}
        /\ Unlock(t)
        /\ Goto(t, "leave")
        /\ UNCHANGED <<traps, frame>>
  /\ UNCHANGED <<clock, logvars, hazardvars, op, buf, mem, clientvars>>

\* One round of set_trap's HASH_ITER: a near miss at this site adds its decayed
\* delay to the mean and decays further.
AverageDelay(t) ==
  /\ pc[t] = "delay"
  /\ \E k \in frame[t].todo :
       /\ frame' = [frame EXCEPT
            ![t] = [scan |-> @.scan,
                    mean |-> MeanStep(@.mean, DecayedDelay(k), @.hits),
                    hits |-> @.hits + 1,
                    todo |-> @.todo \ {k}]]
       /\ decay(k)
  /\ UNCHANGED <<clock, logvars, traps, logged, mutex, pc, op, buf, mem,
                 clientvars>>

\* set_trap returns, shm_op unlocks and sleeps if there is a delay.
ReleaseAndSleep(t) ==
  /\ pc[t] = "delay"
  /\ frame[t].todo = {}
  /\ LET sleep_time == IF frame[t].hits > 0 THEN frame[t].mean
                                            ELSE DEFAULT_DELAY
     IN /\ frame' = [frame EXCEPT ![t].mean = sleep_time]
        /\ Goto(t, IF sleep_time # 0 THEN "sleep" ELSE "leave")
  /\ Unlock(t)
  /\ UNCHANGED <<clock, logvars, traps, hazardvars, op, buf, mem, clientvars>>

\* usleep ends.  When it does is up to the scheduler.
Wake(t) ==
  /\ pc[t] = "sleep"
  /\ Goto(t, "leave")
  /\ UNCHANGED <<clock, logvars, traps, hazardvars, mutex, op, frame, buf, mem,
                 clientvars>>

\* The second critical section, and the return of SHM_RC_OK.
ClearTraps(t) ==
  /\ pc[t] = "leave"
  /\ mutex = NoThread
  /\ clear_traps(t)
  /\ Goto(t, "idle")
  /\ op' = [op EXCEPT ![t] = NoOp]
  /\ frame' = [frame EXCEPT ![t] = NoFrame]
  /\ buf' = [buf EXCEPT ![t] = NoBuffer]
  /\ calls' = [calls EXCEPT ![t] = @ + 1]
  /\ UNCHANGED <<clock, logvars, hazardvars, mutex, mem, round>>

-----------------------------------------------------------------------------
(* The clients between rounds. *)

Quiescent == \A t \in Threads : pc[t] = "idle"

\* The next round of the same thread set: spawn_thread_set's resets.
NextRound ==
  /\ Quiescent
  /\ round < CYCLE_COUNT
  /\ round' = round + 1
  /\ clearall_traps
  /\ reset_nm_decays
  /\ calls' = [t \in Threads |-> 0]
  /\ UNCHANGED <<clock, logvars, logged, mutex, pc, op, frame, buf, mem>>

\* The first round of the next thread set: main resets everything else too.
NextSet ==
  /\ Quiescent
  /\ round = CYCLE_COUNT
  /\ round' = 1
  /\ clearall_loghashes
  /\ reset_access_log
  /\ clearall_traps
  /\ calls' = [t \in Threads |-> 0]
  /\ UNCHANGED <<clock, mutex, pc, op, frame, buf, mem>>

PassTime ==
  /\ Tick
  /\ UNCHANGED <<logvars, traps, hazardvars, mutex, pc, op, frame, buf, mem,
                 clientvars>>

\* A thread inside shm_op moves on.
ShmOpStep(t) ==
  \/ FindTrapViolations(t)
  \/ FlushAccessLog(t)
  \/ FindNearMisses(t)
  \/ LogAndCopy(t)
  \/ SetTrap(t)
  \/ AverageDelay(t)
  \/ ReleaseAndSleep(t)
  \/ Wake(t)
  \/ ClearTraps(t)

Next ==
  \/ \E t \in Threads : Call(t)
  \/ \E t \in Threads : ShmOpStep(t)
  \/ NextRound
  \/ NextSet
  \/ PassTime

Spec == Init /\ [][Next]_vars

\* A thread inside the library keeps running: the scheduler does not abandon
\* it, and a sleep ends.  Callers are not obliged to call.
FairSpec == Spec /\ \A t \in Threads : WF_vars(ShmOpStep(t))

-----------------------------------------------------------------------------
(* Properties *)

IsParked(t) == pc[t] \in Parked
InWindow(t) == pc[t] \in Window

\* The open access of u is one that access op[t] races with.
Conflict(t, u) == Races(t, op[t], TrapOf(u, op[u]), op[u].rw)
ConflictKey(t, u) == MsgKey(t, op[t], TrapOf(u, op[u]), op[u].rw)

\* No trap outlives the call that set it or stands for anything but that
\* call's access, and no call has two: clear_traps undoes exactly set_trap.
TrapsAreLive ==
  /\ \A i \in Slots : traps[i].thread # NoThread =>
       LET t == traps[i].thread IN IsParked(t) /\ traps[i] = TrapOf(t, op[t])
  /\ \A i, j \in Slots : traps[i].thread = traps[j].thread /\ i # j =>
       traps[i].thread = NoThread

\* Completeness of the detector: two threads that both hold a conflicting
\* access open have had the race reported by the later of them.  This is what
\* find_trap_violations before set_trap under one lock is for.
ConcurrentConflictsReported ==
  \A t, u \in Threads :
    IsParked(t) /\ IsParked(u) /\ Conflict(t, u)
      => \/ ConflictKey(t, u) \in logged
         \/ ConflictKey(u, t) \in logged

\* Soundness of the detector: a race is only reported against a thread that is
\* inside shm_op with that very access, on a common byte, one side writing.
ReportsAreRealRaces ==
  [][\A k \in logged' \ logged :
       /\ IsParked(k.with) /\ op[k.with].info = k.held
       /\ op[k.by].info = k.site
       /\ k.by # k.with
       /\ SHM_WRITE \in {op[k.by].rw, op[k.with].rw}
       /\ ShareAByte(TrapOf(k.with, op[k.with]),
                     op[k.by].offset, op[k.by].size)]_vars

\* "if they have then they don't register them as near misses": a race that a
\* trap has caught is in the near-miss table neither then nor later.
ReportedIsNoNearMiss == logged \cap DOMAIN nm = {}

\* The entries below the index are in the order of their times, which is why
\* the flush may stop at the first stale one it meets from above.
LogChronological ==
  \A i, j \in 0 .. idx - 1 :
    i <= j => /\ shm_access_log[i].time <= shm_access_log[j].time
              /\ shm_access_log[j].time <= clock

\* The delay of a trap is a mean of what was observed, never beyond the longest
\* near miss at this site: the running mean neither overshoots nor adds up.
DelayWithinNearMisses ==
  \A t \in Threads :
    pc[t] = "delay" /\ frame[t].hits > 0 =>
      \E k \in NearMissesAt(t, op[t]) : frame[t].mean <= nm[k].avg

\* shmlib implements the race monitor: an access is open from the check
\* against the traps to the clearing of its own, when every thread finds a slot.
Monitor == INSTANCE RaceMonitor WITH
  NoAccess <- NoOp,
  open <- [t \in Threads |-> IF InWindow(t) THEN op[t] ELSE NoOp],
  reported <- logged

ImplementsMonitor == Monitor!Spec

\* Every call returns.
CallsReturn == \A t \in Threads : pc[t] # "idle" ~> pc[t] = "idle"

\* Flushing drops stale entries and no others.
FlushKeepsRecent ==
  [][(\E t \in Threads : FlushAccessLog(t)) =>
       \A i \in 0 .. idx - 1 : ~ IsStale(shm_access_log[i]) =>
         \E j \in 0 .. idx' - 1 : shm_access_log'[j] = shm_access_log[i]]_vars

\* A near miss is found at a place of the log that holds a logged access.
NearMissesComeFromTheLog ==
  [][\A t \in Threads :
       pc[t] = "near" /\ nm' # nm => frame[t].scan < idx]_vars

=============================================================================
