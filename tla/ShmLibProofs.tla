---------------------------- MODULE ShmLibProofs ----------------------------
(***************************************************************************)
(* Theorems about ShmLib, for every number of threads, slots, log entries  *)
(* and accesses: its types, the races it reports, the monitor it           *)
(* implements, its log and what it learns from near misses.                *)
(***************************************************************************)
EXTENDS ShmLib, FiniteSetTheorems, TLAPS

-----------------------------------------------------------------------------
(* The operators the model is built from. *)

\* isWithinTrapOffset and isWithinNMOffset decide exactly whether the two byte
\* ranges have a byte in common.
THEOREM OverlapCorrect ==
  ASSUME NEW e, e.lo \in Nat, e.hi \in Nat, e.lo <= e.hi,
         NEW offset \in Nat, NEW size \in Nat \ {0}
  PROVE  isWithinOffset(e, offset, size) <=> ShareAByte(e, offset, size)
<1>1. ASSUME isWithinOffset(e, offset, size)
      PROVE  ShareAByte(e, offset, size)
  <2> DEFINE b == IF e.lo <= offset THEN offset ELSE e.lo
  <2>1. b \in (e.lo .. e.hi) \cap (offset .. offset + size - 1)
    BY <1>1 DEF isWithinOffset
  <2> QED BY <2>1 DEF ShareAByte
<1>2. ASSUME ShareAByte(e, offset, size)
      PROVE  isWithinOffset(e, offset, size)
  <2>1. PICK b : b \in (e.lo .. e.hi) \cap (offset .. offset + size - 1)
    BY <1>2 DEF ShareAByte
  <2> QED BY <2>1 DEF isWithinOffset
<1> QED BY <1>1, <1>2

LEMMA DivBound ==
  ASSUME NEW d \in Nat, NEW n \in Nat \ {0}
  PROVE  d \div n \in Nat /\ d \div n <= d
OBVIOUS

\* A step of the running mean lands between the old mean and the new value:
\* with C's truncating division it neither overshoots nor leaves the naturals.
THEOREM MeanStepBetween ==
  ASSUME NEW mean \in Nat, NEW x \in Nat, NEW n \in Nat
  PROVE  /\ MeanStep(mean, x, n) \in Nat
         /\ mean <= x => mean <= MeanStep(mean, x, n) /\ MeanStep(mean, x, n) <= x
         /\ x <= mean => x <= MeanStep(mean, x, n) /\ MeanStep(mean, x, n) <= mean
<1>1. CASE mean <= x
  BY <1>1, DivBound DEF MeanStep, DivTrunc
<1>2. CASE x < mean
  BY <1>2, DivBound DEF MeanStep, DivTrunc
<1> QED BY <1>1, <1>2

-----------------------------------------------------------------------------
(* Type correctness. *)

\* No entry of the array, live or left over, is younger than the clock.
LogTimes == \A i \in LogIndex : shm_access_log[i].time <= clock

\* shm_mutex is held by the thread in the first critical section.
MutexInv == \A t \in Threads : pc[t] \in Critical <=> mutex = t

\* HASH_ITER runs under the lock only: nothing is left to visit outside it.
IterInv == \A t \in Threads : pc[t] # "delay" => frame[t].todo = {}

TypeInv == TypeOK /\ LogTimes /\ MutexInv /\ IterInv

LEMMA RaceKey ==
  ASSUME NEW t \in Threads, NEW o \in Ops, NEW e, NEW held,
         e.thread \in Threads \cup {NoThread}, e.info \in Sites \cup {NoSite},
         Races(t, o, e, held)
  PROVE  MsgKey(t, o, e, held) \in Key
<1>1. o.info \in Sites
  BY ShmTypesAssumption DEF OpType
<1>2. e.thread \in Threads
  BY DEF Races
<1>3. RaceViolation(held, o.rw) \in RaceKinds
  BY DEF Races, RaceViolation, RaceKinds, NoRace
<1> QED BY <1>1, <1>2, <1>3 DEF MsgKey, Key

LEMMA TrapKeys ==
  ASSUME TrapTypeOK, NEW t \in Threads, NEW o \in Ops
  PROVE  find_trap_violations(t, o) \subseteq Key
<1>1. \A i \in Slots : /\ traps[i].thread \in Threads \cup {NoThread}
                       /\ traps[i].info \in Sites \cup {NoSite}
  BY DEF TrapTypeOK, Trap
<1> QED BY <1>1, RaceKey DEF find_trap_violations

LEMMA ScannedEntryType ==
  ASSUME TypeInv, NEW i \in 0 .. idx
  PROVE  /\ ScannedEntry(i).thread \in Threads \cup {NoThread}
         /\ ScannedEntry(i).info \in Sites \cup {NoSite}
         /\ Age(ScannedEntry(i)) \in Nat
<1> USE DEF TypeInv, TypeOK, LogTypeOK
<1>1. CASE i < MAX_ACCESS_LOG_ENTRIES
  <2>1. i \in LogIndex
    BY <1>1, AccessLogAssumption DEF LogIndex
  <2>2. shm_access_log[i] \in Entry /\ shm_access_log[i].time <= clock
    BY <2>1 DEF LogTimes
  <2> QED BY <1>1, <2>2 DEF ScannedEntry, Entry, Age
<1>2. CASE ~ (i < MAX_ACCESS_LOG_ENTRIES)
  <2>1. traps[0] \in Trap
    BY TrapTableAssumption DEF TrapTypeOK, Slots
  <2> QED BY <1>2, <2>1 DEF ScannedEntry, Trap, Age
<1> QED BY <1>1, <1>2

LEMMA AccessTypes ==
  ASSUME NEW t \in Threads, NEW o \in Ops, clock \in Nat
  PROVE  AccessEntry(t, o) \in Entry /\ TrapOf(t, o) \in Trap
<1>1. o \in OpType
  BY ShmTypesAssumption
<1>2. /\ LowOffset(o) \in Int /\ HighOffset(o) \in Int
      /\ o.rw \in RW /\ o.info \in Sites
  BY <1>1 DEF OpType, LowOffset, HighOffset
<1>3. o.rw + 1 \in TrapTypes
  BY <1>2 DEF RW, TrapTypes, SHM_READ, SHM_WRITE, TRAP_TYPE_NONE,
              TRAP_TYPE_READ, TRAP_TYPE_WRITE
<1> QED BY <1>2, <1>3 DEF AccessEntry, TrapOf, Entry, Trap

LEMMA InitTypeInv == Init => TypeInv
<1> SUFFICES ASSUME Init PROVE TypeInv
  OBVIOUS
<1> USE ShmTypesAssumption, AccessLogAssumption, TrapTableAssumption,
        ShmLibAssumption
<1>1. LogTypeOK /\ LogTimes
  BY DEF Init, LogInit, LogTypeOK, LogTimes, ZeroEntry, Entry, RW
<1>0. MutexInv /\ IterInv
  BY DEF Init, MutexInv, IterInv, Critical, NoThread, Threads, NoFrame
<1>2. TrapTypeOK
  BY DEF Init, TrapInit, TrapTypeOK, ZeroTrap, Trap, TrapTypes
<1>3. HazardTypeOK
  BY DEF Init, HazardInit, HazardTypeOK
<1>4. /\ buf \in [Threads -> UNION { BufferFor(o) : o \in Ops \cup {NoOp} }]
      /\ \A t \in Threads : buf[t] \in BufferFor(op[t])
  <2>1. NoBuffer \in BufferFor(NoOp)
    BY DEF NoOp, NoBuffer, BufferFor
  <2> QED BY <2>1 DEF Init
<1>5. mem \in [0 .. SHM_SIZE - 1 -> Values]
  BY DEF Init
<1>6. /\ mutex \in Threads \cup {NoThread}
      /\ pc \in [Threads -> PCs]
      /\ op \in [Threads -> Ops \cup {NoOp}]
      /\ \A t \in Threads : pc[t] # "idle" =>
       op[t] \in Ops /\ IsValid(op[t]) /\ calls[t] < MaxCalls
      /\ frame \in [Threads -> Frame]
      /\ \A t \in Threads : frame[t].todo \subseteq DOMAIN nm
      /\ calls \in [Threads -> 0 .. MaxCalls]
      /\ round \in 1 .. CYCLE_COUNT
  BY DEF Init, PCs, NoFrame, Frame
<1> QED BY <1>0, <1>1, <1>2, <1>3, <1>4, <1>5, <1>6 DEF TypeInv, TypeOK

\* The parts of TypeInv that a thread's call keeps to itself.
CallTypeOK ==
  /\ mutex \in Threads \cup {NoThread}
  /\ pc \in [Threads -> PCs]
  /\ op \in [Threads -> Ops \cup {NoOp}]
  /\ \A t \in Threads : pc[t] # "idle" =>
       op[t] \in Ops /\ IsValid(op[t]) /\ calls[t] < MaxCalls
  /\ frame \in [Threads -> Frame]
  /\ calls \in [Threads -> 0 .. MaxCalls]
  /\ round \in 1 .. CYCLE_COUNT

DataTypeOK ==
  /\ buf \in [Threads -> UNION { BufferFor(o) : o \in Ops \cup {NoOp} }]
  /\ \A t \in Threads : buf[t] \in BufferFor(op[t])
  /\ mem \in [0 .. SHM_SIZE - 1 -> Values]

TodoOK == \A t \in Threads : frame[t].todo \subseteq DOMAIN nm

LEMMA TypeInvParts ==
  TypeInv <=> /\ LogTypeOK /\ LogTimes /\ TrapTypeOK /\ HazardTypeOK
              /\ CallTypeOK /\ DataTypeOK /\ TodoOK
              /\ MutexInv /\ IterInv
BY DEF TypeInv, TypeOK, CallTypeOK, DataTypeOK, TodoOK

\* The log keeps its type and its times under every step.
LEMMA LogStep ==
  ASSUME TypeInv, Next
  PROVE  LogTypeOK' /\ LogTimes'
<1>0. LogTypeOK /\ LogTimes /\ CallTypeOK
  BY TypeInvParts
<1> USE <1>0, AccessLogAssumption DEF LogTypeOK, LogTimes, logvars
<1>1. ASSUME NEW t \in Threads, FlushAccessLog(t)
      PROVE  LogTypeOK' /\ LogTimes'
  <2>1. CASE UNCHANGED logvars
    BY <1>1, <2>1 DEF FlushAccessLog
  <2>2. ASSUME NEW newest \in 0 .. idx - 1,
               shm_access_log' =
                 [j \in LogIndex |-> IF j < idx - 1 - newest
                                     THEN shm_access_log[newest + 1 + j]
                                     ELSE shm_access_log[j]],
               idx' = 0
        PROVE  LogTypeOK' /\ LogTimes'
    <3>1. \A j \in LogIndex : j < idx - 1 - newest => newest + 1 + j \in LogIndex
      BY DEF LogIndex
    <3>2. clock' = clock
      BY <1>1 DEF FlushAccessLog
    <3> QED BY <2>2, <3>1, <3>2
  <2> QED BY <1>1, <2>1, <2>2 DEF FlushAccessLog, flush_access_log
<1>2. ASSUME NEW t \in Threads, LogAndCopy(t)
      PROVE  LogTypeOK' /\ LogTimes'
  <2>1. AccessEntry(t, op[t]) \in Entry
    BY <1>2, AccessTypes DEF LogAndCopy, CallTypeOK
  <2>2. AccessEntry(t, op[t]).time = clock
    BY DEF AccessEntry
  <2>3. clock' = clock /\ log_access(t, op[t])
    BY <1>2 DEF LogAndCopy
  <2>4. CASE idx < MAX_ACCESS_LOG_ENTRIES
    <3>1. idx \in LogIndex /\ idx + 1 \in 0 .. MAX_ACCESS_LOG_ENTRIES
      BY <2>4 DEF LogIndex
    <3>2. \A i \in LogIndex : i # idx => shm_access_log'[i] = shm_access_log[i]
      BY <2>3, <2>4 DEF log_access
    <3>3. shm_access_log'[idx] = AccessEntry(t, op[t])
      BY <2>3, <2>4, <3>1 DEF log_access
    <3> QED BY <2>1, <2>2, <2>3, <2>4, <3>1, <3>2, <3>3 DEF log_access
  <2>5. CASE ~ (idx < MAX_ACCESS_LOG_ENTRIES)
    BY <2>3, <2>5 DEF log_access
  <2> QED BY <2>4, <2>5
<1>3. CASE NextSet
  BY <1>3 DEF NextSet, reset_access_log, ZeroEntry, Entry, RW
<1>4. CASE PassTime
  BY <1>4 DEF PassTime, Tick, LogIndex, Entry
<1>5. CASE UNCHANGED <<clock, logvars>>
  BY <1>5
<1> QED
  BY <1>1, <1>2, <1>3, <1>4, <1>5 DEF Next, ShmOpStep, Call,
     FindTrapViolations, FindNearMisses, SetTrap, AverageDelay,
     ReleaseAndSleep, Wake, ClearTraps, NextRound

\* So do the trap table and the hazard tables.
LEMMA TablesStep ==
  ASSUME TypeInv, Next
  PROVE  TrapTypeOK' /\ HazardTypeOK'
<1>0. TrapTypeOK /\ HazardTypeOK /\ LogTypeOK /\ CallTypeOK /\ TodoOK
  BY TypeInvParts
<1> USE <1>0 DEF hazardvars, CallTypeOK
<1>1. ASSUME NEW t \in Threads, FindTrapViolations(t)
      PROVE  TrapTypeOK' /\ HazardTypeOK'
  <2>1. find_trap_violations(t, op[t]) \subseteq Key
    BY <1>1, TrapKeys DEF FindTrapViolations
  <2> QED BY <1>1, <2>1 DEF FindTrapViolations, trap_violation_logger,
                            HazardTypeOK, TrapTypeOK
<1>2. ASSUME NEW t \in Threads, FindNearMisses(t)
      PROVE  TrapTypeOK' /\ HazardTypeOK'
  <2> DEFINE i == frame[t].scan
             e == ScannedEntry(i)
             k == MsgKey(t, op[t], e, e.rw)
  <2>0. TrapTypeOK' /\ logged' = logged
    BY <1>2 DEF FindNearMisses, TrapTypeOK
  <2>1. CASE nm' = nm
    BY <2>0, <2>1 DEF HazardTypeOK
  <2>2. CASE i <= idx /\ Races(t, op[t], e, e.rw) /\ nm_violation_logger(k, Age(e))
    <3>1. i \in 0 .. idx
      BY <2>2 DEF Frame, LogTypeOK
    <3>2. k \in Key /\ Age(e) \in Nat
      BY <1>2, <2>2, <3>1, ScannedEntryType, RaceKey DEF FindNearMisses
    <3>3. CASE k \notin DOMAIN nm /\ add_nm_hazard(k, Age(e))
      BY <2>0, <3>2, <3>3 DEF add_nm_hazard, HazardTypeOK, NMHazard
    <3>4. CASE k \in DOMAIN nm /\
               nm' = [nm EXCEPT ![k] = [count |-> @.count + 1,
                                avg |-> MeanStep(@.avg, Age(e), @.count),
                                divisor |-> 1]]
      <4>1. nm[k] \in NMHazard
        BY <3>4 DEF HazardTypeOK
      <4>2. MeanStep(nm[k].avg, Age(e), nm[k].count) \in Nat
        BY <3>2, <4>1, MeanStepBetween DEF NMHazard
      <4>3. [count |-> nm[k].count + 1,
             avg |-> MeanStep(nm[k].avg, Age(e), nm[k].count),
             divisor |-> 1] \in NMHazard
        BY <4>1, <4>2 DEF NMHazard
      <4> QED BY <2>0, <3>4, <4>3 DEF HazardTypeOK
    <3> QED BY <2>1, <2>2, <3>3, <3>4 DEF nm_violation_logger
  <2> QED BY <1>2, <2>1, <2>2 DEF FindNearMisses
<1>3. ASSUME NEW t \in Threads, SetTrap(t)
      PROVE  TrapTypeOK' /\ HazardTypeOK'
  <2>1. TrapOf(t, op[t]) \in Trap
    BY <1>3, AccessTypes DEF SetTrap, LogTypeOK
  <2> QED BY <1>3, <2>1 DEF SetTrap, place_trap, FreeSlots, TrapTypeOK,
                            HazardTypeOK
<1>4. ASSUME NEW t \in Threads, AverageDelay(t)
      PROVE  TrapTypeOK' /\ HazardTypeOK'
  <2>1. PICK k \in frame[t].todo : decay(k)
    BY <1>4 DEF AverageDelay
  <2>2. k \in DOMAIN nm
    BY <2>1 DEF TodoOK
  <2>3. [nm[k] EXCEPT !.divisor = 3 * @] \in NMHazard
    BY <2>2 DEF HazardTypeOK, NMHazard
  <2>4. TrapTypeOK' /\ logged' = logged
    BY <1>4 DEF AverageDelay, TrapTypeOK
  <2> QED BY <2>1, <2>2, <2>3, <2>4 DEF decay, HazardTypeOK
<1>5. ASSUME NEW t \in Threads, ClearTraps(t)
      PROVE  TrapTypeOK' /\ HazardTypeOK'
  BY <1>5 DEF ClearTraps, clear_traps, TrapTypeOK, HazardTypeOK, ZeroTrap,
              Trap, TrapTypes
<1>6. CASE NextRound
  <2>1. \A k \in DOMAIN nm : [nm[k] EXCEPT !.divisor = 1] \in NMHazard
    BY DEF HazardTypeOK, NMHazard
  <2>2. TrapTypeOK'
    BY <1>6 DEF NextRound, clearall_traps, TrapTypeOK, ZeroTrap, Trap, TrapTypes
  <2> QED BY <1>6, <2>1, <2>2 DEF NextRound, reset_nm_decays, HazardTypeOK
<1>7. CASE NextSet
  BY <1>7 DEF NextSet, clearall_traps, clearall_loghashes, TrapTypeOK,
              HazardTypeOK, ZeroTrap, Trap, TrapTypes
<1>8. CASE UNCHANGED <<traps, hazardvars>>
  BY <1>8 DEF TrapTypeOK, HazardTypeOK
<1> QED
  BY <1>1, <1>2, <1>3, <1>4, <1>5, <1>6, <1>7, <1>8 DEF Next, ShmOpStep, Call,
     FlushAccessLog, LogAndCopy, ReleaseAndSleep, Wake, PassTime

\* A thread's own variables, and who holds the lock.
LEMMA CallStep ==
  ASSUME TypeInv, Next
  PROVE  CallTypeOK' /\ MutexInv' /\ IterInv'
<1>0. /\ CallTypeOK /\ MutexInv /\ IterInv /\ TodoOK
      /\ LogTypeOK /\ TrapTypeOK /\ HazardTypeOK
  BY TypeInvParts
<1> USE <1>0, ShmLibAssumption
    DEF CallTypeOK, MutexInv, IterInv, PCs, Critical, Goto, clientvars,
        Lock, Unlock, NoThread, Threads
<1>1. ASSUME NEW t \in Threads, Call(t)
      PROVE  CallTypeOK' /\ MutexInv' /\ IterInv'
  <2>1. PICK o \in Ops :
          \/ /\ IsValid(o)
             /\ op' = [op EXCEPT ![t] = o]
             /\ Goto(t, "enter")
             /\ UNCHANGED calls
          \/ /\ calls' = [calls EXCEPT ![t] = @ + 1]
             /\ UNCHANGED <<op, pc>>
    BY <1>1 DEF Call
  <2>2. pc[t] = "idle" /\ calls[t] < MaxCalls /\ UNCHANGED <<mutex, frame, round>>
    BY <1>1 DEF Call
  <2>3. calls' \in [Threads -> 0 .. MaxCalls]
    BY <2>1, <2>2
  <2> QED BY <2>1, <2>2, <2>3, ZenonT(30)
<1>2. ASSUME NEW t \in Threads, FindTrapViolations(t)
      PROVE  CallTypeOK' /\ MutexInv' /\ IterInv'
  BY <1>2 DEF FindTrapViolations
<1>3. ASSUME NEW t \in Threads, FlushAccessLog(t)
      PROVE  CallTypeOK' /\ MutexInv' /\ IterInv'
  BY <1>3 DEF FlushAccessLog
<1>4. ASSUME NEW t \in Threads, FindNearMisses(t)
      PROVE  CallTypeOK' /\ MutexInv' /\ IterInv'
  <2>1. frame[t] \in Frame
    OBVIOUS
  <2>2. /\ [frame[t] EXCEPT !.scan = 0] \in Frame
        /\ [frame[t] EXCEPT !.scan = frame[t].scan + 1] \in Frame
    BY <2>1 DEF Frame
  <2>3. \/ frame' = [frame EXCEPT ![t] = [frame[t] EXCEPT !.scan = 0]]
        \/ frame' = [frame EXCEPT ![t] = [frame[t] EXCEPT !.scan = frame[t].scan + 1]]
    BY <1>4 DEF FindNearMisses
  <2>4. /\ frame' \in [Threads -> Frame]
        /\ \A u \in Threads : frame'[u].todo = frame[u].todo
    <3>1. ASSUME NEW n \in Nat,
                 frame' = [frame EXCEPT ![t] = [frame[t] EXCEPT !.scan = n]],
                 [frame[t] EXCEPT !.scan = n] \in Frame
          PROVE  /\ frame' \in [Threads -> Frame]
                 /\ \A u \in Threads : frame'[u].todo = frame[u].todo
      BY <2>1, <3>1 DEF Frame
    <3>2. frame[t].scan + 1 \in Nat
      BY <2>1 DEF Frame
    <3> QED BY <2>2, <2>3, <3>1, <3>2
  <2> QED BY <1>4, <2>4 DEF FindNearMisses
<1>5. ASSUME NEW t \in Threads, LogAndCopy(t)
      PROVE  CallTypeOK' /\ MutexInv' /\ IterInv'
  BY <1>5 DEF LogAndCopy
<1>6. ASSUME NEW t \in Threads, SetTrap(t)
      PROVE  CallTypeOK' /\ MutexInv' /\ IterInv'
  <2>1. CASE FreeSlots = {} /\ Unlock(t) /\ Goto(t, "leave") /\ UNCHANGED <<traps, frame>>
    BY <1>6, <2>1 DEF SetTrap
  <2>2. CASE /\ frame' = [frame EXCEPT ![t].todo = NearMissesAt(t, op[t])]
             /\ Goto(t, "delay") /\ UNCHANGED mutex
    <3>1. NearMissesAt(t, op[t]) \in SUBSET Key
      BY DEF NearMissesAt, HazardTypeOK
    <3>2. [frame[t] EXCEPT !.todo = NearMissesAt(t, op[t])] \in Frame
      BY <3>1, SMTT(20) DEF Frame
    <3> QED BY <1>6, <2>2, <3>2 DEF SetTrap
  <2> QED BY <1>6, <2>1, <2>2 DEF SetTrap
<1>7. ASSUME NEW t \in Threads, AverageDelay(t)
      PROVE  CallTypeOK' /\ MutexInv' /\ IterInv'
  <2> DEFINE f(k) == [scan |-> frame[t].scan,
                      mean |-> MeanStep(frame[t].mean, DecayedDelay(k), frame[t].hits),
                      hits |-> frame[t].hits + 1,
                      todo |-> frame[t].todo \ {k}]
  <2>1. PICK k \in frame[t].todo : frame' = [frame EXCEPT ![t] = f(k)]
    BY <1>7 DEF AverageDelay
  <2>2. nm[k] \in NMHazard
    BY <2>1 DEF TodoOK, HazardTypeOK
  <2>3. DecayedDelay(k) \in Nat
    BY <2>2, DivBound DEF DecayedDelay, NMHazard
  <2>4. frame[t] \in Frame
    OBVIOUS
  <2>5. MeanStep(frame[t].mean, DecayedDelay(k), frame[t].hits) \in Nat
    BY <2>3, <2>4, MeanStepBetween DEF Frame
  <2>6. f(k) \in Frame
    BY <2>4, <2>5 DEF Frame
  <2> QED BY <1>7, <2>1, <2>6 DEF AverageDelay
<1>8. ASSUME NEW t \in Threads, ReleaseAndSleep(t)
      PROVE  CallTypeOK' /\ MutexInv' /\ IterInv'
  <2> DEFINE d == IF frame[t].hits > 0 THEN frame[t].mean ELSE DEFAULT_DELAY
  <2>0. frame[t] \in Frame
    OBVIOUS
  <2>1. [frame[t] EXCEPT !.mean = d] \in Frame
    <3>1. d \in Nat
      BY <2>0 DEF Frame
    <3> HIDE DEF d
    <3> QED BY <2>0, <3>1 DEF Frame
  <2>2. frame' = [frame EXCEPT ![t] = [frame[t] EXCEPT !.mean = d]]
    BY <1>8 DEF ReleaseAndSleep
  <2>3. frame' \in [Threads -> Frame]
    BY <2>1, <2>2
  <2>4. \A u \in Threads : frame'[u].todo = frame[u].todo
    BY <2>2 DEF Frame
  <2>5. frame[t].todo = {}
    BY <1>8 DEF ReleaseAndSleep
  <2>6. PICK l \in {"sleep", "leave"} : pc' = [pc EXCEPT ![t] = l]
    BY <1>8 DEF ReleaseAndSleep
  <2>7. /\ pc[t] = "delay" /\ mutex' = NoThread
        /\ UNCHANGED <<op, calls, round>>
    BY <1>8 DEF ReleaseAndSleep
  <2>8. CallTypeOK'
    BY <2>3, <2>6, <2>7
  <2>9. MutexInv'
    BY <2>6, <2>7
  <2>10. IterInv'
    BY <2>4, <2>5, <2>6
  <2> QED BY <2>8, <2>9, <2>10
<1>9. ASSUME NEW t \in Threads, Wake(t)
      PROVE  CallTypeOK' /\ MutexInv' /\ IterInv'
  BY <1>9 DEF Wake
<1>10. ASSUME NEW t \in Threads, ClearTraps(t)
      PROVE  CallTypeOK' /\ MutexInv' /\ IterInv'
  <2>1. NoFrame \in Frame /\ NoFrame.todo = {}
    BY DEF NoFrame, Frame
  <2>2. calls' \in [Threads -> 0 .. MaxCalls]
    BY <1>10 DEF ClearTraps
  <2> QED BY <1>10, <2>1, <2>2 DEF ClearTraps
<1>11. CASE NextRound
  BY <1>11 DEF NextRound
<1>12. CASE NextSet
  BY <1>12 DEF NextSet
<1>13. CASE PassTime
  BY <1>13 DEF PassTime
<1> QED
  BY <1>1, <1>2, <1>3, <1>4, <1>5, <1>6, <1>7, <1>8, <1>9, <1>10, <1>11, <1>12,
     <1>13 DEF Next, ShmOpStep

\* The buffers, the shared memory and the hazards set_trap has still to visit.
LEMMA DataStep ==
  ASSUME TypeInv, Next
  PROVE  DataTypeOK' /\ TodoOK'
<1>0. /\ CallTypeOK /\ MutexInv /\ IterInv /\ TodoOK /\ DataTypeOK
      /\ IterInv' /\ MutexInv'
  BY TypeInvParts, CallStep
<1>1. ASSUME NEW t \in Threads, Call(t)
      PROVE  DataTypeOK' /\ TodoOK'
  <2>1. UNCHANGED <<mem, frame, nm>>
    BY <1>1 DEF Call, hazardvars
  <2>2. CASE UNCHANGED <<op, buf>>
    BY <1>0, <2>1, <2>2 DEF DataTypeOK, TodoOK
  <2>3. ASSUME NEW o \in Ops, NEW data \in BufferFor(o),
               op' = [op EXCEPT ![t] = o], buf' = [buf EXCEPT ![t] = data]
        PROVE  DataTypeOK' /\ TodoOK'
    <3>1. op' \in [Threads -> Ops \cup {NoOp}] /\ op'[t] = o
      BY <1>0, <2>3 DEF CallTypeOK
    <3>2. \A u \in Threads : u # t => op'[u] = op[u]
      BY <1>0, <2>3 DEF CallTypeOK
    <3> QED BY <1>0, <2>1, <2>3, <3>1, <3>2 DEF DataTypeOK, TodoOK, CallTypeOK
  <2> QED BY <1>1, <2>2, <2>3 DEF Call
<1>2. ASSUME NEW t \in Threads, FindTrapViolations(t)
      PROVE  DataTypeOK' /\ TodoOK'
  <2>1. \A u \in Threads : frame'[u].todo = {}
    <3>1. mutex = NoThread /\ frame' = frame
      BY <1>2 DEF FindTrapViolations, Lock
    <3>2. \A u \in Threads : pc[u] # "delay"
      BY <1>0, <3>1 DEF MutexInv, Critical, NoThread, Threads
    <3> QED BY <1>0, <3>1, <3>2 DEF IterInv
  <2> QED BY <1>0, <1>2, <2>1 DEF FindTrapViolations, DataTypeOK, TodoOK
<1>3. ASSUME NEW t \in Threads, FindNearMisses(t)
      PROVE  DataTypeOK' /\ TodoOK'
  <2>1. UNCHANGED <<op, buf, mem>>
    BY <1>3 DEF FindNearMisses
  <2>2. mutex = t /\ pc[t] = "near"
    BY <1>0, <1>3 DEF FindNearMisses, MutexInv, Critical
  <2>3. \A u \in Threads : pc[u] # "delay"
    BY <1>0, <2>2 DEF MutexInv, Critical
  <2>4. \A u \in Threads : pc'[u] # "delay"
    BY <1>0, <1>3, <2>3 DEF FindNearMisses, Goto, CallTypeOK
  <2> QED BY <1>0, <2>1, <2>4 DEF IterInv, DataTypeOK, TodoOK
<1>4. ASSUME NEW t \in Threads, LogAndCopy(t)
      PROVE  DataTypeOK' /\ TodoOK'
  <2> DEFINE o == op[t]
             n == SmallerOf(o.size, o.bufsize)
  <2>1. UNCHANGED <<op, frame, nm>>
    BY <1>4 DEF LogAndCopy, hazardvars
  <2>2. /\ o \in Ops /\ o \in OpType
        /\ o.offset + o.size <= SHM_SIZE /\ SHM_SIZE \in Nat
    BY <1>0, <1>4, ShmTypesAssumption DEF LogAndCopy, CallTypeOK
  <2>3. /\ n \in Nat /\ n <= o.size /\ n <= o.bufsize
        /\ o.offset \in Nat /\ o.size \in Nat /\ o.bufsize \in Nat
    BY <2>2 DEF SmallerOf, OpType
  <2>4. buf[t] \in [0 .. o.bufsize - 1 -> Values]
    BY <1>0 DEF DataTypeOK, BufferFor
  <2>5. mem \in [0 .. SHM_SIZE - 1 -> Values]
    BY <1>0 DEF DataTypeOK
  <2> HIDE DEF n, o
  <2>6. CASE /\ buf' = [buf EXCEPT ![t] =
                     [b \in 0 .. o.bufsize - 1 |->
                        IF b < n THEN mem[o.offset + b] ELSE buf[t][b]]]
             /\ UNCHANGED mem
    <3> DEFINE d == [b \in 0 .. o.bufsize - 1 |->
                       IF b < n THEN mem[o.offset + b] ELSE buf[t][b]]
    <3>1. \A b \in 0 .. o.bufsize - 1 :
            b < n => o.offset + b \in 0 .. SHM_SIZE - 1
      BY <2>2, <2>3
    <3>2. d \in [0 .. o.bufsize - 1 -> Values]
      BY <2>4, <2>5, <3>1
    <3>3. d \in BufferFor(op[t]) /\ op[t] \in Ops
      BY <2>2, <3>2 DEF BufferFor, o
    <3> HIDE DEF d
    <3> QED BY <1>0, <2>1, <2>6, <3>3 DEF DataTypeOK, TodoOK, d
  <2>7. CASE /\ mem' = [b \in 0 .. SHM_SIZE - 1 |->
                     IF b \in o.offset .. o.offset + n - 1
                     THEN buf[t][b - o.offset] ELSE mem[b]]
             /\ UNCHANGED buf
    <3>1. \A b \in o.offset .. o.offset + n - 1 :
            b - o.offset \in 0 .. o.bufsize - 1
      BY <2>3
    <3>2. mem' \in [0 .. SHM_SIZE - 1 -> Values]
      BY <2>4, <2>5, <2>7, <3>1
    <3> QED BY <1>0, <2>1, <2>7, <3>2 DEF DataTypeOK, TodoOK
  <2> QED BY <1>4, <2>6, <2>7 DEF LogAndCopy, CopyData, n, o
<1>5. ASSUME NEW t \in Threads, SetTrap(t)
      PROVE  DataTypeOK' /\ TodoOK'
  <2>1. UNCHANGED <<op, buf, mem, nm>>
    BY <1>5 DEF SetTrap, hazardvars
  <2>2. \A u \in Threads : \/ frame'[u] = frame[u]
                             \/ frame'[u].todo = NearMissesAt(t, op[t])
    BY <1>0, <1>5 DEF SetTrap, CallTypeOK, Frame
  <2> QED BY <1>0, <2>1, <2>2 DEF DataTypeOK, TodoOK, NearMissesAt
<1>6. ASSUME NEW t \in Threads, AverageDelay(t)
      PROVE  DataTypeOK' /\ TodoOK'
  <2>1. UNCHANGED <<op, buf, mem>> /\ DOMAIN nm' = DOMAIN nm
    BY <1>6 DEF AverageDelay, decay
  <2>2. \A u \in Threads : frame'[u].todo \subseteq frame[u].todo
    BY <1>0, <1>6 DEF AverageDelay, CallTypeOK
  <2> QED BY <1>0, <2>1, <2>2 DEF DataTypeOK, TodoOK
<1>7. ASSUME NEW t \in Threads, ReleaseAndSleep(t)
      PROVE  DataTypeOK' /\ TodoOK'
  <2>1. UNCHANGED <<op, buf, mem, nm>>
    BY <1>7 DEF ReleaseAndSleep, hazardvars
  <2>2. \A u \in Threads : frame'[u].todo = frame[u].todo
    BY <1>0, <1>7 DEF ReleaseAndSleep, CallTypeOK, Frame
  <2> QED BY <1>0, <2>1, <2>2 DEF DataTypeOK, TodoOK
<1>8. ASSUME NEW t \in Threads, ClearTraps(t)
      PROVE  DataTypeOK' /\ TodoOK'
  <2>1. UNCHANGED <<mem, nm>>
    BY <1>8 DEF ClearTraps, hazardvars
  <2>2. NoBuffer \in BufferFor(NoOp)
    BY DEF NoOp, NoBuffer, BufferFor
  <2>3. op' = [op EXCEPT ![t] = NoOp] /\ buf' = [buf EXCEPT ![t] = NoBuffer]
    BY <1>8 DEF ClearTraps
  <2>4. \A u \in Threads : frame'[u].todo = frame[u].todo \/ frame'[u].todo = {}
    BY <1>0, <1>8 DEF ClearTraps, CallTypeOK, NoFrame
  <2>5. DataTypeOK'
    BY <1>0, <2>1, <2>2, <2>3 DEF DataTypeOK, CallTypeOK
  <2> QED BY <1>0, <2>1, <2>4, <2>5 DEF TodoOK
<1>9. CASE NextRound \/ NextSet
  <2>1. UNCHANGED <<op, buf, mem, frame>> /\ Quiescent
    BY <1>9 DEF NextRound, NextSet
  <2>2. \A t \in Threads : frame'[t].todo = {}
    BY <1>0, <2>1 DEF Quiescent, IterInv
  <2> QED BY <1>0, <2>1, <2>2 DEF DataTypeOK, TodoOK
<1>10. CASE UNCHANGED <<op, buf, mem, frame, nm>>
  BY <1>0, <1>10 DEF DataTypeOK, TodoOK
<1> QED
  BY <1>1, <1>2, <1>3, <1>4, <1>5, <1>6, <1>7, <1>8, <1>9, <1>10 DEF Next,
     ShmOpStep, FlushAccessLog, Wake, PassTime, hazardvars

LEMMA TypeInvariant == Spec => []TypeInv
<1>1. TypeInv /\ [Next]_vars => TypeInv'
  <2> SUFFICES ASSUME TypeInv, [Next]_vars PROVE TypeInv'
    OBVIOUS
  <2>1. CASE Next
    BY <2>1, LogStep, TablesStep, CallStep, DataStep
       DEF TypeInv, TypeOK, CallTypeOK, DataTypeOK, TodoOK
  <2>2. CASE UNCHANGED vars
    BY <2>2 DEF vars, TypeInv, TypeOK, LogTypeOK, TrapTypeOK, HazardTypeOK,
                LogTimes, MutexInv, IterInv
  <2> QED BY <2>1, <2>2
<1> QED BY InitTypeInv, <1>1, PTL DEF Spec

\* Every table, index, argument and buffer of the library stays in its type:
\* in particular the log index within the array, the delays non-negative, and
\* every copy within shm_master.
THEOREM TypeCorrect == Spec => []TypeOK
<1>1. TypeInv => TypeOK
  BY DEF TypeInv
<1> QED BY <1>1, TypeInvariant, PTL

-----------------------------------------------------------------------------
\* A step of one thread leaves the others where they are.
LEMMA OthersStay ==
  ASSUME TypeInv, NEW t \in Threads, Call(t) \/ ShmOpStep(t)
  PROVE  \A u \in Threads \ {t} :
           pc'[u] = pc[u] /\ op'[u] = op[u] /\ frame'[u] = frame[u]
<1>1. /\ pc \in [Threads -> PCs] /\ op \in [Threads -> Ops \cup {NoOp}]
      /\ frame \in [Threads -> Frame]
  BY DEF TypeInv, TypeOK
<1>2. CASE Call(t)
  BY <1>1, <1>2 DEF Call, Goto
<1>3. CASE FindNearMisses(t)
  <2>1. pc' = pc \/ pc' = [pc EXCEPT ![t] = "log"]
    BY <1>3 DEF FindNearMisses, Goto
  <2>2. \E f : frame' = [frame EXCEPT ![t] = f]
    BY <1>3 DEF FindNearMisses
  <2> QED BY <1>1, <1>3, <2>1, <2>2 DEF FindNearMisses
<1>4. CASE SetTrap(t)
  <2>1. \E f : frame' = [frame EXCEPT ![t] = f] \/ frame' = frame
    BY <1>4 DEF SetTrap
  <2> QED BY <1>1, <1>4, <2>1 DEF SetTrap, Goto
<1>5. CASE ReleaseAndSleep(t)
  <2>1. \E f : frame' = [frame EXCEPT ![t] = f]
    BY <1>5 DEF ReleaseAndSleep
  <2>2. \E l : pc' = [pc EXCEPT ![t] = l]
    BY <1>5 DEF ReleaseAndSleep, Goto
  <2> QED BY <1>1, <1>5, <2>1, <2>2 DEF ReleaseAndSleep
<1>6. CASE \/ FindTrapViolations(t) \/ FlushAccessLog(t) \/ LogAndCopy(t)
           \/ AverageDelay(t) \/ Wake(t) \/ ClearTraps(t)
  BY <1>1, <1>6 DEF FindTrapViolations, FlushAccessLog, LogAndCopy,
     AverageDelay, Wake, ClearTraps, Goto
<1> QED BY <1>2, <1>3, <1>4, <1>5, <1>6 DEF ShmOpStep

-----------------------------------------------------------------------------
\* shm_racer runs at most MAX_SUPPORTED_THREADS = MAX_SHM_TRAPS threads.
EnoughSlots == NumThreads <= MAX_SHM_TRAPS

-----------------------------------------------------------------------------
(* Traps and the calls that set them. *)

LEMMA InitTraps == Init => TrapsAreLive
BY DEF Init, TrapInit, TrapsAreLive, ZeroTrap, NoThread

LEMMA TrapsStep ==
  ASSUME TypeInv, TrapsAreLive, Next
  PROVE  TrapsAreLive'
<1>0. /\ pc \in [Threads -> PCs] /\ op \in [Threads -> Ops \cup {NoOp}]
      /\ traps \in [Slots -> Trap]
  BY DEF TypeInv, TypeOK, TrapTypeOK
<1> USE <1>0 DEF TrapsAreLive, IsParked, Parked
<1>1. ASSUME NEW t \in Threads, SetTrap(t)
      PROVE  TrapsAreLive'
  <2>0. op' = op /\ pc[t] = "trap"
    BY <1>1 DEF SetTrap
  <2>1. \A i \in Slots : traps[i].thread # t
    BY <2>0 DEF NoThread, Threads
  <2>2. CASE UNCHANGED traps
    BY <1>1, <2>0, <2>1, <2>2 DEF SetTrap, Goto, Trap
  <2>3. ASSUME NEW s \in FreeSlots, traps' = [traps EXCEPT ![s] = TrapOf(t, op[t])],
               pc' = [pc EXCEPT ![t] = "delay"]
        PROVE  TrapsAreLive'
    <3>1. s \in Slots /\ traps'[s] = TrapOf(t, op[t]) /\ traps'[s].thread = t
      BY <2>3 DEF FreeSlots, TrapOf
    <3>2. \A i \in Slots : i # s => traps'[i] = traps[i]
      BY <2>3
    <3>3. \A i \in Slots : i # s => traps'[i].thread # t
      BY <2>1, <3>2
    <3> QED BY <2>0, <2>3, <3>1, <3>2, <3>3
  <2> QED BY <1>1, <2>2, <2>3 DEF SetTrap, place_trap, Goto
<1>2. ASSUME NEW t \in Threads, ClearTraps(t)
      PROVE  TrapsAreLive'
  <2>1. \A i \in Slots : \/ traps'[i] = ZeroTrap
                         \/ traps'[i] = traps[i] /\ traps[i].thread # t
    BY <1>2 DEF ClearTraps, clear_traps
  <2>2. ZeroTrap.thread = NoThread
    BY DEF ZeroTrap
  <2>3. \A u \in Threads \ {t} : pc'[u] = pc[u] /\ op'[u] = op[u]
    BY <1>2, OthersStay DEF ShmOpStep
  <2> QED BY <2>1, <2>2, <2>3 DEF Trap
<1>3. CASE NextRound \/ NextSet
  BY <1>3 DEF NextRound, NextSet, clearall_traps, ZeroTrap
<1>4. ASSUME NEW t \in Threads, UNCHANGED traps,
             \A u \in Threads \ {t} : pc'[u] = pc[u] /\ op'[u] = op[u],
             pc[t] \in Parked => pc'[t] \in Parked /\ op'[t] = op[t]
      PROVE  TrapsAreLive'
  BY <1>4 DEF Trap, Threads, NoThread
<1>5. ASSUME NEW t \in Threads, Call(t)
      PROVE  TrapsAreLive'
  BY <1>5, <1>4, OthersStay DEF Call
<1>6. ASSUME NEW t \in Threads,
             \/ FindTrapViolations(t) \/ FlushAccessLog(t) \/ FindNearMisses(t)
             \/ LogAndCopy(t) \/ AverageDelay(t) \/ ReleaseAndSleep(t) \/ Wake(t)
      PROVE  TrapsAreLive'
  <2>1. UNCHANGED <<traps, op>>
    BY <1>6 DEF FindTrapViolations, FlushAccessLog, FindNearMisses, LogAndCopy,
                AverageDelay, ReleaseAndSleep, Wake
  <2>2. pc[t] \in Parked => pc'[t] \in Parked
    BY <1>6 DEF FindTrapViolations, FlushAccessLog, FindNearMisses, LogAndCopy,
                AverageDelay, ReleaseAndSleep, Wake, Goto
  <2>3. \A u \in Threads \ {t} : pc'[u] = pc[u] /\ op'[u] = op[u]
    BY <1>6, OthersStay DEF ShmOpStep
  <2> QED BY <1>4, <2>1, <2>2, <2>3
<1>7. CASE PassTime
  BY <1>7 DEF PassTime
<1> QED
  BY <1>1, <1>2, <1>3, <1>5, <1>6, <1>7 DEF Next, ShmOpStep

\* No trap outlives the call of shm_op that set it, none stands for another
\* access than that call's, and no call has two.
THEOREM TrapsLive == Spec => []TrapsAreLive
<1>1. TypeInv /\ TrapsAreLive /\ [Next]_vars => TrapsAreLive'
  <2>1. UNCHANGED vars /\ TrapsAreLive => TrapsAreLive'
    BY DEF vars, TrapsAreLive, IsParked
  <2> QED BY <2>1, TrapsStep
<1> QED BY InitTraps, <1>1, TypeInvariant, PTL DEF Spec

\* The converse: every parked thread has its trap in the table.
ParkedHaveTraps ==
  \A t \in Threads : IsParked(t) => \E i \in Slots : traps[i] = TrapOf(t, op[t])

\* With a slot for every thread, a thread about to set its trap finds one.
LEMMA SlotAvailable ==
  ASSUME EnoughSlots, TypeInv, TrapsAreLive, NEW t \in Threads, pc[t] = "trap"
  PROVE  FreeSlots # {}
<1> SUFFICES ASSUME FreeSlots = {} PROVE FALSE
  OBVIOUS
<1> DEFINE S == Slots
           T == Threads \ {t}
           f == [i \in S |-> traps[i].thread]
<1>1. IsFiniteSet(S) /\ Cardinality(S) = MAX_SHM_TRAPS
  BY TrapTableAssumption, FS_Interval DEF Slots
<1>2. IsFiniteSet(Threads) /\ Cardinality(Threads) = NumThreads
  BY ShmTypesAssumption, FS_Interval DEF Threads
<1>3. IsFiniteSet(T) /\ Cardinality(T) = NumThreads - 1
  BY <1>2, FS_RemoveElement
<1>4. Cardinality(T) < Cardinality(S)
  BY <1>1, <1>3, ShmTypesAssumption, TrapTableAssumption DEF EnoughSlots
<1>5. \A i \in S : traps[i].thread \in Threads \ {t}
  <2>1. \A i \in S : traps[i].thread \in Threads
    BY DEF FreeSlots, IsFree, TypeInv, TypeOK, TrapTypeOK, Trap
  <2>2. \A i \in S : traps[i].thread # t
    BY DEF TrapsAreLive, IsParked, Parked, Threads, NoThread
  <2> QED BY <2>1, <2>2
<1>6. f \in [S -> T]
  BY <1>5
<1>7. \E i, j \in S : i # j /\ f[i] = f[j]
  <2> HIDE DEF S, T, f
  <2> QED BY <1>1, <1>3, <1>4, <1>6, FS_PigeonHole
<1>8. PICK i \in S, j \in S : i # j /\ traps[i].thread = traps[j].thread
  BY <1>7
<1> QED BY <1>5, <1>8 DEF TrapsAreLive, NoThread, Threads

LEMMA ParkedStep ==
  ASSUME EnoughSlots, TypeInv, TrapsAreLive, ParkedHaveTraps, Next
  PROVE  ParkedHaveTraps'
<1>0. /\ pc \in [Threads -> PCs] /\ op \in [Threads -> Ops \cup {NoOp}]
      /\ traps \in [Slots -> Trap]
  BY DEF TypeInv, TypeOK, TrapTypeOK
<1> USE <1>0 DEF ParkedHaveTraps, IsParked, Parked
<1>1. ASSUME NEW t \in Threads, SetTrap(t)
      PROVE  ParkedHaveTraps'
  <2>1. pc[t] = "trap" /\ op' = op
    BY <1>1 DEF SetTrap
  <2>2. place_trap(t, op[t]) /\ pc' = [pc EXCEPT ![t] = "delay"]
    BY <1>1, <2>1, SlotAvailable DEF SetTrap, Goto
  <2>3. PICK s \in FreeSlots : traps' = [traps EXCEPT ![s] = TrapOf(t, op[t])]
    BY <2>2 DEF place_trap
  <2>4. s \in Slots /\ traps[s].thread = NoThread /\ traps'[s] = TrapOf(t, op[t])
    BY <2>3 DEF FreeSlots, IsFree
  <2>5. \A u \in Threads : TrapOf(u, op[u]).thread # NoThread
    BY DEF TrapOf, Threads, NoThread
  <2>6. \A i \in Slots : traps[i].thread # NoThread => traps'[i] = traps[i]
    BY <2>3, <2>4
  <2> QED BY <2>1, <2>2, <2>4, <2>5, <2>6
<1>2. ASSUME NEW t \in Threads, ClearTraps(t)
      PROVE  ParkedHaveTraps'
  <2>1. \A i \in Slots : traps[i].thread # t => traps'[i] = traps[i]
    BY <1>2 DEF ClearTraps, clear_traps
  <2>2. \A u \in Threads \ {t} : pc'[u] = pc[u] /\ op'[u] = op[u]
    BY <1>2, OthersStay DEF ShmOpStep
  <2>3. pc'[t] = "idle"
    BY <1>2 DEF ClearTraps, Goto
  <2>4. \A u \in Threads : TrapOf(u, op[u]).thread = u
    BY DEF TrapOf
  <2> QED BY <2>1, <2>2, <2>3, <2>4
<1>3. CASE NextRound \/ NextSet
  BY <1>3 DEF NextRound, NextSet, Quiescent
<1>4. ASSUME NEW t \in Threads, UNCHANGED traps,
             \A u \in Threads \ {t} : pc'[u] = pc[u] /\ op'[u] = op[u],
             pc'[t] \in Parked => pc[t] \in Parked /\ op'[t] = op[t]
      PROVE  ParkedHaveTraps'
  BY <1>4
<1>5. ASSUME NEW t \in Threads, Call(t)
      PROVE  ParkedHaveTraps'
  BY <1>5, <1>4, OthersStay DEF Call, Goto
<1>6. ASSUME NEW t \in Threads,
             \/ FindTrapViolations(t) \/ FlushAccessLog(t) \/ FindNearMisses(t)
             \/ LogAndCopy(t) \/ AverageDelay(t) \/ ReleaseAndSleep(t) \/ Wake(t)
      PROVE  ParkedHaveTraps'
  <2>1. UNCHANGED <<traps, op>>
    BY <1>6 DEF FindTrapViolations, FlushAccessLog, FindNearMisses, LogAndCopy,
                AverageDelay, ReleaseAndSleep, Wake
  <2>2. pc'[t] \in Parked => pc[t] \in Parked
    BY <1>6 DEF FindTrapViolations, FlushAccessLog, FindNearMisses, LogAndCopy,
                AverageDelay, ReleaseAndSleep, Wake, Goto
  <2>3. \A u \in Threads \ {t} : pc'[u] = pc[u] /\ op'[u] = op[u]
    BY <1>6, OthersStay DEF ShmOpStep
  <2> QED BY <1>4, <2>1, <2>2, <2>3
<1>7. CASE PassTime
  BY <1>7 DEF PassTime
<1> QED
  BY <1>1, <1>2, <1>3, <1>5, <1>6, <1>7 DEF Next, ShmOpStep

-----------------------------------------------------------------------------
(* Every race of two open accesses is reported. *)

\* A race has no direction: the two accesses share a byte and one writes.
LEMMA ConflictSymmetric ==
  ASSUME NEW t \in Threads, NEW u \in Threads, op[t] \in Ops, op[u] \in Ops,
         Conflict(t, u)
  PROVE  Conflict(u, t)
<1> DEFINE o == op[t]
           p == op[u]
<1>1. /\ o.offset \in Nat /\ o.size \in Nat /\ o.rw \in RW
      /\ p.offset \in Nat /\ p.size \in Nat /\ p.rw \in RW
  BY ShmTypesAssumption DEF OpType
<1>2. u # t /\ isWithinOffset(TrapOf(u, p), o.offset, o.size)
      /\ RaceViolation(p.rw, o.rw) # NoRace
  BY DEF Conflict, Races, TrapOf
<1>3. isWithinOffset(TrapOf(t, o), p.offset, p.size)
  BY <1>1, <1>2 DEF isWithinOffset, TrapOf, LowOffset, HighOffset
<1>4. RaceViolation(o.rw, p.rw) # NoRace
  BY <1>1, <1>2 DEF RaceViolation, NoRace, RW, SHM_READ, SHM_WRITE
<1> QED BY <1>2, <1>3, <1>4 DEF Conflict, Races, TrapOf, Threads, NoThread

\* The races a new access finds are those with the accesses parked now.
LEMMA FoundAreConflicts ==
  ASSUME TypeInv, TrapsAreLive, ParkedHaveTraps, NEW t \in Threads
  PROVE  find_trap_violations(t, op[t]) =
           { ConflictKey(t, u) : u \in { v \in Threads : IsParked(v) /\ Conflict(t, v) } }
<1>0. op \in [Threads -> Ops \cup {NoOp}] /\ traps \in [Slots -> Trap]
      /\ \A u \in Threads : pc[u] # "idle" => op[u] \in Ops
  BY DEF TypeInv, TypeOK, TrapTypeOK
<1>1. \A u \in Threads : pc[u] # "idle" => HeldDirection(TrapOf(u, op[u])) = op[u].rw
  BY <1>0, ShmTypesAssumption DEF HeldDirection, TrapOf, OpType, RW, SHM_READ, SHM_WRITE
<1>2. ASSUME NEW i \in Slots, Races(t, op[t], traps[i], HeldDirection(traps[i]))
      PROVE  /\ traps[i].thread \in Threads /\ IsParked(traps[i].thread)
             /\ Conflict(t, traps[i].thread)
             /\ MsgKey(t, op[t], traps[i], HeldDirection(traps[i]))
                  = ConflictKey(t, traps[i].thread)
  <2>1. traps[i].thread \in Threads
    BY <1>0, <1>2 DEF Races, Trap
  <2>2. IsParked(traps[i].thread)
        /\ traps[i] = TrapOf(traps[i].thread, op[traps[i].thread])
    BY <2>1 DEF TrapsAreLive, Threads, NoThread
  <2>3. HeldDirection(traps[i]) = op[traps[i].thread].rw
    BY <1>1, <2>1, <2>2 DEF IsParked, Parked
  <2> QED BY <1>2, <2>1, <2>2, <2>3 DEF Conflict, ConflictKey
<1>3. ASSUME NEW u \in Threads, IsParked(u), Conflict(t, u)
      PROVE  ConflictKey(t, u) \in find_trap_violations(t, op[t])
  <2>1. PICK i \in Slots : traps[i] = TrapOf(u, op[u])
    BY <1>3 DEF ParkedHaveTraps
  <2>2. HeldDirection(traps[i]) = op[u].rw
    BY <1>1, <1>3, <2>1 DEF IsParked, Parked
  <2>3. Races(t, op[t], traps[i], HeldDirection(traps[i]))
    BY <1>3, <2>1, <2>2 DEF Conflict
  <2> QED BY <2>1, <2>2, <2>3 DEF find_trap_violations, ConflictKey
<1> QED BY <1>2, <1>3 DEF find_trap_violations

\* The strengthening: the race is on record from the moment the second access
\* has passed the check, long before it has a trap of its own.
WindowReported ==
  \A t, u \in Threads :
    InWindow(t) /\ InWindow(u) /\ Conflict(t, u)
      => ConflictKey(t, u) \in logged \/ ConflictKey(u, t) \in logged

LEMMA WindowStep ==
  ASSUME TypeInv, TrapsAreLive, ParkedHaveTraps, WindowReported, Next
  PROVE  WindowReported'
<1>0. /\ pc \in [Threads -> PCs] /\ op \in [Threads -> Ops \cup {NoOp}]
      /\ \A u \in Threads : pc[u] # "idle" => op[u] \in Ops
      /\ MutexInv
  BY DEF TypeInv, TypeOK
<1> USE DEF WindowReported, InWindow, Window, Critical, Parked
<1>1. ASSUME NEW t \in Threads, FindTrapViolations(t)
      PROVE  WindowReported'
  <2>1. /\ pc[t] = "enter" /\ mutex = NoThread /\ op' = op
        /\ pc' = [pc EXCEPT ![t] = "flush"]
        /\ logged' = logged \cup find_trap_violations(t, op[t])
    BY <1>1 DEF FindTrapViolations, Lock, Goto, trap_violation_logger
  <2>2. \A u \in Threads \ {t} : InWindow(u)' => InWindow(u) /\ IsParked(u)
    BY <1>0, <2>1 DEF MutexInv, IsParked, Threads, NoThread
  <2>3. ASSUME NEW u \in Threads \ {t}, InWindow(u)', Conflict(t, u)
        PROVE  ConflictKey(t, u) \in logged'
    BY <2>1, <2>2, <2>3, FoundAreConflicts
  <2>4. \A u \in Threads : ~ Conflict(u, u)
    BY DEF Conflict, Races, TrapOf
  <2>5. \A u \in Threads \ {t} : InWindow(u)' /\ Conflict(u, t) => Conflict(t, u)
    <3>1. \A u \in Threads \ {t} : InWindow(u)' => op[u] \in Ops
      BY <1>0, <2>2
    <3>2. op[t] \in Ops
      BY <1>0, <2>1
    <3> QED BY <3>1, <3>2, ConflictSymmetric
  <2>6. ASSUME NEW u \in Threads, NEW v \in Threads,
               InWindow(u)', InWindow(v)', Conflict(u, v)
        PROVE  ConflictKey(u, v) \in logged' \/ ConflictKey(v, u) \in logged'
    <3>1. CASE u = t
      BY <2>3, <2>4, <2>6, <3>1
    <3>2. CASE v = t
      BY <2>3, <2>4, <2>5, <2>6, <3>2
    <3>3. CASE u # t /\ v # t
      BY <2>1, <2>2, <2>6, <3>3
    <3> QED BY <3>1, <3>2, <3>3
  <2>7. \A u, v \in Threads : /\ Conflict(u, v)' = Conflict(u, v)
                              /\ ConflictKey(u, v)' = ConflictKey(u, v)
    BY <2>1 DEF Conflict, ConflictKey
  <2> QED BY <2>6, <2>7
<1>2. ASSUME NEW t \in Threads, UNCHANGED logged,
             \A u \in Threads \ {t} : pc'[u] = pc[u] /\ op'[u] = op[u],
             pc'[t] \in Window => pc[t] \in Window /\ op'[t] = op[t]
      PROVE  WindowReported'
  <2>1. \A u \in Threads : InWindow(u)' => InWindow(u) /\ op'[u] = op[u]
    BY <1>2
  <2>2. \A u, v \in Threads : InWindow(u)' /\ InWindow(v)' =>
          /\ Conflict(u, v)' => Conflict(u, v)
          /\ ConflictKey(u, v)' = ConflictKey(u, v)
    BY <2>1 DEF Conflict, ConflictKey
  <2> QED BY <1>2, <2>1, <2>2
<1>3. ASSUME NEW t \in Threads, Call(t)
      PROVE  WindowReported'
  <2>1. logged' = logged /\ pc'[t] \notin Window
    BY <1>0, <1>3 DEF Call, Goto, hazardvars
  <2> QED BY <1>2, <1>3, <2>1, OthersStay
<1>4. ASSUME NEW t \in Threads,
             \/ FlushAccessLog(t) \/ FindNearMisses(t) \/ LogAndCopy(t)
             \/ SetTrap(t) \/ AverageDelay(t) \/ ReleaseAndSleep(t) \/ Wake(t)
      PROVE  WindowReported'
  <2>1. UNCHANGED <<logged, op>>
    BY <1>4 DEF FlushAccessLog, FindNearMisses, LogAndCopy, SetTrap,
                AverageDelay, ReleaseAndSleep, Wake, hazardvars
  <2>2. pc[t] \in Window
    BY <1>4 DEF FlushAccessLog, FindNearMisses, LogAndCopy, SetTrap,
                AverageDelay, ReleaseAndSleep, Wake
  <2> QED BY <1>2, <1>4, <2>1, <2>2, OthersStay DEF ShmOpStep
<1>5. ASSUME NEW t \in Threads, ClearTraps(t)
      PROVE  WindowReported'
  <2>1. logged' = logged /\ pc'[t] = "idle"
    BY <1>0, <1>5 DEF ClearTraps, Goto, hazardvars
  <2> QED BY <1>2, <1>5, <2>1, OthersStay DEF ShmOpStep
<1>6. CASE NextRound \/ NextSet
  BY <1>6 DEF NextRound, NextSet, Quiescent
<1>7. CASE PassTime
  <2>1. UNCHANGED <<logged, pc, op>>
    BY <1>7 DEF PassTime, hazardvars
  <2> QED BY <2>1 DEF Conflict, ConflictKey
<1> QED
  BY <1>1, <1>3, <1>4, <1>5, <1>6, <1>7 DEF Next, ShmOpStep

DetectionInv == TrapsAreLive /\ ParkedHaveTraps /\ WindowReported

LEMMA DetectionInvariant ==
  ASSUME EnoughSlots
  PROVE  Spec => [](TypeInv /\ DetectionInv)
<1>1. Init => DetectionInv
  BY InitTraps DEF Init, DetectionInv, ParkedHaveTraps, WindowReported,
     IsParked, InWindow, Parked, Window, Critical
<1>2. TypeInv /\ DetectionInv /\ [Next]_vars => DetectionInv'
  <2>1. UNCHANGED vars /\ DetectionInv => DetectionInv'
    BY DEF vars, DetectionInv, TrapsAreLive, ParkedHaveTraps, WindowReported,
           IsParked, InWindow, Conflict, ConflictKey
  <2> QED BY <2>1, TrapsStep, ParkedStep, WindowStep DEF DetectionInv
<1> QED BY <1>1, <1>2, TypeInvariant, PTL DEF Spec

\* As long as every thread finds a slot, no race of two accesses that are open
\* at the same time goes unreported.
THEOREM RacesReported ==
  ASSUME EnoughSlots
  PROVE  Spec => []ConcurrentConflictsReported
<1>1. DetectionInv => ConcurrentConflictsReported
  BY DEF DetectionInv, WindowReported, ConcurrentConflictsReported, IsParked,
         InWindow, Window
<1> QED BY <1>1, DetectionInvariant, PTL

-----------------------------------------------------------------------------
(* Every report is a race, whether or not there are slots for all. *)

LEMMA OnlyChecksReport ==
  ASSUME [Next]_vars, NEW k \in logged' \ logged
  PROVE  \E t \in Threads :
           FindTrapViolations(t) /\ k \in find_trap_violations(t, op[t])
BY DEF Next, vars, ShmOpStep, Call, FindTrapViolations, FlushAccessLog,
   FindNearMisses, LogAndCopy, SetTrap, AverageDelay, ReleaseAndSleep, Wake,
   ClearTraps, NextRound, NextSet, PassTime, hazardvars, trap_violation_logger,
   clearall_loghashes

LEMMA ReportStep ==
  ASSUME TypeInv, TrapsAreLive, [Next]_vars, NEW k \in logged' \ logged
  PROVE  /\ IsParked(k.with) /\ op[k.with].info = k.held
         /\ op[k.by].info = k.site
         /\ k.by # k.with
         /\ SHM_WRITE \in {op[k.by].rw, op[k.with].rw}
         /\ ShareAByte(TrapOf(k.with, op[k.with]),
                       op[k.by].offset, op[k.by].size)
<1>1. PICK t \in Threads :
        FindTrapViolations(t) /\ k \in find_trap_violations(t, op[t])
  BY OnlyChecksReport
<1>2. PICK i \in Slots :
        /\ Races(t, op[t], traps[i], HeldDirection(traps[i]))
        /\ k = MsgKey(t, op[t], traps[i], HeldDirection(traps[i]))
  BY <1>1 DEF find_trap_violations
<1> DEFINE u == traps[i].thread
<1>3. /\ k.by = t /\ k.with = u
      /\ k.site = op[t].info /\ k.held = traps[i].info
  BY <1>2 DEF MsgKey
<1>4. u \in Threads /\ u # t
  BY <1>2 DEF TypeInv, TypeOK, TrapTypeOK, Trap, Races
<1>5. IsParked(u) /\ traps[i] = TrapOf(u, op[u])
  BY <1>4 DEF TrapsAreLive, Threads, NoThread
<1>6. /\ op[t] \in Ops /\ IsValid(op[t]) /\ op[u] \in Ops /\ IsValid(op[u])
  BY <1>1, <1>4, <1>5 DEF TypeInv, TypeOK, FindTrapViolations, IsParked, Parked
<1>7. /\ op[t].offset \in Nat /\ op[t].size \in Nat \ {0} /\ op[t].rw \in RW
      /\ op[u].offset \in Nat /\ op[u].size \in Nat \ {0} /\ op[u].rw \in RW
  BY <1>6, ShmTypesAssumption DEF OpType, IsValid
<1>8. isWithinOffset(traps[i], op[t].offset, op[t].size)
      /\ RaceViolation(HeldDirection(traps[i]), op[t].rw) # NoRace
  BY <1>2 DEF Races
<1>9. SHM_WRITE \in {op[t].rw, op[u].rw}
  <2>1. HeldDirection(traps[i]) = op[u].rw
    BY <1>5, <1>7 DEF HeldDirection, TrapOf, RW, SHM_READ, SHM_WRITE
  <2> QED BY <1>7, <1>8, <2>1 DEF RaceViolation, NoRace, RW, SHM_READ, SHM_WRITE
<1>10. ShareAByte(TrapOf(u, op[u]), op[t].offset, op[t].size)
  <2>1. /\ traps[i].lo = op[u].offset
        /\ traps[i].hi = op[u].offset + op[u].size - 1
    BY <1>5 DEF TrapOf, LowOffset, HighOffset
  <2>2. traps[i].lo \in Nat /\ traps[i].hi \in Nat /\ traps[i].lo <= traps[i].hi
    BY <1>7, <2>1
  <2> QED BY <1>5, <1>7, <1>8, <2>2, OverlapCorrect
<1>11. traps[i].info = op[u].info
  BY <1>5 DEF TrapOf
<1> QED BY <1>3, <1>4, <1>5, <1>9, <1>10, <1>11

\* A TRAP line names two threads that are inside shm_op with those accesses at
\* that moment, on a common byte, one of them writing.
THEOREM ReportsSound == Spec => ReportsAreRealRaces
<1>1. TypeInv /\ TrapsAreLive /\ [Next]_vars =>
        [\A k \in logged' \ logged :
           /\ IsParked(k.with) /\ op[k.with].info = k.held
           /\ op[k.by].info = k.site
           /\ k.by # k.with
           /\ SHM_WRITE \in {op[k.by].rw, op[k.with].rw}
           /\ ShareAByte(TrapOf(k.with, op[k.with]),
                         op[k.by].offset, op[k.by].size)]_vars
  BY ReportStep
<1> QED BY <1>1, TypeInvariant, TrapsLive, PTL DEF Spec, ReportsAreRealRaces

-----------------------------------------------------------------------------
(* shmlib implements the race monitor. *)

OpenNow == [t \in Threads |-> IF InWindow(t) THEN op[t] ELSE NoOp]

\* Both specifications speak of the same threads, overlaps and keys.
LEMMA MonitorTerms ==
  /\ Monitor!Threads = Threads
  /\ \A o : Monitor!IsValid(o) <=> IsValid(o)
  /\ \A t, o, e, held : Monitor!Races(t, o, e, held) <=> Races(t, o, e, held)
  /\ \A t, o, e, held : Monitor!MsgKey(t, o, e, held) = MsgKey(t, o, e, held)
BY DEF Monitor!Threads, Threads, Monitor!IsValid, IsValid, Monitor!Races, Races,
   Monitor!MsgKey, MsgKey, Monitor!RaceViolation, RaceViolation,
   Monitor!isWithinOffset, isWithinOffset, Monitor!NoThread, NoThread,
   Monitor!NoRace, NoRace, Monitor!SHM_READ, SHM_READ, Monitor!SHM_WRITE,
   SHM_WRITE

\* The check against the traps opens the access and reports its races.
LEMMA CheckOpens ==
  ASSUME TypeInv, DetectionInv, NEW t \in Threads, FindTrapViolations(t)
  PROVE  Monitor!Open(t, op[t])
<1>0. /\ pc \in [Threads -> PCs] /\ op \in [Threads -> Ops \cup {NoOp}]
      /\ \A u \in Threads : pc[u] # "idle" => op[u] \in Ops /\ IsValid(op[u])
      /\ MutexInv
  BY DEF TypeInv, TypeOK
<1>1. /\ pc[t] = "enter" /\ mutex = NoThread /\ op' = op
      /\ pc' = [pc EXCEPT ![t] = "flush"]
      /\ logged' = logged \cup find_trap_violations(t, op[t])
  BY DEF FindTrapViolations, Lock, Goto, trap_violation_logger
<1>2. \A u \in Threads : InWindow(u) <=> IsParked(u)
  BY <1>0, <1>1 DEF MutexInv, InWindow, IsParked, Window, Threads, NoThread
<1>3. ~ InWindow(t) /\ InWindow(t)'
      /\ \A u \in Threads \ {t} : InWindow(u)' = InWindow(u)
  BY <1>0, <1>1 DEF InWindow, Window, Critical, Parked
<1>4. \A u \in Threads : InWindow(u) => op[u] # NoOp
  BY <1>0 DEF InWindow, Window, Critical, Parked, IsValid, NoOp
<1>5. OpenNow' = [OpenNow EXCEPT ![t] = op[t]]
  BY <1>1, <1>3 DEF OpenNow
<1>6. find_trap_violations(t, op[t]) = Monitor!RacesOf(t, op[t])
  <2>1. \A u \in Threads : Monitor!IsOpen(u) <=> IsParked(u)
    BY <1>2, <1>4 DEF Monitor!IsOpen
  <2>2. \A u \in Threads : IsParked(u) => OpenNow[u] = op[u]
    BY <1>2 DEF OpenNow
  <2>3. \A u \in Threads : IsParked(u) =>
          /\ Races(t, op[t], Monitor!HeldBy(u), OpenNow[u].rw) <=> Conflict(t, u)
          /\ MsgKey(t, op[t], Monitor!HeldBy(u), OpenNow[u].rw) = ConflictKey(t, u)
    BY <2>2 DEF Monitor!HeldBy, Monitor!LowOffset, LowOffset,
       Monitor!HighOffset, HighOffset, Conflict, ConflictKey, Races, MsgKey,
       TrapOf, isWithinOffset, OpenNow
  <2>4. Monitor!RacesOf(t, op[t]) =
          { MsgKey(t, op[t], Monitor!HeldBy(u), OpenNow[u].rw) :
              u \in { v \in Threads :
                        /\ Monitor!IsOpen(v)
                        /\ Races(t, op[t], Monitor!HeldBy(v), OpenNow[v].rw) } }
    BY MonitorTerms DEF Monitor!RacesOf, OpenNow
  <2> HIDE DEF OpenNow
  <2> QED BY <2>1, <2>3, <2>4, FoundAreConflicts DEF DetectionInv
<1>7. ~ Monitor!IsOpen(t) /\ IsValid(op[t])
  BY <1>0, <1>1, <1>3 DEF Monitor!IsOpen
<1> QED BY <1>1, <1>5, <1>6, <1>7, MonitorTerms DEF Monitor!Open, OpenNow

LEMMA ClearCloses ==
  ASSUME TypeInv, NEW t \in Threads, ClearTraps(t)
  PROVE  Monitor!Close(t)
<1>0. /\ pc \in [Threads -> PCs] /\ op \in [Threads -> Ops \cup {NoOp}]
      /\ IsValid(op[t]) /\ pc[t] = "leave"
  BY DEF TypeInv, TypeOK, ClearTraps
<1>1. /\ pc' = [pc EXCEPT ![t] = "idle"] /\ op' = [op EXCEPT ![t] = NoOp]
      /\ logged' = logged
  BY DEF ClearTraps, Goto, hazardvars
<1>2. InWindow(t) /\ ~ InWindow(t)'
      /\ \A u \in Threads \ {t} : InWindow(u)' = InWindow(u) /\ op'[u] = op[u]
  BY <1>0, <1>1 DEF InWindow, Window, Critical, Parked
<1>3. Monitor!IsOpen(t)
  BY <1>0, <1>2 DEF Monitor!IsOpen, IsValid, NoOp
<1>4. OpenNow' = [OpenNow EXCEPT ![t] = NoOp]
  BY <1>2 DEF OpenNow
<1> QED BY <1>1, <1>3, <1>4 DEF Monitor!Close, OpenNow

\* Every other step of a call leaves the monitor where it is.
LEMMA OthersStutter ==
  ASSUME TypeInv, Next, logged' = logged,
         NEW t \in Threads,
         \A u \in Threads \ {t} : pc'[u] = pc[u] /\ op'[u] = op[u],
         InWindow(t)' <=> InWindow(t),
         InWindow(t) => op'[t] = op[t]
  PROVE  UNCHANGED Monitor!vars
<1>1. \A u \in Threads : InWindow(u)' = InWindow(u)
                         /\ (InWindow(u) => op'[u] = op[u])
  BY DEF InWindow
<1>2. OpenNow' = OpenNow
  BY <1>1 DEF OpenNow
<1> QED BY <1>2 DEF Monitor!vars, OpenNow

LEMMA MonitorStep ==
  ASSUME TypeInv, DetectionInv, Next
  PROVE  [Monitor!Next]_Monitor!vars
<1>0. /\ pc \in [Threads -> PCs] /\ op \in [Threads -> Ops \cup {NoOp}]
      /\ \A u \in Threads : pc[u] # "idle" => op[u] \in Ops
  BY DEF TypeInv, TypeOK
<1>1. ASSUME NEW t \in Threads, Call(t)
      PROVE  UNCHANGED Monitor!vars
  <2>1. logged' = logged /\ ~ InWindow(t) /\ ~ InWindow(t)'
    BY <1>0, <1>1 DEF Call, Goto, hazardvars, InWindow, Window, Critical, Parked
  <2> QED BY <1>1, <2>1, OthersStay, OthersStutter DEF Next
<1>2. ASSUME NEW t \in Threads, FindTrapViolations(t)
      PROVE  Monitor!Next
  <2>1. op[t] \in Ops
    BY <1>0, <1>2 DEF FindTrapViolations
  <2>2. Monitor!Open(t, op[t])
    BY <1>2, CheckOpens
  <2>3. t \in Monitor!Threads
    BY MonitorTerms
  <2>4. \E u \in Monitor!Threads, o \in Ops : Monitor!Open(u, o)
    BY <2>1, <2>2, <2>3 DEF Monitor!Open
  <2> QED BY <2>4 DEF Monitor!Next
<1>3. ASSUME NEW t \in Threads,
             \/ FlushAccessLog(t) \/ FindNearMisses(t) \/ LogAndCopy(t)
             \/ SetTrap(t) \/ AverageDelay(t) \/ ReleaseAndSleep(t) \/ Wake(t)
      PROVE  UNCHANGED Monitor!vars
  <2>1. UNCHANGED <<logged, op>>
    BY <1>3 DEF FlushAccessLog, FindNearMisses, LogAndCopy, SetTrap,
                AverageDelay, ReleaseAndSleep, Wake, hazardvars
  <2>2. InWindow(t) /\ InWindow(t)'
    BY <1>0, <1>3 DEF FlushAccessLog, FindNearMisses, LogAndCopy, SetTrap,
       AverageDelay, ReleaseAndSleep, Wake, Goto, InWindow, Window, Critical,
       Parked
  <2> QED BY <1>3, <2>1, <2>2, OthersStay, OthersStutter DEF ShmOpStep
<1>4. ASSUME NEW t \in Threads, ClearTraps(t)
      PROVE  Monitor!Next
  BY <1>4, ClearCloses, MonitorTerms DEF Monitor!Next
<1>5. CASE NextRound \/ PassTime
  <2>1. UNCHANGED <<logged, pc, op>>
    BY <1>5 DEF NextRound, PassTime, hazardvars
  <2> QED BY <2>1 DEF Monitor!vars, InWindow
<1>6. CASE NextSet
  <2>1. UNCHANGED <<pc, op>> /\ logged' = {} /\ \A u \in Threads : ~ InWindow(u)
    BY <1>6 DEF NextSet, Quiescent, clearall_loghashes, InWindow, Window,
                Critical, Parked
  <2>2. \A u \in Threads : ~ Monitor!IsOpen(u)
    BY <2>1 DEF Monitor!IsOpen
  <2> QED BY <2>1, <2>2, MonitorTerms DEF Monitor!Next, Monitor!Forget, InWindow
<1> QED
  BY <1>1, <1>2, <1>3, <1>4, <1>5, <1>6 DEF Next, ShmOpStep

\* With a slot for every thread, the traps, the lock and the log are an
\* implementation of the monitor: reports happen in the instant an access
\* opens, against exactly the accesses open then.
THEOREM MonitorImplemented ==
  ASSUME EnoughSlots
  PROVE  Spec => ImplementsMonitor
<1>1. Init => Monitor!Init
  BY MonitorTerms
     DEF Init, HazardInit, Monitor!Init, InWindow, Window, Critical, Parked
<1>2. TypeInv /\ DetectionInv /\ [Next]_vars => [Monitor!Next]_Monitor!vars
  <2>1. UNCHANGED vars => UNCHANGED Monitor!vars
    BY DEF vars, Monitor!vars, InWindow
  <2> QED BY <2>1, MonitorStep
<1> QED
  BY <1>1, <1>2, DetectionInvariant, PTL DEF Spec, ImplementsMonitor, Monitor!Spec

-----------------------------------------------------------------------------
(* What is learned from near misses. *)

\* A caught race is out of the near-miss table for good: find_near_misses asks
\* logged_hazards first, and trap_violation_logger deletes what was there.
THEOREM CaughtRacesForgotten == Spec => []ReportedIsNoNearMiss
<1> USE DEF ReportedIsNoNearMiss
<1>1. Init => ReportedIsNoNearMiss
  BY DEF Init, HazardInit
<1>2. ReportedIsNoNearMiss /\ [Next]_vars => ReportedIsNoNearMiss'
  <2> SUFFICES ASSUME ReportedIsNoNearMiss, [Next]_vars
               PROVE  ReportedIsNoNearMiss'
    OBVIOUS
  <2>1. ASSUME NEW t \in Threads, FindTrapViolations(t)
        PROVE  ReportedIsNoNearMiss'
    <3>1. /\ logged' = logged \cup find_trap_violations(t, op[t])
          /\ DOMAIN nm' = DOMAIN nm \ (find_trap_violations(t, op[t]) \ logged)
      BY <2>1 DEF FindTrapViolations, trap_violation_logger
    <3> QED BY <3>1
  <2>2. ASSUME NEW t \in Threads, FindNearMisses(t)
        PROVE  ReportedIsNoNearMiss'
    BY <2>2 DEF FindNearMisses, nm_violation_logger, add_nm_hazard
  <2>3. ASSUME NEW t \in Threads, AverageDelay(t)
        PROVE  ReportedIsNoNearMiss'
    BY <2>3 DEF AverageDelay, decay
  <2>4. CASE NextRound
    BY <2>4 DEF NextRound, reset_nm_decays
  <2>5. CASE NextSet
    BY <2>5 DEF NextSet, clearall_loghashes
  <2>6. CASE UNCHANGED hazardvars
    BY <2>6 DEF hazardvars
  <2> QED
    BY <2>1, <2>2, <2>3, <2>4, <2>5, <2>6 DEF Next, ShmOpStep, Call,
       FlushAccessLog, LogAndCopy, SetTrap, ReleaseAndSleep, Wake, ClearTraps,
       PassTime, vars, hazardvars
<1> QED BY <1>1, <1>2, PTL DEF Spec

-----------------------------------------------------------------------------
\* The log is in the order of the clock, so the flush misses no stale entry by
\* stopping at the first one it meets from above.
THEOREM LogInOrder == Spec => []LogChronological
<1> USE DEF LogChronological
<1>1. Init => LogChronological
  BY DEF Init, LogInit
<1>2. TypeInv /\ LogChronological /\ [Next]_vars => LogChronological'
  <2> SUFFICES ASSUME TypeInv, LogChronological, [Next]_vars
               PROVE  LogChronological'
    OBVIOUS
  <2>0. LogTypeOK /\ LogTimes
    BY TypeInvParts
  <2> USE <2>0, AccessLogAssumption DEF LogTypeOK, LogTimes
  <2>1. ASSUME NEW t \in Threads, FlushAccessLog(t)
        PROVE  LogChronological'
    <3>1. CASE idx' = 0
      BY <3>1
    <3>2. CASE UNCHANGED <<clock, logvars>>
      BY <3>2 DEF logvars
    <3> QED BY <2>1, <3>1, <3>2 DEF FlushAccessLog, flush_access_log
  <2>2. ASSUME NEW t \in Threads, LogAndCopy(t)
        PROVE  LogChronological'
    <3>0. clock' = clock /\ log_access(t, op[t])
      BY <2>2 DEF LogAndCopy
    <3>1. CASE UNCHANGED logvars
      BY <3>0, <3>1 DEF logvars
    <3>2. CASE /\ idx < MAX_ACCESS_LOG_ENTRIES
               /\ shm_access_log' = [shm_access_log EXCEPT
                                       ![idx] = AccessEntry(t, op[t])]
               /\ idx' = idx + 1
      <4>1. idx \in LogIndex /\ \A i \in 0 .. idx : i \in LogIndex
        BY <3>2 DEF LogIndex
      <4>2. shm_access_log'[idx].time = clock
        BY <3>2, <4>1 DEF AccessEntry
      <4>3. \A i \in 0 .. idx - 1 : shm_access_log'[i] = shm_access_log[i]
        BY <3>2, <4>1
      <4> QED BY <3>0, <3>2, <4>1, <4>2, <4>3 DEF Entry
    <3> QED BY <3>0, <3>1, <3>2 DEF log_access
  <2>3. CASE NextSet
    BY <2>3 DEF NextSet, reset_access_log
  <2>4. CASE PassTime
    <3>1. UNCHANGED logvars /\ clock' = clock + 1
      BY <2>4 DEF PassTime, Tick
    <3>2. \A i \in 0 .. idx - 1 : shm_access_log[i].time \in Nat
      BY DEF LogIndex, Entry
    <3> QED BY <3>1, <3>2 DEF logvars
  <2>5. CASE UNCHANGED <<clock, logvars>>
    BY <2>5 DEF logvars
  <2> QED
    BY <2>1, <2>2, <2>3, <2>4, <2>5 DEF Next, ShmOpStep, Call,
       FindTrapViolations, FindNearMisses, SetTrap, AverageDelay,
       ReleaseAndSleep, Wake, ClearTraps, NextRound, vars, logvars
<1> QED BY <1>1, <1>2, TypeInvariant, PTL DEF Spec

-----------------------------------------------------------------------------
(* The delay of a trap. *)

\* avg_delay and nm_count start at 0, and as soon as a near miss has been
\* counted avg_delay is no longer than the longest of them.
MeanOf(t) ==
  /\ pc[t] \notin Parked => frame[t].hits = 0 /\ frame[t].mean = 0
  /\ pc[t] = "delay" => frame[t].todo \subseteq NearMissesAt(t, op[t])
  /\ pc[t] = "delay" /\ frame[t].hits = 0 => frame[t].mean = 0
  /\ pc[t] = "delay" /\ frame[t].hits > 0 =>
       \E k \in NearMissesAt(t, op[t]) : frame[t].mean <= nm[k].avg

MeanInv == \A t \in Threads : MeanOf(t)

\* While a thread averages, it holds the lock and nobody else is at the table.
LEMMA AveragingAlone ==
  ASSUME TypeInv, NEW t \in Threads, pc[t] = "delay",
         NEW u \in Threads \ {t}, ShmOpStep(u) \/ Call(u)
  PROVE  nm' = nm
<1>1. mutex = t /\ pc[u] \notin Critical
  BY DEF TypeInv, MutexInv, Critical
<1> QED BY <1>1 DEF ShmOpStep, Call, FindTrapViolations, FlushAccessLog,
           FindNearMisses, LogAndCopy, SetTrap, AverageDelay, ReleaseAndSleep,
           Wake, ClearTraps, Lock, Critical, Threads, NoThread, hazardvars

\* One round of the average, for the thread that computes it.
LEMMA AverageStep ==
  ASSUME TypeInv, MeanInv, NEW t \in Threads, AverageDelay(t)
  PROVE  /\ frame'[t].hits > 0
         /\ frame'[t].todo \subseteq frame[t].todo
         /\ \E k \in NearMissesAt(t, op[t]) : frame'[t].mean <= nm[k].avg
<1>0. /\ pc[t] = "delay" /\ frame[t].todo \subseteq NearMissesAt(t, op[t])
      /\ frame \in [Threads -> Frame] /\ HazardTypeOK
  BY DEF AverageDelay, MeanInv, MeanOf, TypeInv, TypeOK
<1>1. PICK k \in frame[t].todo :
        frame' = [frame EXCEPT
            ![t] = [scan |-> @.scan,
                    mean |-> MeanStep(@.mean, DecayedDelay(k), @.hits),
                    hits |-> @.hits + 1,
                    todo |-> @.todo \ {k}]]
  BY DEF AverageDelay
<1>2. k \in NearMissesAt(t, op[t]) /\ nm[k].avg \in Nat
      /\ nm[k].divisor \in Nat \ {0}
  BY <1>0, <1>1 DEF HazardTypeOK, NMHazard, NearMissesAt
<1>3. DecayedDelay(k) \in Nat /\ DecayedDelay(k) <= nm[k].avg
  BY <1>2, DivBound DEF DecayedDelay
<1>4. frame[t].mean \in Nat /\ frame[t].hits \in Nat
  BY <1>0 DEF Frame
<1> DEFINE m == MeanStep(frame[t].mean, DecayedDelay(k), frame[t].hits)
<1>5. m \in Nat /\ (m <= DecayedDelay(k) \/ m <= frame[t].mean)
  BY <1>3, <1>4, MeanStepBetween
<1>6. /\ frame'[t].mean = m /\ frame'[t].hits = frame[t].hits + 1
      /\ frame'[t].todo = frame[t].todo \ {k}
  BY <1>0, <1>1
<1>7. \E j \in NearMissesAt(t, op[t]) : m <= nm[j].avg
  <2>1. CASE m <= DecayedDelay(k)
    BY <1>2, <1>3, <1>5, <2>1
  <2>2. CASE m <= frame[t].mean /\ frame[t].hits > 0
    <3>1. PICK j \in NearMissesAt(t, op[t]) : frame[t].mean <= nm[j].avg
      BY <1>0, <2>2 DEF MeanInv, MeanOf
    <3>2. nm[j].avg \in Nat
      BY <1>0 DEF HazardTypeOK, NMHazard, NearMissesAt
    <3> QED BY <1>4, <1>5, <2>2, <3>1, <3>2
  <2>3. CASE m <= frame[t].mean /\ frame[t].hits = 0
    <3>1. frame[t].mean = 0
      BY <1>0, <2>3 DEF MeanInv, MeanOf
    <3> QED BY <1>2, <1>5, <2>3, <3>1
  <2> QED BY <1>4, <1>5, <2>1, <2>2, <2>3
<1> QED BY <1>4, <1>6, <1>7

LEMMA MeanStepOfOthers ==
  ASSUME TypeInv, MeanInv, NEW u \in Threads, Call(u) \/ ShmOpStep(u),
         NEW t \in Threads \ {u}
  PROVE  MeanOf(t)'
<1>1. pc'[t] = pc[t] /\ op'[t] = op[t] /\ frame'[t] = frame[t]
  BY OthersStay
<1>2. MeanOf(t)
  BY DEF MeanInv
<1>3. CASE pc[t] = "delay"
  <2>1. nm' = nm
    BY <1>3, AveragingAlone
  <2> QED BY <1>1, <1>2, <2>1 DEF MeanOf, NearMissesAt
<1>4. CASE pc[t] # "delay"
  BY <1>1, <1>2, <1>4 DEF MeanOf
<1> QED BY <1>3, <1>4

LEMMA MeanStepOfOwn ==
  ASSUME TypeInv, MeanInv, NEW t \in Threads, Call(t) \/ ShmOpStep(t)
  PROVE  MeanOf(t)'
<1>0. /\ pc \in [Threads -> PCs] /\ frame \in [Threads -> Frame]
      /\ MeanOf(t)
  BY DEF TypeInv, TypeOK, MeanInv
<1> USE <1>0 DEF Parked
<1>1. CASE \/ Call(t) \/ FindTrapViolations(t) \/ FlushAccessLog(t)
           \/ LogAndCopy(t)
  <2>1. frame' = frame /\ pc[t] \notin Parked /\ pc'[t] \notin Parked
    BY <1>1 DEF Call, FindTrapViolations, FlushAccessLog, LogAndCopy, Goto
  <2> QED BY <2>1 DEF MeanOf
<1>2. CASE FindNearMisses(t)
  <2>1. pc[t] \notin Parked /\ pc'[t] \notin Parked
    BY <1>2 DEF FindNearMisses, Goto
  <2>2. \E n : frame'[t] = [frame[t] EXCEPT !.scan = n]
    BY <1>2 DEF FindNearMisses
  <2>3. frame'[t].hits = frame[t].hits /\ frame'[t].mean = frame[t].mean
    BY <2>2 DEF Frame
  <2> QED BY <2>1, <2>3 DEF MeanOf
<1>3. CASE SetTrap(t)
  <2>1. pc[t] \notin Parked /\ op' = op /\ nm' = nm
    BY <1>3 DEF SetTrap, hazardvars
  <2>2. CASE /\ frame' = [frame EXCEPT ![t].todo = NearMissesAt(t, op[t])]
             /\ pc' = [pc EXCEPT ![t] = "delay"]
    <3>1. /\ frame'[t].hits = 0 /\ frame'[t].mean = 0
          /\ frame'[t].todo = NearMissesAt(t, op[t])
      BY <2>1, <2>2 DEF MeanOf, Frame
    <3> QED BY <2>1, <2>2, <3>1 DEF MeanOf, NearMissesAt
  <2>3. CASE frame' = frame /\ pc' = [pc EXCEPT ![t] = "leave"]
    BY <2>3 DEF MeanOf
  <2> QED BY <1>3, <2>2, <2>3 DEF SetTrap, Goto
<1>4. CASE AverageDelay(t)
  <2>1. pc' = pc /\ op' = op /\ pc[t] = "delay"
    BY <1>4 DEF AverageDelay
  <2>2. \A k \in DOMAIN nm : k \in DOMAIN nm' /\ nm'[k].avg = nm[k].avg
    <3>1. PICK j \in frame[t].todo : decay(j)
      BY <1>4 DEF AverageDelay
    <3>2. HazardTypeOK
      BY DEF TypeInv, TypeOK
    <3> QED BY <3>1, <3>2 DEF decay, HazardTypeOK, NMHazard
  <2>3. DOMAIN nm' = DOMAIN nm
    BY <1>4 DEF AverageDelay, decay
  <2>4. NearMissesAt(t, op[t])' = NearMissesAt(t, op[t])
    BY <2>1, <2>3 DEF NearMissesAt
  <2>5. /\ frame'[t].hits > 0 /\ frame'[t].hits # 0
        /\ frame'[t].todo \subseteq frame[t].todo
        /\ \E k \in NearMissesAt(t, op[t]) : frame'[t].mean <= nm[k].avg
    BY <1>4, AverageStep
  <2>6. \E k \in NearMissesAt(t, op[t]) : frame'[t].mean <= nm'[k].avg
    BY <2>2, <2>5 DEF NearMissesAt
  <2>7. frame'[t].todo \subseteq NearMissesAt(t, op[t])
    BY <2>1, <2>5 DEF MeanOf
  <2> HIDE DEF NearMissesAt
  <2> QED BY <2>1, <2>4, <2>5, <2>6, <2>7 DEF MeanOf
<1>5. CASE ReleaseAndSleep(t) \/ Wake(t)
  <2>1. pc'[t] \in {"sleep", "leave"}
    BY <1>5 DEF ReleaseAndSleep, Wake, Goto
  <2> QED BY <2>1 DEF MeanOf
<1>6. CASE ClearTraps(t)
  BY <1>6 DEF ClearTraps, Goto, NoFrame, MeanOf
<1> QED BY <1>1, <1>2, <1>3, <1>4, <1>5, <1>6 DEF ShmOpStep

LEMMA MeanInvariant == Spec => []MeanInv
<1>1. Init => MeanInv
  BY DEF Init, MeanInv, MeanOf, NoFrame, Parked
<1>2. TypeInv /\ MeanInv /\ [Next]_vars => MeanInv'
  <2> SUFFICES ASSUME TypeInv, MeanInv, [Next]_vars PROVE MeanInv'
    OBVIOUS
  <2>1. ASSUME NEW u \in Threads, Call(u) \/ ShmOpStep(u)
        PROVE  MeanInv'
    BY <2>1, MeanStepOfOthers, MeanStepOfOwn DEF MeanInv
  <2>2. CASE NextRound \/ NextSet
    <3>1. UNCHANGED <<pc, frame>> /\ \A t \in Threads : pc[t] = "idle"
      BY <2>2 DEF NextRound, NextSet, Quiescent
    <3> QED BY <3>1 DEF MeanInv, MeanOf, Parked
  <2>3. CASE UNCHANGED <<pc, op, frame, nm>>
    BY <2>3 DEF MeanInv, MeanOf, NearMissesAt
  <2> QED BY <2>1, <2>2, <2>3 DEF Next, PassTime, vars, hazardvars
<1> QED BY <1>1, <1>2, TypeInvariant, PTL DEF Spec

\* The delay a trap gets from the near misses at its site is within the longest
\* of them: averaging with C's division and decaying never lengthen it.
THEOREM DelaysBounded == Spec => []DelayWithinNearMisses
<1>1. MeanInv => DelayWithinNearMisses
  BY DEF MeanInv, MeanOf, DelayWithinNearMisses
<1> QED BY <1>1, MeanInvariant, PTL

=============================================================================
