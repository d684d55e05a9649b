----------------------------- MODULE AccessLog ------------------------------
(***************************************************************************)
(* The log of recent accesses: the array shm_access_log, its fill index    *)
(* shm_access_log_idx, and the wall clock both are compared with.          *)
(*                                                                         *)
(* Every SHM_OP first flushes the log (entries older than                  *)
(* NEAR_MISS_THRESHOLD are to go), then scans it for near misses, then     *)
(* appends its own entry.  Seconds and microseconds are one tick count:    *)
(* the code's 64-bit difference of the pair is the difference of the two   *)
(* times.  The clock only moves forward here.                              *)
(***************************************************************************)
EXTENDS ShmTypes

CONSTANTS
  MAX_ACCESS_LOG_ENTRIES,  \* length of the array
  NEAR_MISS_THRESHOLD,     \* age, in ticks, beyond which an entry is stale
  StartTime,               \* the clock when the program starts
  MaxTime                  \* bound of the model on the clock

VARIABLES
  clock,           \* what gettimeofday returns
  shm_access_log,  \* the whole array, cells past the index included
  idx              \* shm_access_log_idx

ASSUME AccessLogAssumption ==
  /\ MAX_ACCESS_LOG_ENTRIES \in Nat \ {0}
  /\ NEAR_MISS_THRESHOLD \in Nat
  /\ StartTime \in Nat /\ StartTime > NEAR_MISS_THRESHOLD
  /\ MaxTime \in Nat

logvars == <<shm_access_log, idx>>

LogIndex == 0 .. MAX_ACCESS_LOG_ENTRIES - 1

Entry == [thread: Threads \cup {NoThread}, rw: RW \cup TrapTypes,
          lo: Int, hi: Int, info: Sites \cup {NoSite}, time: Nat]

ZeroEntry == [thread |-> NoThread, rw |-> SHM_READ, lo |-> 0, hi |-> 0,
              info |-> NoSite, time |-> 0]

LogTypeOK ==
  /\ clock \in Nat
  /\ shm_access_log \in [LogIndex -> Entry]
  /\ idx \in 0 .. MAX_ACCESS_LOG_ENTRIES

Age(e) == clock - e.time
IsStale(e) == NEAR_MISS_THRESHOLD < Age(e)

-----------------------------------------------------------------------------
LogInit ==
  /\ clock = StartTime
  /\ shm_access_log = [i \in LogIndex |-> ZeroEntry]
  /\ idx = 0

AccessEntry(t, o) ==
  [thread |-> t, rw |-> o.rw, lo |-> LowOffset(o), hi |-> HighOffset(o),
   info |-> o.info, time |-> clock]

log_access_OneTooMany(t, o) ==
  IF idx <= MAX_ACCESS_LOG_ENTRIES
  THEN /\ shm_access_log' = [shm_access_log EXCEPT ![idx] = AccessEntry(t, o)]
       /\ idx' = idx + 1
  ELSE UNCHANGED logvars

\* An access that finds the log full is dropped ("Could Not Log Access").
log_access(t, o) ==
  IF idx < MAX_ACCESS_LOG_ENTRIES
  THEN /\ shm_access_log' = [shm_access_log EXCEPT ![idx] = AccessEntry(t, o)]
       /\ idx' = idx + 1
  ELSE UNCHANGED logvars

flush_access_log_KeepIndex ==
  \/ /\ \A i \in 0 .. idx - 1 : ~ IsStale(shm_access_log[i])
     /\ UNCHANGED logvars
  \/ \E newest \in 0 .. idx - 1 :
       /\ IsStale(shm_access_log[newest])
       /\ \A i \in newest + 1 .. idx - 1 : ~ IsStale(shm_access_log[i])
       /\ shm_access_log' =
            [j \in LogIndex |-> IF j < idx - 1 - newest
                                THEN shm_access_log[newest + 1 + j]
                                ELSE shm_access_log[j]]
       /\ UNCHANGED idx

\* The scan runs from the newest entry down and stops at the first stale one.
\* The entries above it are copied to the front of the array and the index
\* goes back to 0, whether or not there were such survivors.  The cells beyond
\* the survivors keep their old contents.  The memcpy overlaps itself when the
\* survivors outnumber the rest; as in the C library's, the copy runs forward.
flush_access_log ==
  \/ /\ \A i \in 0 .. idx - 1 : ~ IsStale(shm_access_log[i])
     /\ UNCHANGED logvars
  \/ \E newest \in 0 .. idx - 1 :
       /\ IsStale(shm_access_log[newest])
       /\ \A i \in newest + 1 .. idx - 1 : ~ IsStale(shm_access_log[i])
       /\ shm_access_log' =
            [j \in LogIndex |-> IF j < idx - 1 - newest
                                THEN shm_access_log[newest + 1 + j]
                                ELSE shm_access_log[j]]
       /\ idx' = 0

reset_access_log ==
  /\ shm_access_log' = [i \in LogIndex |-> ZeroEntry]
  /\ idx' = 0

Tick ==
  /\ clock < MaxTime
  /\ clock' = clock + 1

=============================================================================
