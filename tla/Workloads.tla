------------------------------ MODULE Workloads ------------------------------
(***************************************************************************)
(* The routines of shm_racer, as clients of shm_op: what they compute, the *)
(* locks and the semaphore they use, and what a cancellation leaves.       *)
(*                                                                         *)
(* A thread is the try it was created in and its slot.  shmlib knows only  *)
(* the slot: a thread that outlives its try shares its index, and so its   *)
(* traps, with its successor.                                              *)
(*                                                                         *)
(* shm_op is two steps here, one for each of its critical sections, with   *)
(* the sleep between them.  ShmLib has their inside; what is added is that *)
(* a cancelled thread dies in the sleep, or, with shm_mutex held, in the   *)
(* printf of a report.  main is reduced to what ShmRacer shows of it: it   *)
(* goes on when the threads of the try have ended, and once a timeout has  *)
(* been, whenever it likes.                                                *)
(***************************************************************************)
EXTENDS TrapTable, Sequences, FiniteSets

CONSTANTS
  Programs,      \* what threadset_table and the conditions may be: see program
  Increments,    \* rounds of setValue's loop
  Deliveries,    \* mailman's rounds that put mail into the mailbox
  Pickups        \* mail_customer's rounds that empty it

VARIABLES
  program,           \* its thread sets, as the routines of each; the tries of each,
                     \* CYCLE_COUNT; and which of "timeout" and "create" may happen
  logged,            \* the reported races
  shm_mutex,         \* holders
  shm_access_mutex,
  x_to_y,            \* the value of the semaphore x_to_y_mutex
  mem,               \* shm_master
  th,                \* of each thread: where it is, its next instruction, tmp
  cancelled,         \* threads with a cancellation pending, or dead of it
  try,               \* tries begun
  late,              \* a timeout has been
  failed,            \* a thread could not be created
  before,            \* history: mem when shm_access_mutex was last taken,
  atStart            \* and when the try began

vars == <<program, traps, logged, shm_mutex, shm_access_mutex, x_to_y, mem, th,
          cancelled, try, late, failed, before, atStart>>

mainvars == <<program, cancelled, try, late, failed, atStart>>

NumTries == program.CYCLE_COUNT * Len(program.sets)
SetOf(n) == program.sets[(n - 1) \div program.CYCLE_COUNT + 1]
Handles == UNION { { <<n, i>> : i \in DOMAIN SetOf(n) } : n \in 1 .. NumTries }
Nobody == <<>>

Members == [cnt_x |-> [offset |-> 0, size |-> 4],
            a |-> [offset |-> 44, size |-> 1],
            num_parcels |-> [offset |-> 45, size |-> 1]]

Step(do, member, site) == [do |-> do, member |-> member, site |-> site]
Read(member, site) == Step("read", member, site)
Write(member, site) == Step("write", member, site)
Times(n, steps) == [k \in 1 .. n * Len(steps) |-> steps[((k - 1) % Len(steps)) + 1]]

\* The access SHM_OP makes of a step; sites are named as get_info_str does.
OpOf(step) == [rw |-> IF step.do = "read" THEN SHM_READ ELSE SHM_WRITE,
               offset |-> Members[step.member].offset,
               size |-> Members[step.member].size,
               bufsize |-> Members[step.member].size,
               info |-> step.site]

-----------------------------------------------------------------------------
(* The routines. *)

setValue_Blind == Times(Increments, <<Write("cnt_x", "setValue:37")>>)

setValue == <<Read("cnt_x", "setValue:34")>>
              \o Times(Increments, <<Write("cnt_x", "setValue:37")>>)
readModifyWrite == << Read("a", "readModifyWrite:48"),
                      Write("a", "readModifyWrite:50") >>

\* What is written, from the value in tmp.
SetBit(v) == IF (v \div 32) % 2 = 1 THEN v ELSE v + 32
Computed(site, tmp) ==
  CASE site = "setValue:37" -> tmp + 1
    [] site = "readModifyWrite:50" -> SetBit(tmp)
    [] site = "mailman:79" -> (tmp + 1) % 256
    [] site = "mail_customer:90" -> 0

Sync(do) == <<Step(do, "", "")>>

WithAccessMutex_Late(steps) ==
  <<Head(steps)>> \o Sync("lock") \o Tail(steps) \o Sync("unlock")
WithAccessMutex_Kept(steps) == Sync("lock") \o steps
WithAccessMutex(steps) == Sync("lock") \o steps \o Sync("unlock")

First_PostEarly == Sync("post") \o readModifyWrite
First == readModifyWrite \o Sync("post")
Second == Sync("wait") \o readModifyWrite

\* pthread_helper_table.
Body(routine) ==
  CASE routine = "empty" -> <<>>
    [] routine = "setValue" -> setValue
    [] routine = "setValue_safe" -> WithAccessMutex(setValue)
    [] routine = "readValue" -> <<Read("cnt_x", "readValue:30")>>
    [] routine = "readModifyWrite" -> readModifyWrite
    [] routine = "readModifyWrite_safe" -> WithAccessMutex(readModifyWrite)
    [] routine = "readModifyWrite_first" -> First
    [] routine = "readModifyWrite_second" -> Second
    [] routine = "readModifyWrite_foolhb" -> Sync("sleep") \o readModifyWrite
    [] routine = "mailman" -> Times(Deliveries, << Read("num_parcels", "mailman:77"),
                                                   Write("num_parcels", "mailman:79") >>)
    [] routine = "mail_customer" -> Times(Pickups, << Read("num_parcels", "mail_customer:88"),
                                                      Write("num_parcels", "mail_customer:90") >>)

Routines == { "empty", "setValue", "setValue_safe", "readValue", "readModifyWrite",
              "readModifyWrite_safe", "readModifyWrite_first", "readModifyWrite_second",
              "readModifyWrite_foolhb", "mailman", "mail_customer" }
CallSites == { "setValue:34", "setValue:37", "readValue:30", "readModifyWrite:48",
               "readModifyWrite:50", "mailman:77", "mailman:79",
               "mail_customer:88", "mail_customer:90" }

ASSUME WorkloadsAssumption ==
  /\ \A p \in Programs :
       /\ p.sets \in Seq(Seq(Routines)) /\ p.CYCLE_COUNT \in Nat \ {0}
       /\ \A n \in DOMAIN p.sets : Len(p.sets[n]) <= NumThreads
  /\ Increments \in Nat /\ Deliveries \in Nat /\ Pickups \in Nat
  /\ CallSites \subseteq Sites

Safe == {"setValue_safe", "readModifyWrite_safe"}

Routine(h) == SetOf(h[1])[h[2]]
Program(h) == Body(Routine(h))
At(h, where) == th[h].at = where
InRoutine(h) == try <= NumTries /\ At(h, "routine") /\ th[h].next <= Len(Program(h))
This(h) == Program(h)[th[h].next]
AtStep(h, do) == InRoutine(h) /\ This(h).do = do

Unborn == [at |-> "unborn", next |-> 1, tmp |-> 0]

Empty == [m \in DOMAIN Members |-> 0]

TypeOK ==
  /\ program \in Programs
  /\ TrapTypeOK
  /\ logged \subseteq Key
  /\ shm_mutex \in Handles \cup {Nobody}
  /\ shm_access_mutex \in Handles \cup {Nobody}
  /\ x_to_y \in Nat
  /\ {mem, before, atStart} \subseteq [DOMAIN Members -> Nat]
  /\ th \in [Handles -> [at: {"unborn", "routine", "call", "gone"}, next: Nat \ {0}, tmp: Nat]]
  /\ cancelled \subseteq Handles
  /\ try \in 0 .. NumTries + 1
  /\ late \in BOOLEAN /\ failed \in BOOLEAN

Init ==
  /\ program \in Programs
  /\ TrapInit
  /\ logged = {}
  /\ shm_mutex = Nobody /\ shm_access_mutex = Nobody
  /\ x_to_y = 0
  /\ mem = Empty /\ before = Empty /\ atStart = Empty
  /\ th = [h \in Handles |-> Unborn]
  /\ cancelled = {}
  /\ try = 0
  /\ late = FALSE /\ failed = FALSE

-----------------------------------------------------------------------------
(* shm_op *)

\* The first critical section: check, copy, trap.
BeginCall(h) ==
  /\ (AtStep(h, "read") \/ AtStep(h, "write"))
  /\ shm_mutex = Nobody
  /\ LET op == OpOf(This(h))
         value == IF This(h).do = "read" THEN mem[This(h).member]
                  ELSE Computed(This(h).site, th[h].tmp)
     IN  /\ logged' = logged \cup find_trap_violations(h[2], op)
         /\ th' = [th EXCEPT ![h].at = "call", ![h].tmp = value]
         /\ mem' = [mem EXCEPT ![This(h).member] = value]
         /\ \/ place_trap(h[2], op)
            \/ FreeSlots = {} /\ UNCHANGED traps
  /\ UNCHANGED <<shm_mutex, shm_access_mutex, x_to_y, mainvars, before>>

EndCall_KeepTrap(h) ==
  /\ At(h, "call") /\ try <= NumTries
  /\ shm_mutex = Nobody
  /\ th' = [th EXCEPT ![h].at = "routine", ![h].next = @ + 1]
  /\ UNCHANGED <<traps, logged, shm_mutex, shm_access_mutex, x_to_y, mem,
                 mainvars, before>>

\* The second, after the sleep.
EndCall(h) ==
  /\ At(h, "call") /\ try <= NumTries
  /\ shm_mutex = Nobody
  /\ clear_traps(h[2])
  /\ th' = [th EXCEPT ![h].at = "routine", ![h].next = @ + 1]
  /\ UNCHANGED <<logged, shm_mutex, shm_access_mutex, x_to_y, mem, mainvars,
                 before>>

-----------------------------------------------------------------------------
(* The other steps of a routine. *)

TakeAccessMutex(h) ==
  /\ AtStep(h, "lock")
  /\ shm_access_mutex = Nobody
  /\ shm_access_mutex' = h
  /\ before' = mem
  /\ th' = [th EXCEPT ![h].next = @ + 1]
  /\ UNCHANGED <<traps, logged, shm_mutex, x_to_y, mem, mainvars>>

GiveAccessMutex(h) ==
  /\ AtStep(h, "unlock")
  /\ shm_access_mutex' = Nobody
  /\ th' = [th EXCEPT ![h].next = @ + 1]
  /\ UNCHANGED <<traps, logged, shm_mutex, x_to_y, mem, mainvars, before>>

Semaphore_NoWait(h) ==
  /\ \/ AtStep(h, "post") /\ x_to_y' = x_to_y + 1
     \/ AtStep(h, "wait") /\ x_to_y' = x_to_y - 1
     \/ AtStep(h, "sleep") /\ UNCHANGED x_to_y
  /\ th' = [th EXCEPT ![h].next = @ + 1]
  /\ UNCHANGED <<traps, logged, shm_mutex, shm_access_mutex, mem, mainvars,
                 before>>

\* sem_post, sem_wait, and sleep(2), which orders nothing.
Semaphore(h) ==
  /\ \/ AtStep(h, "post") /\ x_to_y' = x_to_y + 1
     \/ AtStep(h, "wait") /\ x_to_y > 0 /\ x_to_y' = x_to_y - 1
     \/ AtStep(h, "sleep") /\ UNCHANGED x_to_y
  /\ th' = [th EXCEPT ![h].next = @ + 1]
  /\ UNCHANGED <<traps, logged, shm_mutex, shm_access_mutex, mem, mainvars,
                 before>>

Finish(h) ==
  /\ At(h, "routine") /\ th[h].next > Len(Program(h)) /\ try <= NumTries
  /\ th' = [th EXCEPT ![h].at = "gone", ![h].tmp = 0]
  /\ UNCHANGED <<traps, logged, shm_mutex, shm_access_mutex, x_to_y, mem,
                 mainvars, before>>

Perform(h) == \/ BeginCall(h) \/ EndCall(h) \/ TakeAccessMutex(h)
              \/ GiveAccessMutex(h) \/ Semaphore(h) \/ Finish(h)

-----------------------------------------------------------------------------
(* A cancelled thread at a cancellation point. *)

\* usleep in shm_op, with its trap standing; sleep; sem_wait.
DieSleeping(h) ==
  /\ h \in cancelled
  /\ \/ At(h, "call") /\ try <= NumTries
     \/ AtStep(h, "wait") \/ AtStep(h, "sleep")
  /\ th' = [th EXCEPT ![h].at = "gone", ![h].tmp = 0]
  /\ UNCHANGED <<traps, logged, shm_mutex, shm_access_mutex, x_to_y, mem,
                 mainvars, before>>

\* printf in trap_violation_logger, after the race is in the table: shm_mutex
\* is held, nothing is copied and no trap is set.
DiePrinting(h) ==
  /\ h \in cancelled
  /\ (AtStep(h, "read") \/ AtStep(h, "write"))
  /\ shm_mutex = Nobody
  /\ \E s \in Slots :
       LET e == traps[s]
           op == OpOf(This(h))
           seen == [i \in Slots |-> IF i <= s THEN traps[i] ELSE ZeroTrap]
       IN  /\ Races(h[2], op, e, HeldDirection(e))
           /\ MsgKey(h[2], op, e, HeldDirection(e)) \notin logged
           /\ logged' = logged \cup
                { MsgKey(h[2], op, seen[i], HeldDirection(seen[i])) :
                    i \in { j \in Slots : Races(h[2], op, seen[j], HeldDirection(seen[j])) } }
  /\ shm_mutex' = h
  /\ th' = [th EXCEPT ![h].at = "gone", ![h].tmp = 0]
  /\ UNCHANGED <<traps, shm_access_mutex, x_to_y, mem, mainvars, before>>

-----------------------------------------------------------------------------
(* main *)

Current == { h \in Handles : h[1] = try }
Ended(h) == At(h, "gone")
AllEnded_OfOne == (\E h \in Current : Ended(h)) \/ Current = {}
AllEnded == \A h \in Current : Ended(h)

\* The next try: the resets and the threads, some of which may not be created;
\* or the end of the program, which is the end of every thread.
NextTry ==
  /\ try <= NumTries
  /\ (AllEnded \/ late)
  /\ try' = try + 1
  /\ IF try = NumTries
     THEN UNCHANGED <<traps, logged, th, failed, atStart>>
     ELSE /\ clearall_traps
          /\ logged' = IF try % program.CYCLE_COUNT = 0 THEN {} ELSE logged
          /\ atStart' = mem
          /\ \E born \in SUBSET { h \in Handles : h[1] = try + 1 } :
               /\ failed' = (failed \/ \E h \in Handles \ born : h[1] = try + 1)
               /\ failed' => failed \/ "create" \in program.faults
               /\ th' = [h \in Handles |->
                           IF h[1] # try + 1 THEN th[h]
                           ELSE [Unborn EXCEPT !.at = IF h \in born THEN "routine" ELSE "gone"]]
  /\ UNCHANGED <<program, shm_mutex, shm_access_mutex, x_to_y, mem, cancelled,
                 late, before>>

\* The threads of the try are cancelled, wherever they are.
Timeout ==
  /\ "timeout" \in program.faults
  /\ try \in 1 .. NumTries
  /\ ~ (Current \subseteq cancelled)
  /\ late' = TRUE
  /\ cancelled' = cancelled \cup { h \in Current : ~ Ended(h) }
  /\ UNCHANGED <<program, traps, logged, shm_mutex, shm_access_mutex, x_to_y,
                 mem, th, try, failed, before, atStart>>

Next ==
  \/ NextTry \/ Timeout
  \/ \E h \in Handles : Perform(h) \/ DieSleeping(h) \/ DiePrinting(h)

Spec == Init /\ [][Next]_vars

\* The thread in slot i of this try.
PerformIn(i) == \E h \in Current : h[2] = i /\ Perform(h)

\* The scheduler runs every thread; main waits for nothing but them.
FairSpec == Spec /\ WF_vars(NextTry) /\ \A i \in Threads : WF_vars(PerformIn(i))

-----------------------------------------------------------------------------
(* Properties *)

AllSafe == \A n \in 1 .. NumTries : \A i \in DOMAIN SetOf(n) : SetOf(n)[i] \in Safe

\* The store as the _safe routines see it: what it was when the lock was
\* taken, while it is held or if its holder died.  A program of other routines
\* promises none.
Store == INSTANCE AtomicStore WITH
           store <- IF ~ AllSafe THEN Empty
                    ELSE IF shm_access_mutex = Nobody THEN mem ELSE before

\* Each _safe routine is one atomic update, and cancelling one half way is as
\* if it had never begun: no other _safe routine sees its half.
ImplementsStore == Store!Spec

\* In a set of a first and a second, the second is past its wait only when the
\* first has made both its accesses in the same try: the semaphore has no post
\* left from a try before.
SecondAfterFirst ==
  late \/ failed \/
  \A h, g \in Current :
    /\ Routine(h) = "readModifyWrite_first"
    /\ Routine(g) = "readModifyWrite_second"
    /\ th[g].next > 1
    => th[h].next > Len(readModifyWrite)

\* What is ordered is never reported.  Threads of _safe routines are not, even
\* after cancellations in the middle of one: the lock is not released before
\* the trap is cleared, and a trap left behind is guarded by a lock that is
\* left behind too.  Nor are a first and a second.
OrderedNeverReported ==
  /\ AllSafe => logged = {}
  /\ late \/ failed \/ try \notin 1 .. NumTries \/
     ({ SetOf(try)[i] : i \in DOMAIN SetOf(try) }
        = {"readModifyWrite_first", "readModifyWrite_second"} => logged = {})

\* In any set whose tries end by themselves, the races of setValue lose updates
\* but not all: cnt_x grows by at least one thread's increments and at most by
\* everyone's.  No parcel is ever in the box that was not delivered.
RacesLoseNotAll ==
  late \/ failed \/ try \notin 1 .. NumTries \/ ~ AllEnded \/
  LET setters == { h \in Current : Routine(h) \in {"setValue", "setValue_safe"} }
      mailmen == { h \in Current : Routine(h) = "mailman" }
      grown == mem.cnt_x - atStart.cnt_x
  IN  /\ mem.num_parcels <= atStart.num_parcels + Deliveries * Cardinality(mailmen)
      /\ grown <= Increments * Cardinality(setters)
      /\ setters # {} => grown >= Increments

\* A trap belongs to a call in progress, of its slot's thread in this try or of
\* one left from an earlier, or to a thread that was cancelled in its call; and
\* a lock whose holder is gone was held by a thread that was cancelled.
OnlyCancellationLeaks ==
  /\ \A s \in Slots : ~ IsFree(s) =>
       \E h \in Handles : /\ h[2] = traps[s].thread
                          /\ At(h, "call") \/ (Ended(h) /\ h \in cancelled)
  /\ \A holder \in {shm_mutex, shm_access_mutex} \ {Nobody} :
       Ended(holder) => holder \in cancelled

\* Until the first timeout main's resets take no trap from a call: every call
\* in progress has its trap, if there is a slot for every thread.
CallsKeepTheirTraps ==
  late \/ MAX_SHM_TRAPS < NumThreads \/
  \A h \in Handles : At(h, "call") => \E s \in Slots : traps[s] = TrapOf(h[2], OpOf(This(h)))

\* Without faults every routine ends, and so does the program: no two of the
\* locks and the semaphore wait for each other.
RoutinesEnd == <>(try > NumTries \/ late \/ failed)

=============================================================================
