--------------------------- MODULE WorkloadsProofs ---------------------------
(***************************************************************************)
(* Theorems about the routines of shm_racer, for any table of thread sets, *)
(* any number of tries and any lengths of the routines' loops, with        *)
(* timeouts, cancellations and failing creations: what they leave behind,  *)
(* what the _safe routines promise, what the semaphore orders and what     *)
(* lost updates can cost.                                                  *)
(***************************************************************************)
EXTENDS Workloads, FiniteSetTheorems, SequenceTheorems, TLAPS

-----------------------------------------------------------------------------
(* The bodies of the routines. *)

MemberNames == DOMAIN Members
WriteSites == {"setValue:37", "readModifyWrite:50", "mailman:79", "mail_customer:90"}
Accesses == [do: {"read"}, member: MemberNames, site: CallSites]
              \cup [do: {"write"}, member: MemberNames, site: WriteSites]
Locking == [do: {"lock", "unlock"}, member: {""}, site: {""}]
Ordering == [do: {"post", "wait", "sleep"}, member: {""}, site: {""}]
Steps == Accesses \cup Locking \cup Ordering

LEMMA MemberNamesAre == MemberNames = {"cnt_x", "a", "num_parcels"}
  BY DEF MemberNames, Members

\* Times repeats a sequence.
LEMMA TimesIsSeq ==
  ASSUME NEW S, NEW n \in Nat, NEW steps \in Seq(S), Len(steps) \in {1, 2}
  PROVE  Times(n, steps) \in Seq(S)
<1> DEFINE len == n * Len(steps)
           elt(k) == steps[((k - 1) % Len(steps)) + 1]
<1>1. len \in Nat
  BY Len(steps) \in Nat
<1>2. \A k \in 1 .. len : elt(k) \in S
  <2> SUFFICES ASSUME NEW k \in 1 .. len PROVE elt(k) \in S
    OBVIOUS
  <2>1. ((k - 1) % Len(steps)) + 1 \in 1 .. Len(steps)
    BY <1>1
  <2> QED BY <2>1, ElementOfSeq
<1>3. Times(n, steps) = [k \in 1 .. len |-> elt(k)]
  BY DEF Times
<1> HIDE DEF len, elt
<1>4. [k \in 1 .. len |-> elt(k)] \in Seq(S)
  BY <1>1, <1>2
<1> QED BY <1>3, <1>4

LEMMA SetValueAccesses == setValue \in Seq(Accesses)
<1> DEFINE r == Read("cnt_x", "setValue:34")
           w == Write("cnt_x", "setValue:37")
<1>1. r \in Accesses /\ w \in Accesses
  BY MemberNamesAre DEF Accesses, Read, Write, Step, CallSites, WriteSites
<1>2. <<r>> \in Seq(Accesses) /\ <<w>> \in Seq(Accesses) /\ Len(<<w>>) = 1
  BY <1>1
<1>3. Times(Increments, <<w>>) \in Seq(Accesses)
  BY <1>2, TimesIsSeq, WorkloadsAssumption
<1> HIDE DEF r, w
<1>4. <<r>> \o Times(Increments, <<w>>) \in Seq(Accesses)
  BY <1>2, <1>3, ConcatProperties
<1> QED BY <1>4 DEF setValue, r, w

LEMMA ReadModifyWriteAccesses == readModifyWrite \in Seq(Accesses)
<1> DEFINE r == Read("a", "readModifyWrite:48")
           w == Write("a", "readModifyWrite:50")
<1>1. r \in Accesses /\ w \in Accesses
  BY MemberNamesAre DEF Accesses, Read, Write, Step, CallSites, WriteSites
<1> HIDE DEF r, w
<1>2. <<r, w>> \in Seq(Accesses)
  BY <1>1
<1> QED BY <1>2 DEF readModifyWrite, r, w
LEMMA Singleton ==
  ASSUME NEW S, NEW s \in S
  PROVE  <<s>> \in Seq(S) /\ Len(<<s>>) = 1 /\ <<s>>[1] = s
  OBVIOUS

LEMMA SyncIsSeq ==
  ASSUME NEW S, NEW do, Step(do, "", "") \in S
  PROVE  Sync(do) \in Seq(S) /\ Len(Sync(do)) = 1 /\ Sync(do)[1] = Step(do, "", "")
  BY Singleton DEF Sync

\* A guarded body takes the lock first, gives it back last, and only accesses
\* in between.
LEMMA Guarded ==
  ASSUME NEW steps \in Seq(Accesses)
  PROVE  /\ WithAccessMutex(steps) \in Seq(Steps)
         /\ Len(WithAccessMutex(steps)) = Len(steps) + 2
         /\ WithAccessMutex(steps)[1].do = "lock"
         /\ WithAccessMutex(steps)[Len(steps) + 2].do = "unlock"
         /\ \A k \in 2 .. Len(steps) + 1 : WithAccessMutex(steps)[k] = steps[k - 1]
<1> DEFINE lock == Sync("lock")
           unlock == Sync("unlock")
<1>1. /\ lock \in Seq(Steps) /\ Len(lock) = 1 /\ lock[1].do = "lock"
      /\ unlock \in Seq(Steps) /\ Len(unlock) = 1 /\ unlock[1].do = "unlock"
  <2>1. Step("lock", "", "") \in Steps /\ Step("unlock", "", "") \in Steps
    BY DEF Step, Steps, Locking
  <2>2. Step("lock", "", "").do = "lock" /\ Step("unlock", "", "").do = "unlock"
    BY DEF Step
  <2> HIDE DEF Steps
  <2> QED BY <2>1, <2>2, SyncIsSeq
<1>2. steps \in Seq(Steps) /\ Len(steps) \in Nat
  BY SeqMonotonic DEF Steps
<1> HIDE DEF lock, unlock
<1>3. /\ lock \o steps \in Seq(Steps) /\ Len(lock \o steps) = Len(steps) + 1
      /\ \A k \in 1 .. Len(steps) + 1 :
           (lock \o steps)[k] = IF k <= 1 THEN lock[k] ELSE steps[k - 1]
  <2>1. /\ lock \o steps \in Seq(Steps) /\ Len(lock \o steps) = Len(lock) + Len(steps)
        /\ \A k \in 1 .. Len(lock) + Len(steps) :
             (lock \o steps)[k] = IF k <= Len(lock) THEN lock[k] ELSE steps[k - Len(lock)]
    BY <1>1, <1>2, ConcatProperties
  <2> QED BY <1>1, <1>2, <2>1
<1> DEFINE front == lock \o steps
<1> HIDE DEF front
<1>4. /\ front \o unlock \in Seq(Steps) /\ Len(front \o unlock) = Len(steps) + 2
      /\ \A k \in 1 .. Len(steps) + 2 :
           (front \o unlock)[k] = IF k <= Len(steps) + 1 THEN front[k]
                                  ELSE unlock[k - (Len(steps) + 1)]
  <2>1. front \in Seq(Steps) /\ Len(front) = Len(steps) + 1
    BY <1>3 DEF front
  <2>2. /\ front \o unlock \in Seq(Steps) /\ Len(front \o unlock) = Len(front) + Len(unlock)
        /\ \A k \in 1 .. Len(front) + Len(unlock) :
             (front \o unlock)[k] = IF k <= Len(front) THEN front[k] ELSE unlock[k - Len(front)]
    BY <1>1, <2>1, ConcatProperties
  <2> QED BY <1>1, <1>2, <2>1, <2>2
<1>5. /\ (front \o unlock)[1].do = "lock"
      /\ (front \o unlock)[Len(steps) + 2].do = "unlock"
      /\ \A k \in 2 .. Len(steps) + 1 : (front \o unlock)[k] = steps[k - 1]
  BY <1>1, <1>2, <1>3, <1>4 DEF front
<1>6. WithAccessMutex(steps) = front \o unlock
  BY DEF WithAccessMutex, front, lock, unlock
<1> QED BY <1>4, <1>5, <1>6

\* No other body has a lock in it.
LEMMA Unguarded ==
  ASSUME NEW r \in Routines \ Safe
  PROVE  Body(r) \in Seq(Accesses \cup Ordering)
<1> DEFINE S == Accesses \cup Ordering
<1>1. /\ Sync("post") \in Seq(S) /\ Sync("wait") \in Seq(S) /\ Sync("sleep") \in Seq(S)
  <2>1. {Step("post", "", ""), Step("wait", "", ""), Step("sleep", "", "")} \subseteq S
    BY DEF Step, Ordering
  <2> HIDE DEF S
  <2> QED BY <2>1, SyncIsSeq
<1>2. setValue \in Seq(S) /\ readModifyWrite \in Seq(S)
  BY SetValueAccesses, ReadModifyWriteAccesses, SeqMonotonic
<1>3. First \in Seq(S) /\ Second \in Seq(S) /\ Sync("sleep") \o readModifyWrite \in Seq(S)
  <2> HIDE DEF S
  <2> QED BY <1>1, <1>2, ConcatProperties DEF First, Second
<1>4. ASSUME NEW r1, NEW w1, r1 \in Accesses, w1 \in Accesses, NEW n \in Nat
      PROVE  Times(n, <<r1, w1>>) \in Seq(S)
  <2>1. <<r1, w1>> \in Seq(S) /\ Len(<<r1, w1>>) = 2
    BY <1>4
  <2> HIDE DEF S
  <2> QED BY <2>1, <1>4, TimesIsSeq
<1>5. /\ Read("num_parcels", "mailman:77") \in Accesses
      /\ Write("num_parcels", "mailman:79") \in Accesses
      /\ Read("num_parcels", "mail_customer:88") \in Accesses
      /\ Write("num_parcels", "mail_customer:90") \in Accesses
      /\ Read("cnt_x", "readValue:30") \in Accesses
  BY MemberNamesAre DEF Accesses, Read, Write, Step, CallSites, WriteSites
<1>6. <<Read("cnt_x", "readValue:30")>> \in Seq(S)
  BY <1>5
<1>7. /\ Times(Deliveries, << Read("num_parcels", "mailman:77"),
                              Write("num_parcels", "mailman:79") >>) \in Seq(S)
      /\ Times(Pickups, << Read("num_parcels", "mail_customer:88"),
                           Write("num_parcels", "mail_customer:90") >>) \in Seq(S)
  BY <1>4, <1>5, WorkloadsAssumption
<1>8. <<>> \in Seq(S)
  OBVIOUS
<1> HIDE DEF S
<1>9. Body(r) \in Seq(S)
  BY <1>2, <1>3, <1>6, <1>7, <1>8 DEF Body, Routines, Safe
<1> QED BY <1>9 DEF S

\* What the proofs need of a body: its steps, and that what it locks it unlocks.
LEMMA BodySteps ==
  ASSUME NEW r \in Routines
  PROVE  /\ Body(r) \in Seq(Steps)
         /\ \A k \in 1 .. Len(Body(r)) : Body(r)[k].do = "lock" =>
              \E j \in k + 1 .. Len(Body(r)) : Body(r)[j].do = "unlock"
<1>1. CASE r \in Safe
  <2>1. PICK steps \in Seq(Accesses) : Body(r) = WithAccessMutex(steps)
    BY <1>1, SetValueAccesses, ReadModifyWriteAccesses DEF Body, Safe
  <2>2. /\ Body(r) \in Seq(Steps) /\ Len(Body(r)) = Len(steps) + 2 /\ Len(steps) \in Nat
        /\ Body(r)[Len(steps) + 2].do = "unlock"
    BY <2>1, Guarded
  <2> HIDE DEF Body
  <2>3. ASSUME NEW k \in 1 .. Len(Body(r)), Body(r)[k].do = "lock"
        PROVE  \E j \in k + 1 .. Len(Body(r)) : Body(r)[j].do = "unlock"
    <3>1. k # Len(Body(r))
      BY <2>2, <2>3
    <3> QED BY <2>2, <3>1
  <2> QED BY <2>2, <2>3
<1>2. CASE r \notin Safe
  <2>1. Body(r) \in Seq(Accesses \cup Ordering)
    BY <1>2, Unguarded
  <2>2. \A k \in 1 .. Len(Body(r)) : Body(r)[k] \in Accesses \cup Ordering
    BY <2>1, ElementOfSeq
  <2>3. \A k \in 1 .. Len(Body(r)) : Body(r)[k].do # "lock"
    BY <2>2 DEF Accesses, Ordering
  <2>4. Body(r) \in Seq(Steps)
    BY <2>1, SeqMonotonic DEF Steps
  <2> QED BY <2>3, <2>4
<1> QED BY <1>1, <1>2

-----------------------------------------------------------------------------
(* The threads of a program. *)

LEMMA DivBelow ==
  ASSUME NEW C \in Nat \ {0}, NEW L \in Nat, NEW n \in 1 .. C * L
  PROVE  (n - 1) \div C \in 0 .. L - 1
<1> DEFINE q == (n - 1) \div C
<1>1. q \in Nat /\ C * q <= n - 1
  BY DEF q
<1>2. C * L \in Nat /\ C * q < C * L
  BY <1>1
<1>3. CASE q >= L
  <2>1. PICK d \in Nat : q = L + d
    BY <1>1, <1>3
  <2>2. C * q = C * L + C * d /\ C * d >= 0
    BY <2>1
  <2> QED BY <1>2, <2>2
<1> QED BY <1>1, <1>3

LEMMA HandleParts ==
  ASSUME program \in Programs, NEW h \in Handles
  PROVE  /\ h[1] \in 1 .. NumTries /\ h[2] \in DOMAIN SetOf(h[1]) /\ h = <<h[1], h[2]>>
         /\ h[2] \in Threads
         /\ Routine(h) \in Routines
<1> DEFINE C == program.CYCLE_COUNT
           L == Len(program.sets)
<1>1. /\ program.sets \in Seq(Seq(Routines)) /\ C \in Nat \ {0} /\ L \in Nat
      /\ \A n \in DOMAIN program.sets : Len(program.sets[n]) <= NumThreads
  BY WorkloadsAssumption
<1>2. PICK n \in 1 .. NumTries : \E i \in DOMAIN SetOf(n) : h = <<n, i>>
  BY DEF Handles
<1>3. (n - 1) \div C \in 0 .. L - 1
  BY <1>1, <1>2, DivBelow DEF NumTries
<1>4. (n - 1) \div C + 1 \in 1 .. L
  BY <1>1, <1>3
<1>5. SetOf(n) \in Seq(Routines) /\ Len(SetOf(n)) <= NumThreads
  BY <1>1, <1>4 DEF SetOf
<1>6. PICK i \in DOMAIN SetOf(n) : h = <<n, i>>
  BY <1>2
<1>7. i \in 1 .. Len(SetOf(n)) /\ Len(SetOf(n)) \in Nat
  BY <1>5, <1>6
<1>8. SetOf(n)[i] \in Routines /\ i \in Threads
  BY <1>5, <1>7, ElementOfSeq, ShmTypesAssumption DEF Threads
<1> QED BY <1>6, <1>8 DEF Routine

\* The step a thread is at is one of its body's.
LEMMA ThisStep ==
  ASSUME program \in Programs, NEW h \in Handles, th[h].next \in Nat \ {0},
         th[h].next <= Len(Program(h))
  PROVE  /\ This(h) \in Steps
         /\ th[h].next \in 1 .. Len(Program(h))
<1>1. Program(h) \in Seq(Steps)
  BY HandleParts, BodySteps DEF Program
<1>2. Len(Program(h)) \in Nat
  BY <1>1
<1>3. th[h].next \in 1 .. Len(Program(h))
  BY <1>2
<1> QED BY <1>1, <1>3, ElementOfSeq DEF This

\* The access a thread is about to make.
LEMMA ThisAccess ==
  ASSUME program \in Programs, NEW h \in Handles, th[h].next \in Nat \ {0},
         AtStep(h, "read") \/ AtStep(h, "write")
  PROVE  This(h) \in Accesses
<1>1. This(h) \in Steps
  BY ThisStep DEF AtStep, InRoutine
<1> QED BY <1>1 DEF AtStep, Steps, Locking, Ordering

-----------------------------------------------------------------------------
(* Type correctness. *)

LEMMA AccessType ==
  ASSUME NEW step \in Accesses
  PROVE  /\ OpOf(step).rw \in RW /\ OpOf(step).offset \in Nat /\ OpOf(step).size \in Nat
         /\ OpOf(step).info \in Sites
         /\ step.member \in DOMAIN Members
<1>1. /\ step.member \in {"cnt_x", "a", "num_parcels"} /\ step.member \in DOMAIN Members
      /\ step.site \in CallSites
  BY MemberNamesAre DEF Accesses, WriteSites, CallSites, MemberNames
<1>2. Members[step.member].offset \in Nat /\ Members[step.member].size \in Nat
  BY <1>1 DEF Members
<1>3. step.site \in Sites
  BY <1>1, WorkloadsAssumption
<1> QED BY <1>1, <1>2, <1>3 DEF OpOf, RW, SHM_READ, SHM_WRITE

LEMMA ComputedType ==
  ASSUME NEW site \in WriteSites, NEW tmp \in Nat
  PROVE  Computed(site, tmp) \in Nat
  BY DEF Computed, WriteSites, SetBit

\* Every key of a race between a thread and a trap has its type.
LEMMA RaceKey ==
  ASSUME NEW t \in Threads, NEW o, NEW e \in Trap, o.info \in Sites,
         Races(t, o, e, HeldDirection(e))
  PROVE  MsgKey(t, o, e, HeldDirection(e)) \in Key
<1>1. RaceViolation(HeldDirection(e), o.rw) \in RaceKinds
  BY DEF Races, RaceViolation, RaceKinds, NoRace
<1>2. e.thread \in Threads /\ e.info \in Sites \cup {NoSite}
  BY DEF Races, Trap
<1> QED BY <1>1, <1>2 DEF MsgKey, Key

LEMMA PlacedTrapType ==
  ASSUME TrapTypeOK, NEW t \in Threads, NEW step \in Accesses, place_trap(t, OpOf(step))
  PROVE  TrapTypeOK'
<1>1. TrapOf(t, OpOf(step)) \in Trap
  BY AccessType DEF TrapOf, Trap, LowOffset, HighOffset, RW, SHM_READ, SHM_WRITE,
                TrapTypes, TRAP_TYPE_NONE, TRAP_TYPE_READ, TRAP_TYPE_WRITE
<1> QED BY <1>1 DEF place_trap, FreeSlots, TrapTypeOK

LEMMA ZeroTrapType == ZeroTrap \in Trap
  BY DEF ZeroTrap, Trap, TrapTypes, TRAP_TYPE_NONE, TRAP_TYPE_READ, TRAP_TYPE_WRITE

LEMMA ProgramStays ==
  ASSUME [Next]_vars
  PROVE  program' = program
  BY DEF Next, vars, mainvars, NextTry, Timeout, Perform, BeginCall, EndCall,
         TakeAccessMutex, GiveAccessMutex, Semaphore, Finish, DieSleeping, DiePrinting

LEMMA SameProgram ==
  ASSUME program' = program
  PROVE  /\ Handles' = Handles /\ NumTries' = NumTries
         /\ \A n : SetOf(n)' = SetOf(n)
         /\ \A h : Routine(h)' = Routine(h) /\ Program(h)' = Program(h)
  BY DEF Handles, NumTries, SetOf, Routine, Program

LEMMA NumTriesType ==
  ASSUME program \in Programs
  PROVE  NumTries \in Nat
<1>1. program.CYCLE_COUNT \in Nat /\ Len(program.sets) \in Nat
  BY WorkloadsAssumption
<1> QED BY <1>1 DEF NumTries

ThreadType == [at: {"unborn", "routine", "call", "gone"}, next: Nat \ {0}, tmp: Nat]

LEMMA InitType == Init => TypeOK
<1> SUFFICES ASSUME Init PROVE TypeOK
  OBVIOUS
<1>1. TrapTypeOK
  BY ZeroTrapType DEF Init, TrapInit, TrapTypeOK
<1>2. Empty \in [DOMAIN Members -> Nat]
  BY DEF Empty
<1>3. th \in [Handles -> ThreadType]
  BY DEF Init, Unborn, ThreadType
<1>4. try \in 0 .. NumTries + 1
  BY NumTriesType DEF Init
<1> QED BY <1>1, <1>2, <1>3, <1>4 DEF Init, TypeOK, ThreadType

LEMMA TypeStep == TypeOK /\ [Next]_vars => TypeOK'
<1> SUFFICES ASSUME TypeOK, [Next]_vars PROVE TypeOK'
  OBVIOUS
<1>0. /\ program' = program /\ Handles' = Handles /\ NumTries' = NumTries
      /\ NumTries \in Nat /\ program \in Programs
      /\ th \in [Handles -> ThreadType]
  BY ProgramStays, SameProgram, NumTriesType DEF TypeOK, ThreadType
<1>1. ASSUME NEW h \in Handles, BeginCall(h) PROVE TypeOK'
  <2>1. This(h) \in Accesses /\ h[2] \in Threads
    BY <1>0, <1>1, ThisAccess, HandleParts DEF BeginCall, ThreadType
  <2>2. TrapTypeOK'
    BY <1>1, <2>1, PlacedTrapType DEF BeginCall, TypeOK, TrapTypeOK
  <2>3. logged' \subseteq Key
    <3>1. \A i \in Slots : traps[i] \in Trap
      BY DEF TypeOK, TrapTypeOK
    <3>2. find_trap_violations(h[2], OpOf(This(h))) \subseteq Key
      BY <2>1, <3>1, AccessType, RaceKey DEF find_trap_violations
    <3> QED BY <1>1, <3>2 DEF BeginCall, TypeOK
  <2> DEFINE value == IF This(h).do = "read" THEN mem[This(h).member]
                      ELSE Computed(This(h).site, th[h].tmp)
  <2>4. value \in Nat
    <3>1. CASE This(h).do = "read"
      BY <2>1, <3>1, AccessType DEF TypeOK
    <3>2. CASE This(h).do # "read"
      BY <1>0, <2>1, <3>2, ComputedType DEF Accesses, ThreadType
    <3> QED BY <3>1, <3>2
  <2>5. /\ th' = [th EXCEPT ![h].at = "call", ![h].tmp = value]
        /\ mem' = [mem EXCEPT ![This(h).member] = value]
    BY <1>1 DEF BeginCall
  <2> HIDE DEF value
  <2>6. th' \in [Handles -> ThreadType] /\ mem' \in [DOMAIN Members -> Nat]
    BY <1>0, <2>1, <2>4, <2>5, AccessType DEF TypeOK, ThreadType
  <2> QED BY <1>0, <1>1, <2>2, <2>3, <2>6 DEF BeginCall, TypeOK, ThreadType, mainvars
<1>2. ASSUME NEW h \in Handles, EndCall(h) PROVE TypeOK'
  <2>1. TrapTypeOK'
    BY <1>2, ZeroTrapType DEF EndCall, clear_traps, TypeOK, TrapTypeOK
  <2>2. th' \in [Handles -> ThreadType]
    BY <1>0, <1>2 DEF EndCall, ThreadType
  <2> QED BY <1>0, <1>2, <2>1, <2>2 DEF EndCall, TypeOK, ThreadType, mainvars
<1>3. ASSUME NEW h \in Handles, TakeAccessMutex(h) \/ GiveAccessMutex(h) PROVE TypeOK'
  <2>1. th' \in [Handles -> ThreadType]
    BY <1>0, <1>3 DEF TakeAccessMutex, GiveAccessMutex, ThreadType
  <2>2. shm_access_mutex' \in Handles \cup {Nobody} /\ before' \in [DOMAIN Members -> Nat]
    BY <1>3 DEF TakeAccessMutex, GiveAccessMutex, TypeOK
  <2>3. TrapTypeOK'
    BY <1>3 DEF TakeAccessMutex, GiveAccessMutex, TypeOK, TrapTypeOK
  <2> QED BY <1>0, <1>3, <2>1, <2>2, <2>3
          DEF TakeAccessMutex, GiveAccessMutex, TypeOK, ThreadType, mainvars
<1>4. ASSUME NEW h \in Handles, Semaphore(h) PROVE TypeOK'
  <2>1. th' \in [Handles -> ThreadType] /\ x_to_y' \in Nat
    BY <1>0, <1>4 DEF Semaphore, ThreadType, TypeOK
  <2>2. TrapTypeOK'
    BY <1>4 DEF Semaphore, TypeOK, TrapTypeOK
  <2> QED BY <1>0, <1>4, <2>1, <2>2 DEF Semaphore, TypeOK, ThreadType, mainvars
<1>5. ASSUME NEW h \in Handles, Finish(h) \/ DieSleeping(h) PROVE TypeOK'
  <2>1. th' \in [Handles -> ThreadType]
    <3>1. th' = [th EXCEPT ![h].at = "gone", ![h].tmp = 0]
      BY <1>5 DEF Finish, DieSleeping
    <3> QED BY <1>0, <3>1 DEF ThreadType
  <2>2. TrapTypeOK'
    BY <1>5 DEF Finish, DieSleeping, TypeOK, TrapTypeOK
  <2> QED BY <1>0, <1>5, <2>1, <2>2, SMTT(20)
          DEF Finish, DieSleeping, TypeOK, ThreadType, mainvars
<1>6. ASSUME NEW h \in Handles, DiePrinting(h) PROVE TypeOK'
  <2>1. This(h) \in Accesses /\ h[2] \in Threads
    BY <1>0, <1>6, ThisAccess, HandleParts DEF DiePrinting, ThreadType
  <2>2. logged' \subseteq Key
    <3> DEFINE op == OpOf(This(h))
               seen(s) == [i \in Slots |-> IF i <= s THEN traps[i] ELSE ZeroTrap]
    <3>1. PICK s \in Slots :
            logged' = logged \cup
              { MsgKey(h[2], op, seen(s)[i], HeldDirection(seen(s)[i])) :
                  i \in { j \in Slots : Races(h[2], op, seen(s)[j], HeldDirection(seen(s)[j])) } }
      BY <1>6 DEF DiePrinting
    <3>2. \A i \in Slots : seen(s)[i] \in Trap
      BY ZeroTrapType DEF TypeOK, TrapTypeOK
    <3>3. op.info \in Sites
      BY <2>1, AccessType
    <3> HIDE DEF op, seen
    <3>4. \A i \in Slots : Races(h[2], op, seen(s)[i], HeldDirection(seen(s)[i]))
            => MsgKey(h[2], op, seen(s)[i], HeldDirection(seen(s)[i])) \in Key
      BY <2>1, <3>2, <3>3, RaceKey
    <3> QED BY <3>1, <3>4 DEF TypeOK
  <2>3. th' \in [Handles -> ThreadType]
    BY <1>0, <1>6 DEF DiePrinting, ThreadType
  <2>4. TrapTypeOK' /\ shm_mutex' \in Handles \cup {Nobody}
    BY <1>6 DEF DiePrinting, TypeOK, TrapTypeOK
  <2> QED BY <1>0, <1>6, <2>2, <2>3, <2>4 DEF DiePrinting, TypeOK, ThreadType, mainvars
<1>7. ASSUME NextTry PROVE TypeOK'
  <2>1. try' \in 0 .. NumTries + 1
    BY <1>0, <1>7 DEF NextTry, TypeOK
  <2>2. th' \in [Handles -> ThreadType] /\ failed' \in BOOLEAN /\ TrapTypeOK'
        /\ logged' \subseteq Key /\ atStart' \in [DOMAIN Members -> Nat]
    <3>1. CASE try = NumTries
      BY <1>0, <1>7, <3>1 DEF NextTry, TypeOK, TrapTypeOK
    <3>2. CASE try # NumTries
      <4>1. PICK born \in SUBSET { h \in Handles : h[1] = try + 1 } :
              /\ failed' = (failed \/ \E h \in Handles \ born : h[1] = try + 1)
              /\ th' = [h \in Handles |->
                          IF h[1] # try + 1 THEN th[h]
                          ELSE [Unborn EXCEPT !.at = IF h \in born THEN "routine" ELSE "gone"]]
        BY <1>7, <3>2 DEF NextTry
      <4>2. th' \in [Handles -> ThreadType]
        BY <1>0, <4>1 DEF Unborn, ThreadType
      <4>3. failed' \in BOOLEAN
        BY <4>1 DEF TypeOK
      <4>4. TrapTypeOK'
        BY <1>7, <3>2, ZeroTrapType DEF NextTry, clearall_traps, TrapTypeOK
      <4> QED BY <1>7, <3>2, <4>2, <4>3, <4>4 DEF NextTry, TypeOK
    <3> QED BY <3>1, <3>2
  <2> QED BY <1>0, <1>7, <2>1, <2>2 DEF NextTry, TypeOK, ThreadType
<1>8. ASSUME Timeout PROVE TypeOK'
  <2>1. cancelled' \subseteq Handles
    BY <1>8 DEF Timeout, Current, TypeOK
  <2>2. TrapTypeOK'
    BY <1>8 DEF Timeout, TypeOK, TrapTypeOK
  <2> QED BY <1>0, <1>8, <2>1, <2>2 DEF Timeout, TypeOK
<1>9. ASSUME UNCHANGED vars PROVE TypeOK'
  BY <1>0, <1>9 DEF vars, TypeOK, TrapTypeOK
<1> QED BY <1>1, <1>2, <1>3, <1>4, <1>5, <1>6, <1>7, <1>8, <1>9 DEF Next, Perform

LEMMA TypeInvariant == Spec => []TypeOK
  BY InitType, TypeStep, PTL DEF Spec

\* Type correctness of the routines' state, for every table of thread sets;
\* it includes that the reported races are keys of two threads and two sites.
THEOREM TypeCorrect == Spec => []TypeOK
  BY TypeInvariant

-----------------------------------------------------------------------------
(* What a thread leaves behind. *)

\* A thread that is to come has not begun.
BirthInv == \A h \in Handles : h[1] > try => At(h, "unborn")

\* A thread in shm_op is there for an access.
CallInv ==
  \A h \in Handles : At(h, "call") =>
    th[h].next <= Len(Program(h)) /\ This(h).do \in {"read", "write"}

\* Who holds shm_access_mutex will give it back, or has been cancelled.
AccessMutexInv ==
  \A h \in Handles : shm_access_mutex = h =>
    \/ Ended(h) /\ h \in cancelled
    \/ /\ At(h, "routine") \/ At(h, "call")
       /\ \E j \in th[h].next .. Len(Program(h)) : Program(h)[j].do = "unlock"

\* Nobody keeps shm_mutex over a step but one who died in a report.
MutexInv == \A h \in Handles : shm_mutex = h => Ended(h) /\ h \in cancelled

TrapsInv ==
  \A s \in Slots : ~ IsFree(s) =>
    \E h \in Handles : /\ h[2] = traps[s].thread
                       /\ At(h, "call") \/ (Ended(h) /\ h \in cancelled)

LeakInv == TypeOK /\ BirthInv /\ CallInv /\ AccessMutexInv /\ MutexInv /\ TrapsInv

Moves(h) == Perform(h) \/ DieSleeping(h) \/ DiePrinting(h)

LEMMA OthersStay ==
  ASSUME TypeOK, NEW h \in Handles, Moves(h)
  PROVE  /\ \A g \in Handles \ {h} : th'[g] = th[g]
         /\ At(h, "routine") \/ At(h, "call")
         /\ th'[h].at # "unborn"
         /\ UNCHANGED <<mainvars, Handles, NumTries>>
         /\ \A g : Program(g)' = Program(g)
<1>1. UNCHANGED mainvars
  BY DEF Moves, Perform, BeginCall, EndCall, TakeAccessMutex, GiveAccessMutex,
         Semaphore, Finish, DieSleeping, DiePrinting
<1>2. \A g \in Handles \ {h} : th'[g] = th[g]
  BY DEF TypeOK, Moves, Perform, BeginCall, EndCall, TakeAccessMutex, GiveAccessMutex,
         Semaphore, Finish, DieSleeping, DiePrinting
<1>3. At(h, "routine") \/ At(h, "call")
  BY DEF Moves, Perform, BeginCall, EndCall, TakeAccessMutex, GiveAccessMutex,
         Semaphore, Finish, DieSleeping, DiePrinting, AtStep, InRoutine
<1>4. th'[h].at # "unborn"
  BY <1>3 DEF TypeOK, At, Moves, Perform, BeginCall, EndCall, TakeAccessMutex,
         GiveAccessMutex, Semaphore, Finish, DieSleeping, DiePrinting, AtStep, InRoutine
<1> QED BY <1>1, <1>2, <1>3, <1>4, SameProgram DEF mainvars

\* The steps of main leave the threads of the tries so far where they are.
LEMMA MainStays ==
  ASSUME TypeOK, BirthInv, NextTry \/ Timeout
  PROVE  /\ UNCHANGED <<program, Handles, NumTries, shm_mutex, shm_access_mutex>>
         /\ \A g : Program(g)' = Program(g)
         /\ \A g \in Handles : ~ At(g, "unborn") => th'[g] = th[g]
         /\ \A g \in Handles : At(g, "unborn") /\ th'[g] # th[g] => g[1] = try + 1 /\ try' = try + 1
         /\ \A g \in Handles : At(g, "unborn") /\ th'[g] # th[g] => th'[g].at \in {"routine", "gone"}
         /\ cancelled \subseteq cancelled'
         /\ try' \in {try, try + 1}
<1>1. program' = program
  BY DEF NextTry, Timeout
<1>2. CASE Timeout
  BY <1>1, <1>2, SameProgram DEF Timeout
<1>3. CASE NextTry /\ try = NumTries
  BY <1>1, <1>3, SameProgram DEF NextTry
<1>4. CASE NextTry /\ try # NumTries
  <2>1. PICK born \in SUBSET { h \in Handles : h[1] = try + 1 } :
          th' = [h \in Handles |->
                   IF h[1] # try + 1 THEN th[h]
                   ELSE [Unborn EXCEPT !.at = IF h \in born THEN "routine" ELSE "gone"]]
    BY <1>4 DEF NextTry
  <2>2. \A g \in Handles : g[1] # try + 1 => th'[g] = th[g]
    BY <2>1
  <2>3. \A g \in Handles : g[1] = try + 1 => th'[g].at \in {"routine", "gone"}
    BY <2>1 DEF Unborn
  <2>4. \A g \in Handles : g[1] = try + 1 => At(g, "unborn")
    BY DEF BirthInv, TypeOK
  <2> QED BY <1>1, <1>4, <2>2, <2>3, <2>4, SameProgram DEF NextTry
<1> QED BY <1>2, <1>3, <1>4

LEMMA BirthStep ==
  ASSUME TypeOK, BirthInv, Next
  PROVE  BirthInv'
<1>1. CASE NextTry \/ Timeout
  <2> SUFFICES ASSUME NEW g \in Handles, g[1] > try' PROVE th'[g].at = "unborn"
    BY <1>1, MainStays DEF BirthInv, At
  <2>1. g[1] \in Nat /\ try \in Nat
    BY HandleParts, NumTriesType DEF TypeOK
  <2>2. g[1] > try /\ g[1] # try' 
    BY <1>1, <2>1, MainStays
  <2> QED BY <1>1, <2>1, <2>2, MainStays DEF BirthInv, At
<1>2. ASSUME NEW h \in Handles, Moves(h) PROVE BirthInv'
  <2>1. \A g \in Handles : g # h => th'[g] = th[g]
    BY <1>2, OthersStay
  <2>2. ~ (h[1] > try)
    BY <1>2, OthersStay DEF BirthInv, At
  <2> QED BY <1>2, <2>1, <2>2, OthersStay DEF BirthInv, At, mainvars
<1> QED BY <1>1, <1>2 DEF Next, Moves

LEMMA CallStep ==
  ASSUME TypeOK, BirthInv, CallInv, Next
  PROVE  CallInv'
<1>1. CASE NextTry \/ Timeout
  <2> SUFFICES ASSUME NEW g \in Handles, th'[g].at = "call"
               PROVE  th'[g] = th[g] /\ At(g, "call")
    BY <1>1, MainStays DEF CallInv, At, This
  <2> QED BY <1>1, MainStays DEF At
<1>2. ASSUME NEW h \in Handles, Moves(h) PROVE CallInv'
  <2> SUFFICES ASSUME th'[h].at = "call"
               PROVE  th'[h].next <= Len(Program(h)) /\ Program(h)[th'[h].next].do \in {"read", "write"}
    <3>1. \A g \in Handles \ {h} : th'[g] = th[g]
      BY <1>2, OthersStay
    <3> QED BY <1>2, <3>1, OthersStay DEF CallInv, At, This
  <2>1. CASE BeginCall(h)
    BY <2>1 DEF BeginCall, AtStep, InRoutine, This, TypeOK
  <2>2. CASE ~ BeginCall(h)
    <3>1. th'[h].at # "call"
      BY <1>2, <2>2 DEF Moves, Perform, EndCall, TakeAccessMutex, GiveAccessMutex,
           Semaphore, Finish, DieSleeping, DiePrinting, AtStep, InRoutine, At, TypeOK
    <3> QED BY <3>1
  <2> QED BY <2>1, <2>2
<1> QED BY <1>1, <1>2 DEF Next, Moves

LEMMA AccessMutexStep ==
  ASSUME TypeOK, BirthInv, CallInv, AccessMutexInv, Next
  PROVE  AccessMutexInv'
<1>1. CASE NextTry \/ Timeout
  <2> SUFFICES ASSUME NEW g \in Handles, shm_access_mutex = g
               PROVE  /\ th'[g] = th[g]
                      /\ \/ Ended(g) /\ g \in cancelled
                         \/ /\ At(g, "routine") \/ At(g, "call")
                            /\ \E j \in th[g].next .. Len(Program(g)) : Program(g)[j].do = "unlock"
    BY <1>1, MainStays DEF AccessMutexInv, Ended, At
  <2> QED BY <1>1, MainStays DEF AccessMutexInv, Ended, At
<1>2. ASSUME NEW h \in Handles, Moves(h) PROVE AccessMutexInv'
  <2>0. /\ \A g \in Handles \ {h} : th'[g] = th[g]
        /\ UNCHANGED <<mainvars, Handles>> /\ \A g : Program(g)' = Program(g)
    BY <1>2, OthersStay
  <2>1. CASE shm_access_mutex' = h
    <3> SUFFICES \/ th'[h].at = "gone" /\ h \in cancelled
                 \/ /\ th'[h].at \in {"routine", "call"}
                    /\ \E j \in th'[h].next .. Len(Program(h)) : Program(h)[j].do = "unlock"
      BY <2>0, <2>1 DEF AccessMutexInv, Ended, At, mainvars
    <3>1. /\ th[h].next \in Nat \ {0} /\ Len(Program(h)) \in Nat
          /\ \A k \in 1 .. Len(Program(h)) : Program(h)[k].do = "lock" =>
               \E j \in k + 1 .. Len(Program(h)) : Program(h)[j].do = "unlock"
      BY HandleParts, BodySteps DEF TypeOK, Program
    <3>0. h # Nobody
      BY HandleParts DEF Nobody, TypeOK
    <3>2. CASE TakeAccessMutex(h)
      <4>1. th[h].next \in 1 .. Len(Program(h)) /\ Program(h)[th[h].next].do = "lock"
        BY <3>1, <3>2 DEF TakeAccessMutex, AtStep, InRoutine, This
      <4>2. th'[h].next = th[h].next + 1 /\ th'[h].at = "routine"
        BY <3>2 DEF TakeAccessMutex, AtStep, InRoutine, At, TypeOK
      <4> QED BY <3>1, <4>1, <4>2
    <3>3. CASE ~ TakeAccessMutex(h)
      <4>1. shm_access_mutex = h
        BY <1>2, <2>1, <3>0, <3>3 DEF Moves, Perform, BeginCall, EndCall, GiveAccessMutex,
             Semaphore, Finish, DieSleeping, DiePrinting, TypeOK
      <4>2. \E j \in th[h].next .. Len(Program(h)) : Program(h)[j].do = "unlock"
        BY <1>2, <4>1, OthersStay DEF AccessMutexInv, Ended, At
      <4>3. CASE DieSleeping(h) \/ DiePrinting(h)
        BY <4>3 DEF DieSleeping, DiePrinting, TypeOK
      <4>4. CASE Finish(h)
        BY <3>1, <4>2, <4>4 DEF Finish
      <4>5. CASE BeginCall(h)
        BY <4>2, <4>5 DEF BeginCall, TypeOK
      <4>6. CASE EndCall(h) \/ Semaphore(h)
        <5>1. th'[h].next = th[h].next + 1 /\ th'[h].at = "routine"
          BY <4>6 DEF EndCall, Semaphore, AtStep, InRoutine, At, TypeOK
        <5>2. Program(h)[th[h].next].do # "unlock"
          BY <4>6 DEF EndCall, Semaphore, AtStep, InRoutine, CallInv, This
        <5>3. \E j \in th[h].next + 1 .. Len(Program(h)) : Program(h)[j].do = "unlock"
          BY <3>1, <4>2, <5>2
        <5> QED BY <5>1, <5>3
      <4>7. CASE GiveAccessMutex(h)
        BY <2>1, <3>0, <4>7 DEF GiveAccessMutex
      <4> QED BY <1>2, <3>3, <4>3, <4>4, <4>5, <4>6, <4>7 DEF Moves, Perform
    <3> QED BY <3>2, <3>3
  <2>2. CASE shm_access_mutex' # h
    <3>1. ASSUME NEW g \in Handles, shm_access_mutex' = g
          PROVE  shm_access_mutex = g /\ g # h
      <4>1. g # Nobody
        BY HandleParts DEF Nobody, TypeOK
      <4> QED BY <1>2, <2>2, <3>1, <4>1 DEF Moves, Perform, BeginCall, EndCall,
               TakeAccessMutex, GiveAccessMutex, Semaphore, Finish, DieSleeping, DiePrinting
    <3> QED BY <2>0, <3>1 DEF AccessMutexInv, Ended, At, mainvars
  <2> QED BY <2>1, <2>2
<1> QED BY <1>1, <1>2 DEF Next, Moves

LEMMA MutexStep ==
  ASSUME TypeOK, BirthInv, MutexInv, Next
  PROVE  MutexInv'
<1>1. CASE NextTry \/ Timeout
  <2>1. \A g \in Handles : shm_mutex = g => th'[g] = th[g] /\ Ended(g) /\ g \in cancelled
    BY <1>1, MainStays DEF MutexInv, Ended, At
  <2> QED BY <1>1, <2>1, MainStays DEF MutexInv, Ended, At
<1>2. ASSUME NEW h \in Handles, Moves(h) PROVE MutexInv'
  <2>1. CASE DiePrinting(h)
    <3>1. th'[h].at = "gone" /\ h \in cancelled /\ shm_mutex' = h
      BY <2>1 DEF DiePrinting, TypeOK
    <3> QED BY <1>2, <3>1, OthersStay DEF MutexInv, Ended, At, mainvars
  <2>2. CASE ~ DiePrinting(h)
    <3>1. shm_mutex' = shm_mutex
      BY <1>2, <2>2 DEF Moves, Perform, BeginCall, EndCall, TakeAccessMutex,
         GiveAccessMutex, Semaphore, Finish, DieSleeping
    <3>2. \A g \in Handles : shm_mutex = g => g # h
      BY <1>2, OthersStay DEF MutexInv, Ended, At
    <3> QED BY <1>2, <3>1, <3>2, OthersStay DEF MutexInv, Ended, At, mainvars
  <2> QED BY <2>1, <2>2
<1> QED BY <1>1, <1>2 DEF Next, Moves

LEMMA TrapsStep ==
  ASSUME TypeOK, BirthInv, TrapsInv, Next
  PROVE  TrapsInv'
<1>1. CASE NextTry \/ Timeout
  <2>1. \A g \in Handles : At(g, "call") \/ Ended(g) => th'[g] = th[g]
    BY <1>1, MainStays DEF Ended, At
  <2>2. UNCHANGED traps \/ traps' = [i \in Slots |-> ZeroTrap]
    BY <1>1 DEF NextTry, Timeout, clearall_traps
  <2> QED BY <1>1, <2>1, <2>2, MainStays DEF TrapsInv, IsFree, Ended, At, ZeroTrap
<1>2. ASSUME NEW h \in Handles, Moves(h) PROVE TrapsInv'
  <2>0. /\ \A g \in Handles \ {h} : th'[g] = th[g]
        /\ UNCHANGED <<cancelled, Handles>>
    BY <1>2, OthersStay DEF mainvars
  <2>1. CASE BeginCall(h)
    <3>1. th'[h].at = "call" /\ ~ At(h, "call") /\ ~ Ended(h)
      BY <2>1 DEF BeginCall, AtStep, InRoutine, At, Ended, TypeOK
    <3>2. \A s \in Slots : traps'[s] = traps[s] \/ traps'[s].thread = h[2]
      BY <2>1 DEF BeginCall, place_trap, FreeSlots, TrapOf, TypeOK, TrapTypeOK
    <3> QED BY <2>0, <3>1, <3>2 DEF TrapsInv, IsFree, At, Ended
  <2>2. CASE EndCall(h)
    <3>1. \A s \in Slots : \/ traps'[s].thread = NoThread
                           \/ traps'[s] = traps[s] /\ traps[s].thread # h[2]
      BY <2>2 DEF EndCall, clear_traps, ZeroTrap
    <3> QED BY <2>0, <3>1 DEF TrapsInv, IsFree, At, Ended
  <2>3. CASE ~ BeginCall(h) /\ ~ EndCall(h)
    <3>1. UNCHANGED traps
      BY <1>2, <2>3 DEF Moves, Perform, TakeAccessMutex, GiveAccessMutex, Semaphore,
           Finish, DieSleeping, DiePrinting
    <3>2. At(h, "call") => th'[h].at = "gone" /\ h \in cancelled
      BY <1>2, <2>3 DEF Moves, Perform, TakeAccessMutex, GiveAccessMutex, Semaphore,
           Finish, DieSleeping, DiePrinting, AtStep, InRoutine, At, TypeOK
    <3>3. ~ Ended(h)
      BY <1>2, OthersStay DEF Ended, At
    <3> QED BY <2>0, <3>1, <3>2, <3>3 DEF TrapsInv, IsFree, At, Ended
  <2> QED BY <2>1, <2>2, <2>3
<1> QED BY <1>1, <1>2 DEF Next, Moves

LEMMA LeakInit == Init => LeakInv
<1> SUFFICES ASSUME Init PROVE LeakInv
  OBVIOUS
<1>1. \A h \in Handles : h # Nobody /\ At(h, "unborn")
  BY HandleParts DEF Init, Nobody, At, Unborn
<1>2. TypeOK /\ BirthInv /\ CallInv
  BY <1>1, InitType DEF BirthInv, CallInv, At
<1>3. AccessMutexInv /\ MutexInv
  BY <1>1 DEF Init, AccessMutexInv, MutexInv
<1>4. TrapsInv
  BY DEF Init, TrapInit, TrapsInv, IsFree, ZeroTrap
<1> QED BY <1>2, <1>3, <1>4 DEF LeakInv

LEMMA LeakStep == LeakInv /\ [Next]_vars => LeakInv'
<1>1. LeakInv /\ Next => LeakInv'
  BY TypeStep, BirthStep, CallStep, AccessMutexStep, MutexStep, TrapsStep DEF LeakInv
<1>2. LeakInv /\ UNCHANGED vars => LeakInv'
  <2> SUFFICES ASSUME LeakInv, UNCHANGED vars PROVE LeakInv'
    OBVIOUS
  <2>1. UNCHANGED <<th, try, cancelled, traps, shm_mutex, shm_access_mutex, Handles, Slots>>
        /\ \A h : Program(h)' = Program(h)
    BY SameProgram DEF vars, Slots
  <2>2. BirthInv' /\ CallInv'
    BY <2>1 DEF LeakInv, BirthInv, CallInv, At, This
  <2>3. AccessMutexInv' /\ MutexInv' /\ TrapsInv'
    BY <2>1 DEF LeakInv, AccessMutexInv, MutexInv, TrapsInv, IsFree, At, Ended
  <2> QED BY <2>2, <2>3, TypeStep DEF LeakInv
<1> QED BY <1>1, <1>2

LEMMA LeakInvariant == Spec => []LeakInv
  BY LeakInit, LeakStep, PTL DEF Spec

\* Only cancellation leaves a trap or a lock behind: every trap is that of a
\* call in progress or of a thread cancelled in its call, and nobody who ended
\* by himself holds shm_mutex or shm_access_mutex.
THEOREM LeaksOnlyByCancellation == Spec => []OnlyCancellationLeaks
<1>1. LeakInv => OnlyCancellationLeaks
  <2> SUFFICES ASSUME LeakInv PROVE OnlyCancellationLeaks
    OBVIOUS
  <2>1. \A holder \in {shm_mutex, shm_access_mutex} \ {Nobody} :
          Ended(holder) => holder \in cancelled
    BY DEF LeakInv, TypeOK, AccessMutexInv, MutexInv, Ended, At
  <2> QED BY <2>1 DEF LeakInv, TrapsInv, OnlyCancellationLeaks
<1> QED BY <1>1, LeakInvariant, PTL

-----------------------------------------------------------------------------
(* Until the first timeout every call keeps its trap. *)

\* Nobody is cancelled, and the tries before have ended.
InTimeInv == late \/ (cancelled = {} /\ \A h \in Handles : h[1] < try => Ended(h))

EnoughSlots == MAX_SHM_TRAPS >= NumThreads

\* Every call has its trap, and no thread has two.
KeptInv ==
  late \/ ~ EnoughSlots \/
  /\ \A h \in Handles : At(h, "call") => \E s \in Slots : traps[s] = TrapOf(h[2], OpOf(This(h)))
  /\ \A r, s \in Slots : traps[r].thread = traps[s].thread /\ ~ IsFree(r) => r = s

TrapsKeptInv == LeakInv /\ InTimeInv /\ KeptInv

LEMMA InTimeStep ==
  ASSUME LeakInv, InTimeInv, Next
  PROVE  InTimeInv'
<1> SUFFICES ASSUME ~ late' PROVE cancelled' = {} /\ \A h \in Handles' : h[1] < try' => Ended(h)'
  BY DEF InTimeInv
<1>1. CASE NextTry
  <2>1. ~ late /\ AllEnded /\ try' = try + 1
    BY <1>1 DEF NextTry
  <2>2. ASSUME NEW h \in Handles, h[1] < try + 1 PROVE Ended(h) /\ th'[h] = th[h]
    <3>1. h[1] \in Nat /\ try \in Nat
      BY HandleParts, NumTriesType DEF LeakInv, TypeOK
    <3>2. Ended(h)
      BY <2>1, <2>2, <3>1 DEF AllEnded, Current, InTimeInv
    <3> QED BY <1>1, <3>2, MainStays DEF LeakInv, Ended, At
  <2> QED BY <1>1, <2>1, <2>2, MainStays DEF LeakInv, InTimeInv, NextTry, Ended, At
<1>2. CASE Timeout
  BY <1>2 DEF Timeout
<1>3. ASSUME NEW h \in Handles, Moves(h) PROVE cancelled' = {} /\ \A g \in Handles' : g[1] < try' => Ended(g)'
  <2>1. ~ Ended(h)
    BY <1>3, OthersStay DEF LeakInv, Ended, At
  <2> QED BY <1>3, <2>1, OthersStay DEF LeakInv, InTimeInv, Ended, At, mainvars
<1> QED BY <1>1, <1>2, <1>3 DEF Next, Moves

\* Until then live threads are of this try.
LEMMA LiveIsCurrent ==
  ASSUME LeakInv, InTimeInv, ~ late, NEW h \in Handles, At(h, "routine") \/ At(h, "call")
  PROVE  h[1] = try
<1>1. h[1] \in Nat
  BY HandleParts, NumTriesType DEF LeakInv, TypeOK
<1>2. try \in Nat
  BY NumTriesType DEF LeakInv, TypeOK
<1>3. ~ (h[1] > try)
  BY DEF LeakInv, BirthInv, At
<1>4. ~ (h[1] < try)
  BY DEF InTimeInv, Ended, At
<1> QED BY <1>1, <1>2, <1>3, <1>4

\* Two live threads of one slot are one.
LEMMA OneInASlot ==
  ASSUME LeakInv, InTimeInv, ~ late, NEW g \in Handles, NEW h \in Handles,
         At(g, "routine") \/ At(g, "call"), At(h, "routine") \/ At(h, "call"), g[2] = h[2]
  PROVE  g = h
<1>1. g[1] = try /\ h[1] = try
  BY LiveIsCurrent
<1> QED BY <1>1, HandleParts DEF LeakInv, TypeOK

\* With a slot for every thread, a thread that begins a call finds one free.
LEMMA SlotAvailable ==
  ASSUME LeakInv, InTimeInv, KeptInv, ~ late, EnoughSlots, NEW h \in Handles, At(h, "routine")
  PROVE  /\ FreeSlots # {}
         /\ \A s \in Slots : traps[s].thread # h[2]
<1>1. ASSUME NEW s \in Slots PROVE traps[s].thread # h[2]
  <2> SUFFICES ASSUME traps[s].thread = h[2] PROVE FALSE
    OBVIOUS
  <2>1. ~ IsFree(s)
    BY HandleParts DEF IsFree, LeakInv, TypeOK, Threads, NoThread
  <2>2. PICK g \in Handles : g[2] = traps[s].thread /\ At(g, "call")
    BY <2>1 DEF LeakInv, TrapsInv, InTimeInv
  <2>3. g = h
    BY <2>2, OneInASlot
  <2> QED BY <2>2, <2>3 DEF At
<1>2. FreeSlots # {}
  <2> SUFFICES ASSUME FreeSlots = {} PROVE FALSE
    OBVIOUS
  <2> DEFINE S == Slots
             T == Threads \ {h[2]}
             f == [s \in S |-> traps[s].thread]
  <2>1. IsFiniteSet(S) /\ Cardinality(S) = MAX_SHM_TRAPS
    BY TrapTableAssumption, FS_Interval DEF Slots
  <2>2. IsFiniteSet(Threads) /\ Cardinality(Threads) = NumThreads
    BY ShmTypesAssumption, FS_Interval DEF Threads
  <2>3. h[2] \in Threads
    BY HandleParts DEF LeakInv, TypeOK
  <2>4. IsFiniteSet(T) /\ Cardinality(T) = NumThreads - 1
    BY <2>2, <2>3, FS_RemoveElement
  <2>5. Cardinality(T) < Cardinality(S)
    BY <2>1, <2>4, ShmTypesAssumption, TrapTableAssumption DEF EnoughSlots
  <2>6. \A s \in S : traps[s].thread \in T
    BY <1>1 DEF FreeSlots, IsFree, LeakInv, TypeOK, TrapTypeOK, Trap
  <2>7. f \in [S -> T]
    BY <2>6
  <2>8. \E r, s \in S : r # s /\ f[r] = f[s]
    <3> HIDE DEF S, T, f
    <3> QED BY <2>1, <2>4, <2>5, <2>7, FS_PigeonHole
  <2> QED BY <2>8 DEF KeptInv, FreeSlots
<1> QED BY <1>1, <1>2

LEMMA KeptStep ==
  ASSUME LeakInv, InTimeInv, KeptInv, Next
  PROVE  KeptInv'
<1> SUFFICES ASSUME ~ late', EnoughSlots
             PROVE  /\ \A h \in Handles' : At(h, "call")' =>
                         \E s \in Slots : traps'[s] = TrapOf(h[2], OpOf(This(h)'))
                    /\ \A r, s \in Slots : traps'[r].thread = traps'[s].thread /\ traps'[r].thread # NoThread => r = s
  BY DEF KeptInv, EnoughSlots, IsFree, Slots
<1>1. CASE NextTry
  <2>1. \A h \in Handles : th'[h].at # "call"
    <3>1. ~ late /\ AllEnded
      BY <1>1 DEF NextTry
    <3>2. \A h \in Handles : ~ At(h, "call")
      BY <3>1, LiveIsCurrent DEF AllEnded, Current, Ended, At
    <3> QED BY <1>1, <3>2, MainStays DEF LeakInv, At
  <2>2. traps' = traps \/ \A s \in Slots : traps'[s].thread = NoThread
    BY <1>1 DEF NextTry, clearall_traps, ZeroTrap
  <2>3. ~ late /\ Handles' = Handles
    BY <1>1, MainStays DEF NextTry, LeakInv
  <2>4. \A r, s \in Slots : traps[r].thread = traps[s].thread /\ traps[r].thread # NoThread => r = s
    BY <2>3 DEF KeptInv, IsFree
  <2>5. \A r, s \in Slots : traps'[r].thread = traps'[s].thread /\ traps'[r].thread # NoThread => r = s
    BY <2>2, <2>4
  <2>6. \A h \in Handles' : ~ At(h, "call")'
    BY <2>1, <2>3 DEF At
  <2> QED BY <2>5, <2>6
<1>2. CASE Timeout
  BY <1>2 DEF Timeout
<1>3. ASSUME NEW h \in Handles, Moves(h)
      PROVE  /\ \A g \in Handles' : At(g, "call")' =>
                  \E s \in Slots : traps'[s] = TrapOf(g[2], OpOf(This(g)'))
             /\ \A r, s \in Slots : traps'[r].thread = traps'[s].thread /\ traps'[r].thread # NoThread => r = s
  <2>0. /\ ~ late /\ Handles' = Handles /\ \A g : Program(g)' = Program(g)
        /\ \A g \in Handles \ {h} : th'[g] = th[g] /\ This(g)' = This(g)
    BY <1>3, OthersStay DEF LeakInv, mainvars, This
  <2>1. CASE BeginCall(h)
    <3>1. At(h, "routine") /\ th'[h].next = th[h].next /\ This(h)' = This(h)
      BY <2>0, <2>1 DEF BeginCall, AtStep, InRoutine, At, LeakInv, TypeOK, This
    <3>2. FreeSlots # {} /\ \A s \in Slots : traps[s].thread # h[2]
      BY <2>0, <3>1, SlotAvailable
    <3>3. PICK i \in FreeSlots : traps' = [traps EXCEPT ![i] = TrapOf(h[2], OpOf(This(h)))]
      BY <2>1, <3>2 DEF BeginCall, place_trap
    <3>4. /\ i \in Slots /\ traps[i].thread = NoThread
          /\ traps'[i] = TrapOf(h[2], OpOf(This(h))) /\ traps'[i].thread = h[2]
          /\ \A s \in Slots \ {i} : traps'[s] = traps[s]
      BY <3>3 DEF FreeSlots, IsFree, TrapOf, LeakInv, TypeOK, TrapTypeOK
    <3>5. \A g \in Handles : At(g, "call")' => \E s \in Slots : traps'[s] = TrapOf(g[2], OpOf(This(g)'))
      <4> SUFFICES ASSUME NEW g \in Handles, th'[g].at = "call", g # h
                   PROVE  \E s \in Slots : traps'[s] = TrapOf(g[2], OpOf(This(g)))
        BY <2>0, <3>1, <3>4 DEF At
      <4>1. PICK s \in Slots : traps[s] = TrapOf(g[2], OpOf(This(g)))
        BY <2>0 DEF KeptInv, At
      <4>2. s # i
        BY <3>4, <4>1, HandleParts DEF TrapOf, LeakInv, TypeOK, Threads, NoThread
      <4> QED BY <3>4, <4>1, <4>2
    <3>6. ASSUME NEW r \in Slots, NEW s \in Slots,
                 traps'[r].thread = traps'[s].thread, traps'[r].thread # NoThread
          PROVE  r = s
      BY <2>0, <3>2, <3>4, <3>6 DEF KeptInv, IsFree
    <3> QED BY <2>0, <3>5, <3>6
  <2>2. CASE EndCall(h)
    <3>1. th'[h].at = "routine" /\ At(h, "call")
      BY <2>2 DEF EndCall, LeakInv, TypeOK
    <3>2. traps' = [s \in Slots |-> IF traps[s].thread = h[2] THEN ZeroTrap ELSE traps[s]]
      BY <2>2 DEF EndCall, clear_traps
    <3>3. ASSUME NEW g \in Handles, th'[g].at = "call"
          PROVE  \E s \in Slots : traps'[s] = TrapOf(g[2], OpOf(This(g)'))
      <4>1. g # h /\ At(g, "call") /\ This(g)' = This(g)
        BY <2>0, <3>1, <3>3 DEF At
      <4>2. g[2] # h[2]
        BY <2>0, <3>1, <4>1, OneInASlot
      <4>3. PICK s \in Slots : traps[s] = TrapOf(g[2], OpOf(This(g)))
        BY <2>0, <4>1 DEF KeptInv
      <4> QED BY <3>2, <4>1, <4>2, <4>3 DEF TrapOf
    <3>4. ASSUME NEW r \in Slots, NEW s \in Slots,
                 traps'[r].thread = traps'[s].thread, traps'[r].thread # NoThread
          PROVE  r = s
      BY <2>0, <3>2, <3>4 DEF KeptInv, IsFree, ZeroTrap
    <3> QED BY <2>0, <3>3, <3>4 DEF At
  <2>3. CASE ~ BeginCall(h) /\ ~ EndCall(h)
    <3>1. UNCHANGED traps
      BY <1>3, <2>3 DEF Moves, Perform, TakeAccessMutex, GiveAccessMutex, Semaphore,
           Finish, DieSleeping, DiePrinting
    <3>2. th'[h].at # "call"
      BY <1>3, <2>3 DEF Moves, Perform, TakeAccessMutex, GiveAccessMutex, Semaphore,
           Finish, DieSleeping, DiePrinting, AtStep, InRoutine, At, LeakInv, TypeOK
    <3> QED BY <2>0, <3>1, <3>2 DEF KeptInv, IsFree, At
  <2> QED BY <2>1, <2>2, <2>3
<1> QED BY <1>1, <1>2, <1>3 DEF Next, Moves

LEMMA TrapsKeptInit == Init => TrapsKeptInv
<1> SUFFICES ASSUME Init PROVE TrapsKeptInv
  OBVIOUS
<1>1. \A h \in Handles : At(h, "unborn") /\ ~ (h[1] < try)
  BY HandleParts DEF Init, At, Unborn
<1>2. \A s \in Slots : traps[s].thread = NoThread
  BY DEF Init, TrapInit, ZeroTrap
<1> QED BY <1>1, <1>2, LeakInit DEF Init, TrapsKeptInv, InTimeInv, KeptInv, IsFree, At

LEMMA TrapsKeptStep == TrapsKeptInv /\ [Next]_vars => TrapsKeptInv'
<1>1. TrapsKeptInv /\ Next => TrapsKeptInv'
  BY LeakStep, InTimeStep, KeptStep DEF TrapsKeptInv
<1>2. TrapsKeptInv /\ UNCHANGED vars => TrapsKeptInv'
  <2> SUFFICES ASSUME TrapsKeptInv, UNCHANGED vars PROVE TrapsKeptInv'
    OBVIOUS
  <2>1. UNCHANGED <<th, try, late, cancelled, traps, Handles, Slots, EnoughSlots>>
        /\ \A h : Program(h)' = Program(h)
    BY SameProgram DEF vars, Slots, EnoughSlots
  <2>2. InTimeInv' /\ KeptInv'
    BY <2>1 DEF TrapsKeptInv, InTimeInv, KeptInv, At, Ended, This, IsFree
  <2> QED BY <2>2, LeakStep DEF TrapsKeptInv
<1> QED BY <1>1, <1>2

\* Until the first timeout main's resets take no trap from a call, and a slot
\* is found for each: every call in progress has its trap.
THEOREM TrapsKept == Spec => []CallsKeepTheirTraps
<1>1. TrapsKeptInv => CallsKeepTheirTraps
  BY ShmTypesAssumption, TrapTableAssumption
     DEF TrapsKeptInv, KeptInv, EnoughSlots, CallsKeepTheirTraps
<1> QED BY <1>1, TrapsKeptInit, TrapsKeptStep, PTL DEF Spec

-----------------------------------------------------------------------------
(* Programs of _safe routines: what is under the lock is unseen. *)

\* In shm_op, or between the lock and the unlock.
Inside(h) == At(h, "call") \/ (At(h, "routine") /\ th[h].next \in 2 .. Len(Program(h)))

ExclusionInv == \A h \in Handles : Inside(h) => shm_access_mutex = h

\* A trap is that of the holder, in its call or dead of it.
HolderTrapsInv ==
  \A s \in Slots : ~ IsFree(s) =>
    \E h \in Handles : /\ shm_access_mutex = h /\ traps[s].thread = h[2]
                       /\ At(h, "call") \/ Ended(h)

SafeInv == AllSafe => ExclusionInv /\ HolderTrapsInv /\ logged = {}

LEMMA SafeRoutine ==
  ASSUME program \in Programs, AllSafe, NEW h \in Handles
  PROVE  Routine(h) \in Safe
  BY HandleParts DEF AllSafe, Routine

\* A body of the _safe kind, position by position.
LEMMA SafeProgram ==
  ASSUME program \in Programs, AllSafe, NEW h \in Handles
  PROVE  /\ Len(Program(h)) \in Nat /\ Len(Program(h)) >= 2
         /\ Program(h)[1].do = "lock"
         /\ Program(h)[Len(Program(h))].do = "unlock"
         /\ \A k \in 2 .. Len(Program(h)) - 1 : Program(h)[k].do \in {"read", "write"}
<1>1. PICK steps \in Seq(Accesses) : Program(h) = WithAccessMutex(steps)
  BY SafeRoutine, SetValueAccesses, ReadModifyWriteAccesses DEF Program, Body, Safe
<1>2. Len(steps) \in Nat
  OBVIOUS
<1> HIDE DEF Program
<1>3. /\ Len(Program(h)) = Len(steps) + 2 /\ Program(h)[1].do = "lock"
      /\ Program(h)[Len(steps) + 2].do = "unlock"
      /\ \A k \in 2 .. Len(steps) + 1 : Program(h)[k] = steps[k - 1]
  BY <1>1, Guarded
<1>4. ASSUME NEW k \in 2 .. Len(Program(h)) - 1
      PROVE  Program(h)[k].do \in {"read", "write"}
  <2>1. k \in 2 .. Len(steps) + 1 /\ k - 1 \in 1 .. Len(steps)
    BY <1>2, <1>3
  <2>2. steps[k - 1] \in Accesses
    BY <2>1, ElementOfSeq
  <2> QED BY <1>3, <2>1, <2>2 DEF Accesses
<1> QED BY <1>2, <1>3, <1>4

\* Where the steps of a _safe routine are in its body.
LEMMA SafeSteps ==
  ASSUME TypeOK, AllSafe, NEW h \in Handles
  PROVE  /\ AtStep(h, "lock") => th[h].next = 1
         /\ AtStep(h, "unlock") => th[h].next = Len(Program(h))
         /\ AtStep(h, "read") \/ AtStep(h, "write") => th[h].next \in 2 .. Len(Program(h)) - 1
         /\ ~ (AtStep(h, "post") \/ AtStep(h, "wait") \/ AtStep(h, "sleep"))
<1> DEFINE k == th[h].next
           l == Len(Program(h))
<1>1. k \in Nat \ {0}
  BY DEF TypeOK
<1>2. /\ l \in Nat /\ l >= 2 /\ Program(h)[1].do = "lock" /\ Program(h)[l].do = "unlock"
      /\ \A n \in 2 .. l - 1 : Program(h)[n].do \in {"read", "write"}
  BY SafeProgram DEF TypeOK
<1>3. k <= l => k = 1 \/ k = l \/ k \in 2 .. l - 1
  BY <1>1, <1>2
<1>4. \A do : AtStep(h, do) => k <= l /\ Program(h)[k].do = do
  BY DEF AtStep, InRoutine, This
<1> HIDE DEF k, l
<1>5. /\ AtStep(h, "lock") => k = 1
      /\ AtStep(h, "unlock") => k = l
      /\ AtStep(h, "read") \/ AtStep(h, "write") => k \in 2 .. l - 1
      /\ ~ (AtStep(h, "post") \/ AtStep(h, "wait") \/ AtStep(h, "sleep"))
  BY <1>2, <1>3, <1>4
<1> QED BY <1>5 DEF k, l

\* Who accesses is inside, and so the holder; then there is no trap of another.
LEMMA NoForeignTraps ==
  ASSUME TypeOK, AllSafe, ExclusionInv, HolderTrapsInv, NEW h \in Handles,
         AtStep(h, "read") \/ AtStep(h, "write")
  PROVE  /\ shm_access_mutex = h
         /\ \A s \in Slots : traps[s].thread = NoThread
<1>1. At(h, "routine") /\ th[h].next \in 2 .. Len(Program(h)) - 1
  BY SafeSteps DEF AtStep, InRoutine
<1>2. Len(Program(h)) \in Nat
  BY SafeProgram DEF TypeOK
<1>3. shm_access_mutex = h
  BY <1>1, <1>2 DEF ExclusionInv, Inside
<1> QED BY <1>1, <1>3 DEF HolderTrapsInv, IsFree, At, Ended

LEMMA SameSafety ==
  ASSUME program' = program
  PROVE  AllSafe' = AllSafe
  BY SameProgram DEF AllSafe

LEMMA ExclusionStep ==
  ASSUME LeakInv, AllSafe, ExclusionInv, HolderTrapsInv, Next
  PROVE  ExclusionInv'
<1>1. CASE NextTry \/ Timeout
  <2>1. ASSUME NEW g \in Handles, Inside(g)' PROVE Inside(g)
    <3>1. CASE ~ At(g, "unborn")
      BY <1>1, <2>1, <3>1, MainStays DEF LeakInv, Inside, At
    <3>2. CASE At(g, "unborn")
      <4>1. th'[g].at \in {"routine", "gone", "unborn"}
        BY <1>1, <3>2, MainStays DEF LeakInv, At
      <4>2. th'[g] # th[g]
        BY <2>1, <3>2 DEF Inside, At
      <4>3. th'[g].next = 1
        BY <1>1, <4>2 DEF NextTry, Timeout, Unborn, LeakInv, TypeOK
      <4> QED BY <2>1, <4>1, <4>3 DEF Inside, At
    <3> QED BY <3>1, <3>2
  <2> QED BY <1>1, <2>1, MainStays DEF LeakInv, ExclusionInv
<1>2. ASSUME NEW h \in Handles, Moves(h) PROVE ExclusionInv'
  <2>0. /\ \A g \in Handles \ {h} : th'[g] = th[g]
        /\ Handles' = Handles /\ \A g : Program(g)' = Program(g)
        /\ TypeOK /\ h # Nobody
        /\ th[h].next \in Nat /\ Len(Program(h)) \in Nat
    <3>1. TypeOK /\ program \in Programs /\ th[h].next \in Nat
      BY DEF LeakInv, TypeOK
    <3>2. h # Nobody /\ Len(Program(h)) \in Nat
      BY <3>1, HandleParts, SafeProgram DEF Nobody
    <3>3. /\ \A g \in Handles \ {h} : th'[g] = th[g]
          /\ Handles' = Handles /\ \A g : Program(g)' = Program(g)
      BY <1>2, <3>1, OthersStay
    <3> QED BY <3>1, <3>2, <3>3
  <2>1. CASE TakeAccessMutex(h)
    <3>1. \A g \in Handles : ~ Inside(g)
      BY <2>1, HandleParts DEF TakeAccessMutex, ExclusionInv, Nobody, LeakInv, TypeOK
    <3> QED BY <2>0, <2>1, <3>1 DEF TakeAccessMutex, ExclusionInv, Inside, At
  <2>2. CASE GiveAccessMutex(h)
    <3>1. th[h].next = Len(Program(h)) /\ At(h, "routine") /\ Len(Program(h)) >= 2
      BY <2>0, <2>2, SafeSteps, SafeProgram
         DEF GiveAccessMutex, AtStep, InRoutine, LeakInv, TypeOK
    <3>2. shm_access_mutex = h
      BY <2>0, <3>1 DEF ExclusionInv, Inside
    <3>3. \A g \in Handles \ {h} : ~ Inside(g)
      BY <3>2 DEF ExclusionInv
    <3>4. th'[h].next = Len(Program(h)) + 1 /\ th'[h].at = "routine"
      BY <2>2, <3>1 DEF GiveAccessMutex, LeakInv, TypeOK, At
    <3> QED BY <2>0, <3>3, <3>4 DEF ExclusionInv, Inside, At
  <2>3. CASE ~ TakeAccessMutex(h) /\ ~ GiveAccessMutex(h)
    <3>1. shm_access_mutex' = shm_access_mutex
      BY <1>2, <2>3 DEF Moves, Perform, BeginCall, EndCall, Semaphore, Finish,
           DieSleeping, DiePrinting
    <3>2. Inside(h)' => Inside(h)
      <4>1. CASE BeginCall(h)
        BY <2>0, <4>1, SafeSteps DEF BeginCall, AtStep, InRoutine, Inside
      <4>2. CASE EndCall(h)
        BY <4>2 DEF EndCall, Inside
      <4>3. CASE Semaphore(h)
        BY <2>0, <4>3, SafeSteps DEF Semaphore
      <4>4. CASE Finish(h) \/ DieSleeping(h) \/ DiePrinting(h)
        <5>1. th'[h].at = "gone"
          BY <2>0, <4>4 DEF Finish, DieSleeping, DiePrinting, TypeOK
        <5> QED BY <5>1 DEF Inside, At
      <4> QED BY <1>2, <2>3, <4>1, <4>2, <4>3, <4>4 DEF Moves, Perform
    <3> QED BY <2>0, <3>1, <3>2 DEF ExclusionInv, Inside, At
  <2> QED BY <2>1, <2>2, <2>3
<1> QED BY <1>1, <1>2 DEF Next, Moves

LEMMA HolderTrapsStep ==
  ASSUME LeakInv, AllSafe, ExclusionInv, HolderTrapsInv, Next
  PROVE  HolderTrapsInv'
<1>1. CASE NextTry \/ Timeout
  <2>1. \A g \in Handles : At(g, "call") \/ Ended(g) => th'[g] = th[g]
    BY <1>1, MainStays DEF LeakInv, Ended, At
  <2>2. UNCHANGED traps \/ traps' = [i \in Slots |-> ZeroTrap]
    BY <1>1 DEF NextTry, Timeout, clearall_traps
  <2> QED BY <1>1, <2>1, <2>2, MainStays
          DEF LeakInv, HolderTrapsInv, IsFree, Ended, At, ZeroTrap
<1>2. ASSUME NEW h \in Handles, Moves(h) PROVE HolderTrapsInv'
  <2>0. /\ \A g \in Handles \ {h} : th'[g] = th[g]
        /\ Handles' = Handles /\ TypeOK /\ h # Nobody
    <3>1. TypeOK /\ program \in Programs
      BY DEF LeakInv, TypeOK
    <3>2. h # Nobody
      BY <3>1, HandleParts DEF Nobody
    <3>3. (\A g \in Handles \ {h} : th'[g] = th[g]) /\ Handles' = Handles
      BY <1>2, <3>1, OthersStay
    <3> QED BY <3>1, <3>2, <3>3
  <2>1. CASE BeginCall(h)
    <3>1. th'[h].at = "call" /\ shm_access_mutex' = shm_access_mutex
      BY <2>0, <2>1 DEF BeginCall, TypeOK
    <3>2. shm_access_mutex = h /\ \A s \in Slots : traps[s].thread = NoThread
      BY <2>0, <2>1, NoForeignTraps DEF BeginCall
    <3>3. \A s \in Slots : traps'[s].thread \in {NoThread, h[2]}
      BY <2>0, <2>1, <3>2 DEF BeginCall, place_trap, FreeSlots, TrapOf, TypeOK, TrapTypeOK
    <3> QED BY <2>0, <3>1, <3>2, <3>3 DEF HolderTrapsInv, IsFree, At
  <2>2. CASE EndCall(h)
    <3>1. shm_access_mutex = h
      BY <2>2 DEF EndCall, ExclusionInv, Inside
    <3>2. \A s \in Slots : traps'[s].thread = NoThread
      BY <2>2, <3>1 DEF EndCall, clear_traps, ZeroTrap, HolderTrapsInv, IsFree
    <3> QED BY <3>2 DEF HolderTrapsInv, IsFree
  <2>3. CASE TakeAccessMutex(h) \/ GiveAccessMutex(h)
    <3>1. CASE TakeAccessMutex(h)
      <4>1. \A s \in Slots : traps[s].thread = NoThread
        BY <3>1, HandleParts DEF TakeAccessMutex, HolderTrapsInv, IsFree, Nobody, LeakInv, TypeOK
      <4> QED BY <3>1, <4>1 DEF TakeAccessMutex, HolderTrapsInv, IsFree
    <3>2. CASE GiveAccessMutex(h)
      <4>1. At(h, "routine") /\ Inside(h)
        BY <2>0, <3>2, SafeSteps, SafeProgram, SMTT(20)
           DEF GiveAccessMutex, AtStep, InRoutine, Inside, TypeOK
      <4>2. \A s \in Slots : traps[s].thread = NoThread
        BY <4>1 DEF ExclusionInv, HolderTrapsInv, IsFree, At, Ended
      <4> QED BY <3>2, <4>2 DEF GiveAccessMutex, HolderTrapsInv, IsFree
    <3> QED BY <2>3, <3>1, <3>2
  <2>4. CASE Semaphore(h) \/ Finish(h) \/ DieSleeping(h) \/ DiePrinting(h)
    <3>1. UNCHANGED <<traps, shm_access_mutex>>
      BY <2>4 DEF Semaphore, Finish, DieSleeping, DiePrinting
    <3>2. At(h, "call") => th'[h].at = "gone"
      BY <2>0, <2>4 DEF Semaphore, Finish, DieSleeping, DiePrinting, AtStep, InRoutine, At, TypeOK
    <3>3. ~ Ended(h)
      BY <1>2, OthersStay DEF LeakInv, Ended, At
    <3> QED BY <2>0, <3>1, <3>2, <3>3 DEF HolderTrapsInv, IsFree, At, Ended
  <2> QED BY <1>2, <2>1, <2>2, <2>3, <2>4 DEF Moves, Perform
<1> QED BY <1>1, <1>2 DEF Next, Moves

LEMMA UnreportedStep ==
  ASSUME LeakInv, AllSafe, ExclusionInv, HolderTrapsInv, logged = {}, Next
  PROVE  logged' = {}
<1>1. CASE NextTry \/ Timeout
  BY <1>1 DEF NextTry, Timeout
<1>2. ASSUME NEW h \in Handles, BeginCall(h) PROVE logged' = {}
  <2>1. \A s \in Slots : traps[s].thread = NoThread
    BY <1>2, NoForeignTraps DEF BeginCall, LeakInv
  <2>2. find_trap_violations(h[2], OpOf(This(h))) = {}
    BY <2>1 DEF find_trap_violations, Races
  <2> QED BY <1>2, <2>2 DEF BeginCall
<1>3. ASSUME NEW h \in Handles, DiePrinting(h) PROVE FALSE
  <2>1. \A s \in Slots : traps[s].thread = NoThread
    BY <1>3, NoForeignTraps DEF DiePrinting, LeakInv
  <2>2. PICK s \in Slots : Races(h[2], OpOf(This(h)), traps[s], HeldDirection(traps[s]))
    BY <1>3 DEF DiePrinting
  <2> QED BY <2>1, <2>2 DEF Races
<1>4. ASSUME NEW h \in Handles, Moves(h), ~ BeginCall(h), ~ DiePrinting(h) PROVE logged' = {}
  BY <1>4 DEF Moves, Perform, EndCall, TakeAccessMutex, GiveAccessMutex, Semaphore, Finish, DieSleeping
<1> QED BY <1>1, <1>2, <1>3, <1>4 DEF Next, Moves

ExclusiveInv == LeakInv /\ SafeInv

LEMMA ExclusiveInit == Init => ExclusiveInv
<1> SUFFICES ASSUME Init PROVE ExclusiveInv
  OBVIOUS
<1>1. \A h \in Handles : ~ Inside(h)
  BY DEF Init, Inside, At, Unborn
<1>2. \A s \in Slots : IsFree(s)
  BY DEF Init, TrapInit, ZeroTrap, IsFree
<1> QED BY <1>1, <1>2, LeakInit DEF Init, ExclusiveInv, SafeInv, ExclusionInv, HolderTrapsInv

LEMMA ExclusiveStep == ExclusiveInv /\ [Next]_vars => ExclusiveInv'
<1> SUFFICES ASSUME ExclusiveInv, [Next]_vars PROVE ExclusiveInv'
  OBVIOUS
<1>1. LeakInv' /\ AllSafe' = AllSafe
  BY LeakStep, ProgramStays, SameSafety DEF ExclusiveInv
<1>2. CASE Next
  BY <1>1, <1>2, ExclusionStep, HolderTrapsStep, UnreportedStep DEF ExclusiveInv, SafeInv
<1>3. CASE UNCHANGED vars
  <2>1. UNCHANGED <<th, traps, logged, shm_access_mutex, Handles, Slots>>
        /\ \A h : Program(h)' = Program(h)
    BY <1>3, SameProgram DEF vars, Slots
  <2>2. SafeInv'
    BY <1>1, <2>1 DEF ExclusiveInv, SafeInv, ExclusionInv, HolderTrapsInv, Inside, IsFree, At, Ended
  <2> QED BY <1>1, <2>2 DEF ExclusiveInv
<1> QED BY <1>2, <1>3

LEMMA ExclusiveInvariant == Spec => []ExclusiveInv
  BY ExclusiveInit, ExclusiveStep, PTL DEF Spec

\* Threads of _safe routines are never reported, whatever is cancelled: the
\* lock is given back after the trap is cleared, or never.
THEOREM SafeUnreported == Spec => [](AllSafe => logged = {})
<1>1. ExclusiveInv => (AllSafe => logged = {})
  BY DEF ExclusiveInv, SafeInv
<1> QED BY <1>1, ExclusiveInvariant, PTL

-----------------------------------------------------------------------------
(* Programs of _safe routines implement the atomic store. *)

\* The accesses a holder has begun.
Begun(h) == th[h].next - (IF At(h, "call") THEN 1 ELSE 2)

\* setValue reads cnt_x once and counts on from there.
SetValueInv(h) ==
  /\ Begun(h) \in 0 .. Increments + 1
  /\ mem["a"] = before["a"] /\ mem["num_parcels"] = before["num_parcels"]
  /\ mem["cnt_x"] = before["cnt_x"] + (IF Begun(h) = 0 THEN 0 ELSE Begun(h) - 1)
  /\ Begun(h) > 0 => th[h].tmp = mem["cnt_x"]

ModifyInv(h) ==
  /\ Begun(h) \in 0 .. 2
  /\ mem["cnt_x"] = before["cnt_x"] /\ mem["num_parcels"] = before["num_parcels"]
  /\ mem["a"] = IF Begun(h) = 2 THEN SetBit(before["a"]) ELSE before["a"]
  /\ Begun(h) > 0 => th[h].tmp = mem["a"]

\* What a holder has half done.
HalfInv ==
  AllSafe => \A h \in Handles : shm_access_mutex = h /\ ~ Ended(h) =>
    /\ Routine(h) = "setValue_safe" => SetValueInv(h)
    /\ Routine(h) = "readModifyWrite_safe" => ModifyInv(h)

LEMMA SetValueSteps ==
  /\ Len(setValue) = Increments + 1
  /\ setValue[1] = Read("cnt_x", "setValue:34")
  /\ \A k \in 2 .. Increments + 1 : setValue[k] = Write("cnt_x", "setValue:37")
<1> DEFINE r == Read("cnt_x", "setValue:34")
           w == Write("cnt_x", "setValue:37")
           ws == Times(Increments, <<w>>)
<1>1. r \in Accesses /\ w \in Accesses
  BY MemberNamesAre DEF Accesses, Read, Write, Step, CallSites, WriteSites
<1>2. <<r>> \in Seq(Accesses) /\ Len(<<r>>) = 1 /\ <<r>>[1] = r
  BY <1>1, Singleton
<1>3. <<w>> \in Seq(Accesses) /\ Len(<<w>>) = 1 /\ <<w>>[1] = w
  BY <1>1, Singleton
<1>4. Increments \in Nat
  BY WorkloadsAssumption
<1>5. ws \in Seq(Accesses)
  BY <1>3, <1>4, TimesIsSeq
<1> HIDE DEF r, w
<1>6. ws = [k \in 1 .. Increments |-> w]
  <2>1. ws = [k \in 1 .. Increments * 1 |-> <<w>>[((k - 1) % 1) + 1]]
    BY <1>3 DEF Times
  <2>2. Increments * 1 = Increments /\ \A k \in 1 .. Increments : ((k - 1) % 1) + 1 = 1
    BY <1>4
  <2> QED BY <1>3, <2>1, <2>2
<1>7. Len(ws) = Increments /\ \A k \in 1 .. Increments : ws[k] = w
  BY <1>4, <1>6
<1> HIDE DEF ws
<1>8. /\ Len(<<r>> \o ws) = Len(<<r>>) + Len(ws)
      /\ \A k \in 1 .. Len(<<r>>) + Len(ws) :
           (<<r>> \o ws)[k] = IF k <= Len(<<r>>) THEN <<r>>[k] ELSE ws[k - Len(<<r>>)]
  BY <1>2, <1>5, ConcatProperties
<1>9. /\ Len(<<r>> \o ws) = Increments + 1 /\ (<<r>> \o ws)[1] = r
      /\ \A k \in 2 .. Increments + 1 : (<<r>> \o ws)[k] = w
  BY <1>2, <1>4, <1>7, <1>8
<1> QED BY <1>9 DEF setValue, r, w, ws

LEMMA ReadModifyWriteSteps ==
  /\ Len(readModifyWrite) = 2
  /\ readModifyWrite[1] = Read("a", "readModifyWrite:48")
  /\ readModifyWrite[2] = Write("a", "readModifyWrite:50")
  BY DEF readModifyWrite

\* The steps between lock and unlock.
LEMMA SafeBodies ==
  ASSUME program \in Programs, NEW h \in Handles
  PROVE  /\ Routine(h) = "setValue_safe" =>
              /\ Len(Program(h)) = Increments + 3
              /\ Program(h)[2] = Read("cnt_x", "setValue:34")
              /\ \A k \in 3 .. Increments + 2 : Program(h)[k] = Write("cnt_x", "setValue:37")
         /\ Routine(h) = "readModifyWrite_safe" =>
              /\ Len(Program(h)) = 4
              /\ Program(h)[2] = Read("a", "readModifyWrite:48")
              /\ Program(h)[3] = Write("a", "readModifyWrite:50")
<1>1. ASSUME Routine(h) = "setValue_safe"
      PROVE  /\ Len(Program(h)) = Increments + 3
             /\ Program(h)[2] = Read("cnt_x", "setValue:34")
             /\ \A k \in 3 .. Increments + 2 : Program(h)[k] = Write("cnt_x", "setValue:37")
  <2>1. Program(h) = WithAccessMutex(setValue)
    BY <1>1 DEF Program, Body
  <2>2. /\ Len(Program(h)) = Len(setValue) + 2
        /\ \A k \in 2 .. Len(setValue) + 1 : Program(h)[k] = setValue[k - 1]
    BY <2>1, Guarded, SetValueAccesses
  <2> QED BY <2>2, SetValueSteps, WorkloadsAssumption
<1>2. ASSUME Routine(h) = "readModifyWrite_safe"
      PROVE  /\ Len(Program(h)) = 4
             /\ Program(h)[2] = Read("a", "readModifyWrite:48")
             /\ Program(h)[3] = Write("a", "readModifyWrite:50")
  <2>1. Program(h) = WithAccessMutex(readModifyWrite)
    BY <1>2 DEF Program, Body
  <2>2. /\ Len(Program(h)) = Len(readModifyWrite) + 2
        /\ \A k \in 2 .. Len(readModifyWrite) + 1 : Program(h)[k] = readModifyWrite[k - 1]
    BY <2>1, Guarded, ReadModifyWriteAccesses
  <2> QED BY <2>2, ReadModifyWriteSteps
<1> QED BY <1>1, <1>2

\* An access of a holder is the next one of its routine.
LEMMA HalfCall ==
  ASSUME ExclusiveInv, AllSafe, HalfInv, NEW h \in Handles, BeginCall(h)
  PROVE  /\ Routine(h) = "setValue_safe" => SetValueInv(h)'
         /\ Routine(h) = "readModifyWrite_safe" => ModifyInv(h)'
<1>0. TypeOK /\ program \in Programs /\ LeakInv /\ Increments \in Nat
  BY WorkloadsAssumption DEF ExclusiveInv, LeakInv, TypeOK
<1>1. /\ At(h, "routine") /\ th[h].next \in 2 .. Len(Program(h)) - 1
      /\ Len(Program(h)) \in Nat
  BY <1>0, SafeSteps, SafeProgram DEF BeginCall, AtStep, InRoutine
<1>2. shm_access_mutex = h /\ ~ Ended(h)
  BY <1>1 DEF ExclusiveInv, SafeInv, ExclusionInv, Inside, At, Ended
<1>3. PICK k \in Nat : th[h].next = k + 2
  BY <1>1
<1>4. Begun(h) = k /\ Begun(h)' = k + 1 /\ before' = before
  BY <1>0, <1>1, <1>3 DEF BeginCall, Begun, At, TypeOK
<1>5. /\ mem \in [DOMAIN Members -> Nat] /\ before \in [DOMAIN Members -> Nat]
      /\ DOMAIN Members = {"cnt_x", "a", "num_parcels"}
      /\ th[h].tmp \in Nat
  BY <1>0, MemberNamesAre DEF TypeOK, MemberNames
<1> DEFINE value == IF This(h).do = "read" THEN mem[This(h).member]
                    ELSE Computed(This(h).site, th[h].tmp)
<1>6. /\ mem' = [mem EXCEPT ![This(h).member] = value]
      /\ th'[h].tmp = value
  BY <1>0 DEF BeginCall, TypeOK
<1>7. ASSUME Routine(h) = "setValue_safe" PROVE SetValueInv(h)'
  <2>1. SetValueInv(h)
    BY <1>2, <1>7 DEF HalfInv
  <2>2. Len(Program(h)) = Increments + 3
    BY <1>0, <1>7, SafeBodies
  <2>3. k \in 0 .. Increments
    BY <1>0, <1>1, <1>3, <2>2
  <2>4. CASE k = 0
    <3>1. This(h) = Read("cnt_x", "setValue:34")
      BY <1>0, <1>3, <1>7, <2>4, SafeBodies DEF This
    <3>2. value = mem["cnt_x"] /\ This(h).member = "cnt_x"
      BY <3>1 DEF Read, Step
    <3>3. mem' = mem /\ th'[h].tmp = mem["cnt_x"]
      BY <1>5, <1>6, <3>2
    <3> QED BY <1>0, <1>4, <1>5, <2>1, <2>4, <3>3 DEF SetValueInv
  <2>5. CASE k > 0
    <3>1. This(h) = Write("cnt_x", "setValue:37")
      BY <1>0, <1>3, <1>7, <2>3, <2>5, SafeBodies DEF This
    <3>2. value = th[h].tmp + 1 /\ This(h).member = "cnt_x"
      BY <3>1 DEF Write, Step, Computed
    <3>3. /\ mem'["cnt_x"] = th[h].tmp + 1 /\ th'[h].tmp = th[h].tmp + 1
          /\ mem'["a"] = mem["a"] /\ mem'["num_parcels"] = mem["num_parcels"]
      BY <1>5, <1>6, <3>2
    <3>4. th[h].tmp = mem["cnt_x"] /\ mem["cnt_x"] = before["cnt_x"] + (k - 1)
      BY <1>4, <2>1, <2>5 DEF SetValueInv
    <3> QED BY <1>0, <1>4, <1>5, <2>1, <2>3, <2>5, <3>3, <3>4 DEF SetValueInv
  <2> QED BY <2>3, <2>4, <2>5
<1>8. ASSUME Routine(h) = "readModifyWrite_safe" PROVE ModifyInv(h)'
  <2>1. ModifyInv(h)
    BY <1>2, <1>8 DEF HalfInv
  <2>2. Len(Program(h)) = 4
    BY <1>0, <1>8, SafeBodies
  <2>3. k \in {0, 1}
    BY <1>1, <1>3, <2>2
  <2>4. CASE k = 0
    <3>1. This(h) = Read("a", "readModifyWrite:48")
      BY <1>0, <1>3, <1>8, <2>4, SafeBodies DEF This
    <3>2. value = mem["a"] /\ This(h).member = "a"
      BY <3>1 DEF Read, Step
    <3>3. mem' = mem /\ th'[h].tmp = mem["a"]
      BY <1>5, <1>6, <3>2
    <3> QED BY <1>4, <1>5, <2>1, <2>4, <3>3 DEF ModifyInv
  <2>5. CASE k = 1
    <3>1. This(h) = Write("a", "readModifyWrite:50")
      BY <1>0, <1>3, <1>8, <2>5, SafeBodies DEF This
    <3>2. value = SetBit(th[h].tmp) /\ This(h).member = "a"
      BY <3>1 DEF Write, Step, Computed
    <3>3. /\ mem'["a"] = SetBit(th[h].tmp) /\ th'[h].tmp = SetBit(th[h].tmp)
          /\ mem'["cnt_x"] = mem["cnt_x"] /\ mem'["num_parcels"] = mem["num_parcels"]
      BY <1>5, <1>6, <3>2
    <3>4. th[h].tmp = before["a"]
      BY <1>4, <2>1, <2>5 DEF ModifyInv
    <3> QED BY <1>4, <2>1, <2>5, <3>3, <3>4 DEF ModifyInv
  <2> QED BY <2>3, <2>4, <2>5
<1> QED BY <1>7, <1>8

LEMMA HalfNext ==
  ASSUME ExclusiveInv, AllSafe, HalfInv, Next
  PROVE  HalfInv'
<1>0. TypeOK /\ program \in Programs /\ LeakInv
  BY DEF ExclusiveInv, LeakInv, TypeOK
<1>1. /\ UNCHANGED <<program, Handles>> /\ \A g : Routine(g)' = Routine(g)
  BY ProgramStays, SameProgram
<1>2. SUFFICES ASSUME NEW g \in Handles, shm_access_mutex' = g, th'[g].at # "gone"
               PROVE  /\ Routine(g) = "setValue_safe" => SetValueInv(g)'
                      /\ Routine(g) = "readModifyWrite_safe" => ModifyInv(g)'
  BY <1>1 DEF HalfInv, Ended, At
<1>3. g # Nobody
  BY <1>0, HandleParts DEF Nobody
<1> DEFINE Kept == /\ shm_access_mutex = g /\ ~ Ended(g)
                   /\ UNCHANGED <<mem, before>>
                   /\ th'[g].tmp = th[g].tmp /\ Begun(g)' = Begun(g)
<1>4. ASSUME Kept PROVE /\ Routine(g) = "setValue_safe" => SetValueInv(g)'
                        /\ Routine(g) = "readModifyWrite_safe" => ModifyInv(g)'
  <2>1. /\ Routine(g) = "setValue_safe" => SetValueInv(g)
        /\ Routine(g) = "readModifyWrite_safe" => ModifyInv(g)
    BY <1>4 DEF HalfInv
  <2> QED BY <1>4, <2>1 DEF SetValueInv, ModifyInv
<1>5. CASE NextTry \/ Timeout
  <2>1. shm_access_mutex = g /\ UNCHANGED <<mem, before>>
    BY <1>2, <1>5 DEF NextTry, Timeout
  <2>2. th'[g] = th[g]
    BY <1>0, <1>5, <2>1, MainStays DEF LeakInv, AccessMutexInv, Ended, At
  <2>3. Kept
    BY <1>2, <2>1, <2>2 DEF Begun, At, Ended
  <2> QED BY <1>4, <2>3
<1>6. ASSUME NEW h \in Handles, Moves(h), h # g
      PROVE  Kept
  <2>1. th'[g] = th[g]
    BY <1>0, <1>6, OthersStay
  <2>2. ~ TakeAccessMutex(h) /\ ~ GiveAccessMutex(h)
    BY <1>2, <1>3, <1>6 DEF TakeAccessMutex, GiveAccessMutex
  <2>3. shm_access_mutex = g /\ before' = before
    BY <1>2, <1>6, <2>2 DEF Moves, Perform, BeginCall, EndCall, Semaphore, Finish,
         DieSleeping, DiePrinting
  <2>4. ~ BeginCall(h)
    BY <1>0, <1>6, <2>3, NoForeignTraps DEF BeginCall, ExclusiveInv, SafeInv
  <2>5. mem' = mem
    BY <1>6, <2>2, <2>4 DEF Moves, Perform, EndCall, Semaphore, Finish, DieSleeping, DiePrinting
  <2> QED BY <1>2, <2>1, <2>3, <2>5 DEF Begun, At, Ended
<1>7. CASE Moves(g)
  <2>1. CASE TakeAccessMutex(g)
    <3>1. th[g].next = 1
      BY <1>0, <2>1, SafeSteps DEF TakeAccessMutex
    <3>2. Begun(g)' = 0 /\ mem' = mem /\ before' = mem
      BY <1>0, <2>1, <3>1 DEF TakeAccessMutex, Begun, AtStep, InRoutine, At, TypeOK
    <3> QED BY <3>2, <1>0, MemberNamesAre, WorkloadsAssumption
            DEF SetValueInv, ModifyInv, TypeOK, MemberNames
  <2>2. CASE BeginCall(g)
    BY <2>2, HalfCall
  <2>3. CASE EndCall(g)
    <3>1. shm_access_mutex = g /\ UNCHANGED <<mem, before>>
      BY <1>2, <2>3 DEF EndCall
    <3>2. th'[g].tmp = th[g].tmp /\ Begun(g)' = Begun(g) /\ ~ Ended(g)
      BY <1>0, <2>3 DEF EndCall, Begun, At, Ended, TypeOK
    <3> QED BY <1>4, <3>1, <3>2
  <2>4. ~ GiveAccessMutex(g) /\ ~ Semaphore(g)
    BY <1>0, <1>2, <1>3, SafeSteps DEF GiveAccessMutex, Semaphore
  <2>5. ~ Finish(g) /\ ~ DieSleeping(g) /\ ~ DiePrinting(g)
    BY <1>0, <1>2 DEF Finish, DieSleeping, DiePrinting, TypeOK
  <2> QED BY <1>7, <2>1, <2>2, <2>3, <2>4, <2>5 DEF Moves, Perform
<1> QED BY <1>4, <1>5, <1>6, <1>7 DEF Next, Moves

ImplementedInv == ExclusiveInv /\ HalfInv

LEMMA ImplementedInvariant == Spec => []ImplementedInv
<1>1. Init => ImplementedInv
  <2> SUFFICES ASSUME Init PROVE ImplementedInv
    OBVIOUS
  <2>1. \A h \in Handles : shm_access_mutex # h
    BY HandleParts DEF Init, Nobody
  <2> QED BY <2>1, ExclusiveInit DEF ImplementedInv, HalfInv
<1>2. ImplementedInv /\ [Next]_vars => ImplementedInv'
  <2> SUFFICES ASSUME ImplementedInv, [Next]_vars PROVE ImplementedInv'
    OBVIOUS
  <2>1. ExclusiveInv' /\ AllSafe' = AllSafe
    BY ExclusiveStep, ProgramStays, SameSafety DEF ImplementedInv
  <2>2. CASE Next
    <3>1. ASSUME ~ AllSafe PROVE HalfInv'
      BY <2>1, <3>1 DEF HalfInv
    <3> QED BY <2>1, <2>2, <3>1, HalfNext DEF ImplementedInv
  <2>3. CASE UNCHANGED vars
    <3>1. /\ UNCHANGED <<th, mem, before, shm_access_mutex, Handles>>
          /\ \A h : Routine(h)' = Routine(h)
      BY <2>3, SameProgram DEF vars
    <3> QED BY <2>1, <3>1 DEF ImplementedInv, HalfInv, SetValueInv, ModifyInv, Begun, At, Ended
  <2> QED BY <2>2, <2>3
<1> QED BY <1>1, <1>2, PTL DEF Spec

\* What the store is, and when it changes.
StoreNow == IF ~ AllSafe THEN Empty
            ELSE IF shm_access_mutex = Nobody THEN mem ELSE before

LEMMA UnlockCommits ==
  ASSUME ImplementedInv, AllSafe, NEW h \in Handles, GiveAccessMutex(h)
  PROVE  /\ shm_access_mutex = h /\ shm_access_mutex' = Nobody /\ mem' = mem
         /\ \/ mem = [before EXCEPT !.cnt_x = @ + Increments]
            \/ mem = [before EXCEPT !.a = SetBit(@)]
<1>0. TypeOK /\ program \in Programs /\ LeakInv /\ Increments \in Nat
  BY WorkloadsAssumption DEF ImplementedInv, ExclusiveInv, LeakInv, TypeOK
<1>1. /\ th[h].next = Len(Program(h)) /\ At(h, "routine")
      /\ Len(Program(h)) \in Nat /\ Len(Program(h)) >= 2
  BY <1>0, SafeSteps, SafeProgram DEF GiveAccessMutex, AtStep, InRoutine
<1>2. shm_access_mutex = h /\ ~ Ended(h)
  BY <1>1 DEF ImplementedInv, ExclusiveInv, SafeInv, ExclusionInv, Inside, At, Ended
<1>3. Begun(h) = Len(Program(h)) - 2
  BY <1>1 DEF Begun, At
<1>4. /\ mem \in [DOMAIN Members -> Nat] /\ before \in [DOMAIN Members -> Nat]
      /\ DOMAIN Members = {"cnt_x", "a", "num_parcels"}
  BY <1>0, MemberNamesAre DEF TypeOK, MemberNames
<1>5. CASE Routine(h) = "setValue_safe"
  <2>1. SetValueInv(h) /\ Begun(h) = Increments + 1
    BY <1>0, <1>2, <1>3, <1>5, SafeBodies DEF ImplementedInv, HalfInv
  <2>2. /\ mem["cnt_x"] = before["cnt_x"] + Increments
        /\ mem["a"] = before["a"] /\ mem["num_parcels"] = before["num_parcels"]
    BY <1>0, <1>4, <2>1 DEF SetValueInv
  <2> QED BY <1>2, <1>4, <2>2 DEF GiveAccessMutex
<1>6. CASE Routine(h) = "readModifyWrite_safe"
  <2>1. ModifyInv(h) /\ Begun(h) = 2
    BY <1>0, <1>2, <1>3, <1>6, SafeBodies DEF ImplementedInv, HalfInv
  <2>2. /\ mem["a"] = SetBit(before["a"])
        /\ mem["cnt_x"] = before["cnt_x"] /\ mem["num_parcels"] = before["num_parcels"]
    BY <2>1 DEF ModifyInv
  <2> QED BY <1>2, <1>4, <2>2 DEF GiveAccessMutex
<1> QED BY <1>0, <1>5, <1>6, SafeRoutine DEF Safe

\* Programs of _safe routines implement the store whose updates are indivisible:
\* an unlock makes one whole update, and nothing else, the death of a holder
\* included, changes what the next holder will see.
THEOREM StoreImplemented == Spec => ImplementsStore
<1>1. Init => Store!Init
  <2> SUFFICES ASSUME Init PROVE Store!Init
    OBVIOUS
  <2>1. StoreNow = Empty
    BY DEF Init, StoreNow
  <2> QED BY <2>1, MemberNamesAre DEF StoreNow, Store!Init, Empty, MemberNames
<1>2. ImplementedInv /\ [Next]_vars => [Store!Next]_StoreNow
  <2> SUFFICES ASSUME ImplementedInv, [Next]_vars PROVE Store!Next \/ UNCHANGED StoreNow
    OBVIOUS
  <2>0. AllSafe' = AllSafe /\ LeakInv /\ TypeOK
    BY ProgramStays, SameSafety DEF ImplementedInv, ExclusiveInv, LeakInv
  <2>1. CASE ~ AllSafe
    BY <2>0, <2>1, SameProgram DEF StoreNow, Empty
  <2>2. CASE AllSafe /\ UNCHANGED vars
    BY <2>0, <2>2 DEF StoreNow, vars
  <2>3. CASE AllSafe /\ (NextTry \/ Timeout)
    BY <2>0, <2>3 DEF StoreNow, NextTry, Timeout
  <2>4. ASSUME AllSafe, NEW h \in Handles, Moves(h), ~ GiveAccessMutex(h)
        PROVE  UNCHANGED StoreNow
    <3>1. h # Nobody
      BY <2>0, HandleParts DEF Nobody, TypeOK
    <3>2. CASE TakeAccessMutex(h)
      BY <2>0, <2>4, <3>1, <3>2 DEF StoreNow, TakeAccessMutex
    <3>3. CASE BeginCall(h)
      <4>1. shm_access_mutex = h
        BY <2>0, <2>4, <3>3, NoForeignTraps DEF BeginCall, ImplementedInv, ExclusiveInv, SafeInv
      <4> QED BY <2>0, <2>4, <3>1, <3>3, <4>1 DEF StoreNow, BeginCall
    <3>4. CASE ~ TakeAccessMutex(h) /\ ~ BeginCall(h)
      BY <2>0, <2>4, <3>4 DEF StoreNow, Moves, Perform, EndCall, Semaphore, Finish,
           DieSleeping, DiePrinting
    <3> QED BY <3>2, <3>3, <3>4
  <2>5. ASSUME AllSafe, NEW h \in Handles, GiveAccessMutex(h)
        PROVE  Store!Next
    <3>1. /\ shm_access_mutex = h /\ h # Nobody /\ shm_access_mutex' = Nobody /\ mem' = mem
          /\ \/ mem = [before EXCEPT !.cnt_x = @ + Increments]
             \/ mem = [before EXCEPT !.a = SetBit(@)]
      BY <2>0, <2>5, UnlockCommits, HandleParts DEF Nobody, TypeOK
    <3>2. StoreNow = before /\ StoreNow' = mem
      BY <2>0, <2>5, <3>1 DEF StoreNow
    <3> QED BY <3>1, <3>2 DEF StoreNow, Store!Next, SetBit, Store!SetBit
  <2> QED BY <2>1, <2>2, <2>3, <2>4, <2>5 DEF Next, Moves
<1> QED BY <1>1, <1>2, ImplementedInvariant, PTL
         DEF Spec, ImplementsStore, Store!Spec, StoreNow

-----------------------------------------------------------------------------
(* How far a thread is. *)

NoFaults == ~ late /\ ~ failed

\* Its k-th step has begun; an access has then been made.
Past(h, k) == k < th[h].next \/ (k = th[h].next /\ At(h, "call"))

\* Who ended without a fault has done all its steps.
GoneInv == NoFaults => \A h \in Handles : Ended(h) => th[h].next > Len(Program(h))

ProgressInv == LeakInv /\ InTimeInv /\ GoneInv

\* main's step to the next try, when nothing has gone wrong.
LEMMA FreshTry ==
  ASSUME ProgressInv, NextTry, NoFaults'
  PROVE  /\ AllEnded /\ try' = try + 1 /\ mem' = mem /\ x_to_y' = x_to_y
         /\ \A h \in Handles : h[1] # try + 1 => th'[h] = th[h]
         /\ try < NumTries => /\ atStart' = mem
                              /\ \A h \in Handles : h[1] = try + 1 =>
                                   th'[h] = [at |-> "routine", next |-> 1, tmp |-> 0]
<1>1. AllEnded /\ try' = try + 1 /\ mem' = mem /\ x_to_y' = x_to_y
  BY DEF NextTry, NoFaults
<1>2. try \in Nat /\ NumTries \in Nat
  BY NumTriesType DEF ProgressInv, LeakInv, TypeOK
<1>3. CASE try = NumTries
  BY <1>1, <1>2, <1>3 DEF NextTry
<1>4. CASE try # NumTries
  <2>1. PICK born \in SUBSET { h \in Handles : h[1] = try + 1 } :
          /\ failed' = (failed \/ \E h \in Handles \ born : h[1] = try + 1)
          /\ th' = [h \in Handles |->
                      IF h[1] # try + 1 THEN th[h]
                      ELSE [Unborn EXCEPT !.at = IF h \in born THEN "routine" ELSE "gone"]]
    BY <1>4 DEF NextTry
  <2>2. \A h \in Handles : h[1] = try + 1 => h \in born
    BY <2>1 DEF NoFaults
  <2>3. \A h \in Handles : h[1] = try + 1 => th'[h] = [at |-> "routine", next |-> 1, tmp |-> 0]
    BY <2>1, <2>2 DEF Unborn
  <2>4. atStart' = mem
    BY <1>4 DEF NextTry
  <2> QED BY <1>1, <2>1, <2>3, <2>4
<1> QED BY <1>3, <1>4

LEMMA FaultsStay ==
  ASSUME TypeOK, Next, NoFaults'
  PROVE  NoFaults
<1>1. CASE NextTry
  BY <1>1 DEF NoFaults, NextTry
<1>2. CASE Timeout
  BY <1>2 DEF NoFaults, Timeout
<1>3. CASE \E h \in Handles : Moves(h)
  BY <1>3, OthersStay DEF NoFaults, mainvars
<1> QED BY <1>1, <1>2, <1>3 DEF Next, Moves

\* A step of a thread that makes no access changes neither the structure nor
\* which accesses are past.
LEMMA QuietStep ==
  ASSUME ProgressInv, NoFaults, NEW h \in Handles, Moves(h), ~ BeginCall(h)
  PROVE  /\ mem' = mem
         /\ \A k \in 1 .. Len(Program(h)) :
              Program(h)[k].do \in {"read", "write"} => Past(h, k)' = Past(h, k)
         /\ th'[h].tmp = th[h].tmp \/ (th'[h].at = "gone" /\ th'[h].tmp = 0)
         /\ th'[h].at = "gone" => th[h].next > Len(Program(h)) /\ th'[h].next = th[h].next
<1>0. TypeOK /\ h \notin cancelled /\ th[h].next \in Nat
  BY DEF ProgressInv, LeakInv, InTimeInv, NoFaults, TypeOK
<1>1. ~ DieSleeping(h) /\ ~ DiePrinting(h)
  BY <1>0 DEF DieSleeping, DiePrinting
<1>2. mem' = mem
  BY <1>1 DEF Moves, Perform, EndCall, TakeAccessMutex, GiveAccessMutex, Semaphore, Finish
<1>3. CASE Finish(h)
  <2>1. th'[h] = [th[h] EXCEPT !.at = "gone", !.tmp = 0] /\ At(h, "routine")
        /\ th[h].next > Len(Program(h))
    BY <1>0, <1>3 DEF Finish, TypeOK
  <2>2. th'[h].at = "gone" /\ th'[h].tmp = 0 /\ th'[h].next = th[h].next
    BY <1>0, <2>1 DEF TypeOK
  <2> QED BY <1>2, <2>1, <2>2 DEF Past, At
<1>4. CASE EndCall(h)
  <2>1. At(h, "call") /\ th'[h].at = "routine" /\ th'[h].next = th[h].next + 1
        /\ th'[h].tmp = th[h].tmp
    BY <1>0, <1>4 DEF EndCall, TypeOK
  <2>2. \A k \in 1 .. Len(Program(h)) : Past(h, k)' = Past(h, k)
    BY <1>0, <2>1 DEF Past, At
  <2> QED BY <1>2, <2>1, <2>2
<1>5. CASE TakeAccessMutex(h) \/ GiveAccessMutex(h) \/ Semaphore(h)
  <2>1. At(h, "routine") /\ th'[h].at = "routine" /\ th'[h].next = th[h].next + 1
        /\ th'[h].tmp = th[h].tmp
    BY <1>0, <1>5 DEF TakeAccessMutex, GiveAccessMutex, Semaphore, AtStep, InRoutine, At, TypeOK
  <2>2. Program(h)[th[h].next].do \notin {"read", "write"}
    BY <1>5 DEF TakeAccessMutex, GiveAccessMutex, Semaphore, AtStep, This
  <2>3. \A k \in 1 .. Len(Program(h)) :
          Program(h)[k].do \in {"read", "write"} => Past(h, k)' = Past(h, k)
    BY <1>0, <2>1, <2>2 DEF Past, At
  <2> QED BY <1>2, <2>1, <2>3
<1> QED BY <1>1, <1>3, <1>4, <1>5 DEF Moves, Perform

\* An access makes one more step past, and sees or changes one member.
LEMMA AccessStep ==
  ASSUME ProgressInv, NEW h \in Handles, BeginCall(h)
  PROVE  /\ th[h].next \in 1 .. Len(Program(h)) /\ This(h) = Program(h)[th[h].next]
         /\ This(h) \in Accesses /\ th[h].tmp \in Nat /\ At(h, "routine")
         /\ \A k \in Nat : Past(h, k)' <=> Past(h, k) \/ k = th[h].next
         /\ ~ Past(h, th[h].next)
         /\ th'[h].at = "call"
         /\ This(h).do = "read" => mem' = mem /\ th'[h].tmp = mem[This(h).member]
         /\ This(h).do = "write" =>
              /\ th'[h].tmp = Computed(This(h).site, th[h].tmp)
              /\ \A m \in DOMAIN Members :
                   mem'[m] = IF m = This(h).member THEN th'[h].tmp ELSE mem[m]
<1>0. TypeOK /\ program \in Programs /\ th[h].next \in Nat \ {0}
  BY DEF ProgressInv, LeakInv, TypeOK
<1>1. This(h) \in Accesses
  BY <1>0, ThisAccess DEF BeginCall
<1>2. th[h].next \in 1 .. Len(Program(h)) /\ At(h, "routine")
  BY <1>0, ThisStep DEF BeginCall, AtStep, InRoutine
<1>3. /\ th'[h].at = "call" /\ th'[h].next = th[h].next
      /\ th'[h].tmp = IF This(h).do = "read" THEN mem[This(h).member]
                      ELSE Computed(This(h).site, th[h].tmp)
  BY <1>0 DEF BeginCall, TypeOK
<1>4. \A k \in Nat : Past(h, k)' <=> Past(h, k) \/ k = th[h].next
  BY <1>0, <1>2, <1>3 DEF Past, At
<1>5. ~ Past(h, th[h].next)
  BY <1>0, <1>2 DEF Past, At
<1>6. mem' = [mem EXCEPT ![This(h).member] = th'[h].tmp]
  BY <1>3 DEF BeginCall
<1>7. mem \in [DOMAIN Members -> Nat] /\ This(h).member \in DOMAIN Members
  BY <1>0, <1>1, AccessType DEF TypeOK
<1>8. This(h).do = "read" => mem' = mem /\ th'[h].tmp = mem[This(h).member]
  BY <1>3, <1>6, <1>7
<1>9. This(h).do = "write" =>
        /\ th'[h].tmp = Computed(This(h).site, th[h].tmp)
        /\ \A m \in DOMAIN Members : mem'[m] = IF m = This(h).member THEN th'[h].tmp ELSE mem[m]
  BY <1>3, <1>6, <1>7
<1>10. th[h].tmp \in Nat /\ This(h) = Program(h)[th[h].next]
  BY <1>0 DEF TypeOK, This
<1> QED BY <1>1, <1>2, <1>3, <1>4, <1>5, <1>8, <1>9, <1>10

LEMMA GoneStep ==
  ASSUME ProgressInv, Next
  PROVE  GoneInv'
<1> SUFFICES ASSUME NoFaults' PROVE \A h \in Handles' : Ended(h)' => th'[h].next > Len(Program(h)')
  BY DEF GoneInv
<1>0. NoFaults /\ TypeOK /\ BirthInv
  BY FaultsStay DEF ProgressInv, LeakInv
<1>1. CASE NextTry \/ Timeout
  <2>1. ASSUME NEW h \in Handles, th'[h].at = "gone" PROVE Ended(h) /\ th'[h] = th[h]
    <3>1. CASE NextTry
      <4>1. try < NumTries => h[1] # try + 1
        BY <1>0, <2>1, <3>1, FreshTry
      <4>2. th'[h] = th[h]
        <5>1. CASE try < NumTries
          BY <3>1, <4>1, <5>1, FreshTry
        <5>2. CASE ~ (try < NumTries)
          <6>1. h[1] # try + 1
            BY <1>0, <5>2, HandleParts, NumTriesType DEF TypeOK
          <6> QED BY <3>1, <6>1, FreshTry
        <5> QED BY <5>1, <5>2
      <4> QED BY <2>1, <4>2 DEF Ended, At
    <3>2. CASE Timeout
      BY <2>1, <3>2 DEF Timeout, Ended, At
    <3> QED BY <1>1, <3>1, <3>2
  <2> QED BY <1>0, <1>1, <2>1, MainStays DEF ProgressInv, GoneInv, Ended, At
<1>2. ASSUME NEW h \in Handles, Moves(h)
      PROVE  \A g \in Handles' : Ended(g)' => th'[g].next > Len(Program(g)')
  <2>1. th'[h].at = "gone" => th'[h].next > Len(Program(h))
    <3>1. CASE BeginCall(h)
      BY <3>1, AccessStep
    <3>2. CASE ~ BeginCall(h)
      BY <1>0, <1>2, <3>2, QuietStep
    <3> QED BY <3>1, <3>2
  <2> QED BY <1>0, <1>2, <2>1, OthersStay DEF ProgressInv, GoneInv, Ended, At
<1> QED BY <1>1, <1>2 DEF Next, Moves

LEMMA ProgressInit == Init => ProgressInv
<1> SUFFICES ASSUME Init PROVE ProgressInv
  OBVIOUS
<1>1. \A h \in Handles : At(h, "unborn") /\ ~ (h[1] < try)
  BY HandleParts DEF Init, At, Unborn
<1> QED BY <1>1, LeakInit DEF Init, ProgressInv, InTimeInv, GoneInv, At, Ended

LEMMA ProgressStep == ProgressInv /\ [Next]_vars => ProgressInv'
<1> SUFFICES ASSUME ProgressInv, [Next]_vars PROVE ProgressInv'
  OBVIOUS
<1>1. CASE Next
  BY <1>1, LeakStep, InTimeStep, GoneStep DEF ProgressInv
<1>2. CASE UNCHANGED vars
  <2>1. UNCHANGED <<th, try, late, failed, cancelled, Handles>> /\ \A h : Program(h)' = Program(h)
    BY <1>2, SameProgram DEF vars
  <2>2. InTimeInv' /\ GoneInv'
    BY <2>1 DEF ProgressInv, InTimeInv, GoneInv, NoFaults, At, Ended
  <2> QED BY <2>2, LeakStep DEF ProgressInv
<1> QED BY <1>1, <1>2

-----------------------------------------------------------------------------
(* Lost updates. *)

RunningTry == NoFaults /\ try \in 1 .. NumTries

Setters == { h \in Current : Routine(h) \in {"setValue", "setValue_safe"} }
Mailmen == { h \in Current : Routine(h) = "mailman" }

\* setValue reads cnt_x once, and then writes at each round; mailman reads and
\* writes num_parcels at each.
ReadAt(h) == IF Routine(h) = "setValue" THEN 1 ELSE 2
Counted(h, j) == Past(h, ReadAt(h) + j)
Delivered(h, j) == Past(h, 2 * j)

\* The writes of the try.
Counts == { x \in Setters \X (1 .. Increments) : Counted(x[1], x[2]) }
Parcels == { x \in Mailmen \X (1 .. Deliveries) : Delivered(x[1], x[2]) }

\* cnt_x grows by one for each write at most.  A thread that has written j
\* times wrote at least j more than there was when the try began, so the last
\* write of whoever makes his last write last leaves a thread's increments.
CntInv ==
  /\ atStart["cnt_x"] <= mem["cnt_x"]
  /\ mem["cnt_x"] <= atStart["cnt_x"] + Cardinality(Counts)
  /\ \A h \in Setters : ~ Ended(h) =>
       /\ th[h].tmp <= atStart["cnt_x"] + Cardinality(Counts)
       /\ \A j \in 0 .. Increments : Counted(h, j) => th[h].tmp >= atStart["cnt_x"] + j
  /\ Setters # {} /\ (\A h \in Setters : Counted(h, Increments))
       => mem["cnt_x"] >= atStart["cnt_x"] + Increments

ParcelInv ==
  /\ mem["num_parcels"] <= atStart["num_parcels"] + Cardinality(Parcels)
  /\ \A h \in Mailmen : ~ Ended(h) =>
       th[h].tmp <= atStart["num_parcels"] + Cardinality(Parcels)

UpdatesInv == ProgressInv /\ (RunningTry => CntInv /\ ParcelInv)

\* Where setValue's accesses are in the routines that call it.
LEMMA SetterSteps ==
  ASSUME program \in Programs, NEW h \in Handles,
         Routine(h) \in {"setValue", "setValue_safe"}
  PROVE  /\ Len(Program(h)) \in Nat /\ ReadAt(h) \in {1, 2}
         /\ ReadAt(h) + Increments <= Len(Program(h))
         /\ Program(h)[ReadAt(h)] = Read("cnt_x", "setValue:34")
         /\ \A j \in 1 .. Increments : Program(h)[ReadAt(h) + j] = Write("cnt_x", "setValue:37")
         /\ \A k \in 1 .. Len(Program(h)) : Program(h)[k].do \in {"read", "write"} =>
              k \in ReadAt(h) .. ReadAt(h) + Increments
<1>0. Increments \in Nat
  BY WorkloadsAssumption
<1>1. CASE Routine(h) = "setValue"
  <2>1. Program(h) = setValue /\ ReadAt(h) = 1
    BY <1>1 DEF Program, Body, ReadAt
  <2> QED BY <1>0, <2>1, SetValueSteps
<1>2. CASE Routine(h) = "setValue_safe"
  <2>1. Program(h) = WithAccessMutex(setValue) /\ ReadAt(h) = 2
    BY <1>2 DEF Program, Body, ReadAt
  <2>2. /\ Len(Program(h)) = Increments + 3
        /\ Program(h)[2] = Read("cnt_x", "setValue:34")
        /\ \A k \in 3 .. Increments + 2 : Program(h)[k] = Write("cnt_x", "setValue:37")
    BY <1>2, SafeBodies
  <2>3. Program(h)[1].do = "lock" /\ Program(h)[Increments + 3].do = "unlock"
    BY <1>0, <2>1, Guarded, SetValueAccesses, SetValueSteps
  <2>4. \A k \in 1 .. Len(Program(h)) : Program(h)[k].do \in {"read", "write"} =>
          k \in 2 .. Increments + 2
    BY <1>0, <2>2, <2>3
  <2>5. \A j \in 1 .. Increments : Program(h)[2 + j] = Write("cnt_x", "setValue:37")
    BY <1>0, <2>2
  <2> QED BY <1>0, <2>1, <2>2, <2>4, <2>5
<1> QED BY <1>1, <1>2

LEMMA MailmanSteps ==
  ASSUME program \in Programs, NEW h \in Handles, Routine(h) = "mailman"
  PROVE  /\ Len(Program(h)) = 2 * Deliveries
         /\ \A j \in 1 .. Deliveries :
              /\ Program(h)[2 * j - 1] = Read("num_parcels", "mailman:77")
              /\ Program(h)[2 * j] = Write("num_parcels", "mailman:79")
<1> DEFINE r == Read("num_parcels", "mailman:77")
           w == Write("num_parcels", "mailman:79")
<1>0. Deliveries \in Nat
  BY WorkloadsAssumption
<1>1. Program(h) = Times(Deliveries, <<r, w>>)
  BY DEF Program, Body
<1> HIDE DEF r, w
<1>2. <<r, w>> \in Seq({r, w}) /\ Len(<<r, w>>) = 2 /\ <<r, w>>[1] = r /\ <<r, w>>[2] = w
  OBVIOUS
<1>3. Program(h) = [k \in 1 .. 2 * Deliveries |-> <<r, w>>[((k - 1) % 2) + 1]]
  BY <1>0, <1>1, <1>2 DEF Times
<1>4. Program(h) \in Seq({r, w})
  BY <1>0, <1>1, <1>2, TimesIsSeq
<1>5. DOMAIN Program(h) = 1 .. 2 * Deliveries
  BY <1>3
<1>6. Len(Program(h)) = 2 * Deliveries
  BY <1>0, <1>4, <1>5
<1>7. ASSUME NEW j \in 1 .. Deliveries
      PROVE  Program(h)[2 * j - 1] = r /\ Program(h)[2 * j] = w
  <2>1. /\ 2 * j - 1 \in 1 .. 2 * Deliveries /\ 2 * j \in 1 .. 2 * Deliveries
        /\ ((2 * j - 1) - 1) % 2 = 0 /\ (2 * j - 1) % 2 = 1
    BY <1>0
  <2> QED BY <1>2, <1>3, <2>1
<1> QED BY <1>6, <1>7 DEF r, w

\* Who writes which member.
Writers(r) ==
  { s \in Steps : s.do = "write" =>
      /\ s.member = "cnt_x" => r \in {"setValue", "setValue_safe"}
      /\ s.member = "num_parcels" => r = "mailman" \/ s.site = "mail_customer:90" }

LEMMA OnlyWriters ==
  ASSUME NEW r \in Routines
  PROVE  Body(r) \in Seq(Writers(r))
<1> DEFINE S == Writers(r)
<1>1. \A do \in {"lock", "unlock", "post", "wait", "sleep"} :
        Step(do, "", "") \in S
  BY DEF Writers, Steps, Step, Locking, Ordering
<1>2. /\ Read("a", "readModifyWrite:48") \in S /\ Write("a", "readModifyWrite:50") \in S
      /\ Read("cnt_x", "readValue:30") \in S
      /\ Read("num_parcels", "mail_customer:88") \in S
      /\ Write("num_parcels", "mail_customer:90") \in S
  BY MemberNamesAre
     DEF Writers, Steps, Accesses, Read, Write, Step, CallSites, WriteSites
<1>3. r = "mailman" => /\ Read("num_parcels", "mailman:77") \in S
                       /\ Write("num_parcels", "mailman:79") \in S
  BY MemberNamesAre
     DEF Writers, Steps, Accesses, Read, Write, Step, CallSites, WriteSites
<1>4. Accesses \subseteq Steps
  BY DEF Steps
<1>5. ASSUME r \in {"setValue", "setValue_safe"}, NEW s \in Accesses
      PROVE  s.member # "num_parcels" => s \in S
  BY <1>4, <1>5 DEF Writers
<1> HIDE DEF S
<1>6. readModifyWrite \in Seq(S)
  <2>1. \A r1, w1 \in S : <<r1, w1>> \in Seq(S)
    OBVIOUS
  <2> QED BY <1>2, <2>1 DEF readModifyWrite
<1>7. ASSUME r \in {"setValue", "setValue_safe"} PROVE setValue \in Seq(S)
  <2>1. \A k \in 1 .. Len(setValue) : setValue[k].member = "cnt_x"
    <3>1. \A k \in 1 .. Increments + 1 : k = 1 \/ k \in 2 .. Increments + 1
      BY WorkloadsAssumption
    <3> QED BY <3>1, SetValueSteps DEF Read, Write, Step
  <2>2. \A k \in 1 .. Len(setValue) : setValue[k] \in Accesses
    BY SetValueAccesses, ElementOfSeq
  <2>3. \A k \in 1 .. Len(setValue) : setValue[k] \in S
    BY <1>5, <1>7, <2>1, <2>2
  <2> QED BY <2>3, SetValueAccesses, SeqDef
<1>8. \A do \in {"lock", "unlock", "post", "wait", "sleep"} : Sync(do) \in Seq(S)
  BY <1>1, SyncIsSeq
<1>9. \A s \in Seq(S) : WithAccessMutex(s) \in Seq(S)
  BY <1>8, ConcatProperties DEF WithAccessMutex
<1>10. ASSUME NEW r1 \in S, NEW w1 \in S, NEW n \in Nat PROVE Times(n, <<r1, w1>>) \in Seq(S)
  <2>1. <<r1, w1>> \in Seq(S) /\ Len(<<r1, w1>>) = 2
    OBVIOUS
  <2> QED BY <2>1, TimesIsSeq
<1>11. <<>> \in Seq(S) /\ \A s \in S : <<s>> \in Seq(S)
  OBVIOUS
<1>12. First \in Seq(S) /\ Second \in Seq(S) /\ Sync("sleep") \o readModifyWrite \in Seq(S)
  BY <1>6, <1>8, ConcatProperties DEF First, Second
<1>13. Body(r) \in Seq(S)
  <2>1. CASE r \in {"setValue", "setValue_safe"}
    BY <1>7, <1>9, <2>1 DEF Body
  <2>2. CASE r \in {"mailman", "mail_customer"}
    BY <1>2, <1>3, <1>10, <2>2, WorkloadsAssumption DEF Body
  <2>3. CASE r \in {"empty", "readValue", "readModifyWrite", "readModifyWrite_safe"}
    BY <1>2, <1>6, <1>9, <1>11, <2>3 DEF Body
  <2>4. CASE r \in {"readModifyWrite_first", "readModifyWrite_second", "readModifyWrite_foolhb"}
    BY <1>12, <2>4 DEF Body
  <2> QED BY <2>1, <2>2, <2>3, <2>4 DEF Routines
<1> QED BY <1>13 DEF S

LEMMA FiniteTry ==
  ASSUME TypeOK
  PROVE  /\ IsFiniteSet(Counts) /\ Cardinality(Counts) \in Nat
         /\ IsFiniteSet(Parcels) /\ Cardinality(Parcels) \in Nat
         /\ Cardinality(Counts) <= Increments * Cardinality(Setters)
         /\ Cardinality(Parcels) <= Deliveries * Cardinality(Mailmen)
         /\ Cardinality(Setters) \in Nat /\ Cardinality(Mailmen) \in Nat
<1>1. IsFiniteSet({try} \X Threads)
  <2>1. IsFiniteSet({try})
    BY FS_Singleton
  <2>2. IsFiniteSet(Threads)
    BY FS_Interval, ShmTypesAssumption DEF Threads
  <2> QED BY <2>1, <2>2, FS_Product
<1>2. Current \subseteq {try} \X Threads
  <2> SUFFICES ASSUME NEW h \in Handles, h[1] = try PROVE h \in {try} \X Threads
    BY DEF Current
  <2>1. h = <<h[1], h[2]>> /\ h[2] \in Threads
    BY HandleParts DEF TypeOK
  <2> QED BY <2>1
<1>3. Setters \subseteq {try} \X Threads /\ Mailmen \subseteq {try} \X Threads
  BY <1>2 DEF Setters, Mailmen
<1>4. IsFiniteSet(Setters) /\ IsFiniteSet(Mailmen)
  BY <1>1, <1>3, FS_Subset
<1>5. /\ IsFiniteSet(1 .. Increments) /\ Cardinality(1 .. Increments) = Increments
      /\ IsFiniteSet(1 .. Deliveries) /\ Cardinality(1 .. Deliveries) = Deliveries
      /\ Increments \in Nat /\ Deliveries \in Nat
  BY FS_Interval, WorkloadsAssumption
<1>6. /\ IsFiniteSet(Setters \X (1 .. Increments))
      /\ Cardinality(Setters \X (1 .. Increments)) = Cardinality(Setters) * Increments
      /\ IsFiniteSet(Mailmen \X (1 .. Deliveries))
      /\ Cardinality(Mailmen \X (1 .. Deliveries)) = Cardinality(Mailmen) * Deliveries
  BY <1>4, <1>5, FS_Product
<1>7. Counts \subseteq Setters \X (1 .. Increments) /\ Parcels \subseteq Mailmen \X (1 .. Deliveries)
  BY DEF Counts, Parcels
<1>8. /\ IsFiniteSet(Counts) /\ Cardinality(Counts) <= Cardinality(Setters) * Increments
      /\ IsFiniteSet(Parcels) /\ Cardinality(Parcels) <= Cardinality(Mailmen) * Deliveries
  BY <1>6, <1>7, FS_Subset
<1>9. /\ Cardinality(Counts) \in Nat /\ Cardinality(Parcels) \in Nat
      /\ Cardinality(Setters) \in Nat /\ Cardinality(Mailmen) \in Nat
  BY <1>4, <1>8, FS_CardinalityType
<1> HIDE DEF Counts, Parcels, Setters, Mailmen
<1> QED BY <1>5, <1>8, <1>9

\* What a thread's step leaves alone.
LEMMA SameTry ==
  ASSUME TypeOK, NEW h \in Handles, Moves(h)
  PROVE  /\ UNCHANGED <<Handles, Current, Setters, Mailmen, atStart, try, NumTries, program>>
         /\ RunningTry' = RunningTry /\ NoFaults' = NoFaults
         /\ \A g : Routine(g)' = Routine(g) /\ Program(g)' = Program(g) /\ ReadAt(g)' = ReadAt(g)
         /\ \A g \in Handles \ {h} : th'[g] = th[g] /\ Ended(g)' = Ended(g)
                                     /\ \A k : Past(g, k)' = Past(g, k)
<1>1. UNCHANGED mainvars /\ \A g \in Handles \ {h} : th'[g] = th[g]
  BY OthersStay
<1>2. /\ Handles' = Handles /\ NumTries' = NumTries
      /\ \A g : Routine(g)' = Routine(g) /\ Program(g)' = Program(g)
  BY <1>1, SameProgram DEF mainvars
<1>3. Current' = Current /\ atStart' = atStart /\ try' = try /\ program' = program
  BY <1>1, <1>2 DEF mainvars, Current
<1>4. Setters' = Setters /\ Mailmen' = Mailmen /\ \A g : ReadAt(g)' = ReadAt(g)
  BY <1>2, <1>3 DEF Setters, Mailmen, ReadAt
<1>5. NoFaults' = NoFaults /\ RunningTry' = RunningTry
  BY <1>1, <1>2, <1>3 DEF NoFaults, RunningTry, mainvars
<1>6. \A g \in Handles \ {h} : Ended(g)' = Ended(g) /\ \A k : Past(g, k)' = Past(g, k)
  BY <1>1 DEF Ended, Past, At
<1> QED BY <1>1, <1>2, <1>3, <1>4, <1>5, <1>6

\* Of the accesses, only setValue's writes make a difference to Counts.
LEMMA CountsStep ==
  ASSUME ProgressInv, RunningTry, NEW h \in Handles, Moves(h)
  PROVE  /\ \A j \in 1 .. Increments :
              BeginCall(h) /\ h \in Setters /\ th[h].next = ReadAt(h) + j
                => Cardinality(Counts') = Cardinality(Counts) + 1
         /\ (BeginCall(h) /\ h \in Setters => th[h].next = ReadAt(h)) => Counts' = Counts
<1>0. TypeOK /\ program \in Programs /\ NoFaults /\ Increments \in Nat
  BY WorkloadsAssumption DEF ProgressInv, LeakInv, TypeOK, RunningTry
<1>1. Setters' = Setters /\ Setters \subseteq Handles
  <2>1. Setters' = Setters
    BY <1>0, SameTry
  <2>2. Setters \subseteq Handles
    BY DEF Setters, Current
  <2> QED BY <2>1, <2>2
<1>2. \A x \in Setters \X (1 .. Increments) : x[1] # h => Counted(x[1], x[2])' = Counted(x[1], x[2])
  <2> SUFFICES ASSUME NEW x \in Setters \X (1 .. Increments), x[1] # h
               PROVE  Counted(x[1], x[2])' = Counted(x[1], x[2])
    OBVIOUS
  <2>1. x[1] \in Handles \ {h}
    BY <1>1
  <2>2. ReadAt(x[1])' = ReadAt(x[1])
    BY <1>0, SameTry
  <2>3. th'[x[1]] = th[x[1]]
    BY <1>0, <2>1, SameTry
  <2> QED BY <2>2, <2>3 DEF Counted, Past, At
<1>3. \A x \in Setters \X (1 .. Increments) :
        /\ x = <<x[1], x[2]>> /\ x[1] \in Setters /\ x[2] \in 1 .. Increments
  OBVIOUS
<1>4. ASSUME h \in Setters
      PROVE  /\ ReadAt(h)' = ReadAt(h) /\ ReadAt(h) \in Nat
             /\ \A j \in 1 .. Increments : /\ ReadAt(h) + j \in 1 .. Len(Program(h))
                                           /\ Program(h)[ReadAt(h) + j].do \in {"read", "write"}
  <2>1. /\ Len(Program(h)) \in Nat /\ ReadAt(h) \in {1, 2}
        /\ ReadAt(h) + Increments <= Len(Program(h))
        /\ \A j \in 1 .. Increments : Program(h)[ReadAt(h) + j] = Write("cnt_x", "setValue:37")
    BY <1>0, <1>4, SetterSteps DEF Setters
  <2>2. ReadAt(h)' = ReadAt(h)
    BY <1>0, SameTry
  <2>3. \A j \in 1 .. Increments : ReadAt(h) + j \in 1 .. Len(Program(h))
    BY <1>0, <2>1
  <2>4. \A j \in 1 .. Increments : Program(h)[ReadAt(h) + j].do = "write"
    BY <2>1 DEF Write, Step
  <2> QED BY <2>1, <2>2, <2>3, <2>4
<1>5. ASSUME NEW j \in 1 .. Increments,
             BeginCall(h), h \in Setters, th[h].next = ReadAt(h) + j
      PROVE  Cardinality(Counts') = Cardinality(Counts) + 1
  <2>1. \A i \in 1 .. Increments : Counted(h, i)' <=> Counted(h, i) \/ i = j
    <3>1. \A i \in 1 .. Increments : Past(h, ReadAt(h) + i)' <=> Past(h, ReadAt(h) + i) \/ i = j
      <4>1. \A i \in 1 .. Increments : ReadAt(h)' + i = ReadAt(h) + i /\ ReadAt(h) + i \in Nat
        BY <1>4, <1>5
      <4> QED BY <1>4, <1>5, <4>1, AccessStep DEF Past, At
    <3> QED BY <3>1 DEF Counted
  <2>2. ~ Counted(h, j)
    BY <1>5, AccessStep DEF Counted
  <2>3. Counts' = Counts \cup {<<h, j>>}
    <3>1. \A x \in Setters \X (1 .. Increments) :
            Counted(x[1], x[2])' <=> Counted(x[1], x[2]) \/ x = <<h, j>>
      BY <1>2, <1>3, <2>1
    <3>2. <<h, j>> \in Setters \X (1 .. Increments)
      BY <1>5
    <3> QED BY <1>1, <3>1, <3>2 DEF Counts
  <2>4. <<h, j>> \notin Counts
    BY <2>2 DEF Counts
  <2> HIDE DEF Counts
  <2> QED BY <1>0, <2>3, <2>4, FiniteTry, FS_AddElement
<1>6. ASSUME BeginCall(h) /\ h \in Setters => th[h].next = ReadAt(h)
      PROVE  Counts' = Counts
  <2>1. ASSUME NEW i \in 1 .. Increments, h \in Setters
        PROVE  Counted(h, i)' = Counted(h, i)
    <3>1. CASE BeginCall(h)
      <4>1. ReadAt(h)' + i = ReadAt(h) + i /\ ReadAt(h) + i \in Nat
            /\ ReadAt(h) + i # th[h].next
        BY <1>4, <1>6, <2>1, <3>1
      <4> QED BY <3>1, <4>1, AccessStep DEF Counted, Past, At
    <3>2. CASE ~ BeginCall(h)
      BY <1>0, <1>4, <2>1, <3>2, QuietStep DEF Counted, Past, At
    <3> QED BY <3>1, <3>2
  <2>2. \A x \in Setters \X (1 .. Increments) : Counted(x[1], x[2])' = Counted(x[1], x[2])
    BY <1>2, <1>3, <2>1
  <2> QED BY <1>1, <2>2 DEF Counts
<1> QED BY <1>5, <1>6

LEMMA ParcelsStep ==
  ASSUME ProgressInv, RunningTry, NEW h \in Handles, Moves(h)
  PROVE  /\ \A j \in 1 .. Deliveries :
              BeginCall(h) /\ h \in Mailmen /\ th[h].next = 2 * j
                => Cardinality(Parcels') = Cardinality(Parcels) + 1
         /\ (BeginCall(h) /\ h \in Mailmen => \E j \in 1 .. Deliveries : th[h].next = 2 * j - 1)
              => Parcels' = Parcels
<1>0. TypeOK /\ program \in Programs /\ NoFaults /\ Deliveries \in Nat
  BY WorkloadsAssumption DEF ProgressInv, LeakInv, TypeOK, RunningTry
<1>1. Mailmen' = Mailmen /\ Mailmen \subseteq Handles
  BY <1>0, SameTry DEF Mailmen, Current
<1>2. \A x \in Mailmen \X (1 .. Deliveries) : x[1] # h => Delivered(x[1], x[2])' = Delivered(x[1], x[2])
  BY <1>0, <1>1, SameTry DEF Delivered
<1>3. \A x \in Mailmen \X (1 .. Deliveries) :
        /\ x = <<x[1], x[2]>> /\ x[1] \in Mailmen /\ x[2] \in 1 .. Deliveries
  OBVIOUS
<1>4. \A j \in 1 .. Deliveries : 2 * j \in Nat
  BY <1>0
<1>5. ASSUME NEW j \in 1 .. Deliveries,
             BeginCall(h), h \in Mailmen, th[h].next = 2 * j
      PROVE  Cardinality(Parcels') = Cardinality(Parcels) + 1
  <2>1. \A i \in 1 .. Deliveries : Delivered(h, i)' <=> Delivered(h, i) \/ i = j
    <3>1. \A i \in 1 .. Deliveries : Past(h, 2 * i)' <=> Past(h, 2 * i) \/ 2 * i = 2 * j
      BY <1>4, <1>5, AccessStep
    <3>2. \A i \in 1 .. Deliveries : 2 * i = 2 * j <=> i = j
      BY <1>0
    <3> QED BY <3>1, <3>2 DEF Delivered
  <2>2. ~ Delivered(h, j)
    BY <1>5, AccessStep DEF Delivered
  <2>3. Parcels' = Parcels \cup {<<h, j>>}
    <3>1. \A x \in Mailmen \X (1 .. Deliveries) :
            Delivered(x[1], x[2])' <=> Delivered(x[1], x[2]) \/ x = <<h, j>>
      BY <1>2, <1>3, <2>1
    <3>2. <<h, j>> \in Mailmen \X (1 .. Deliveries)
      BY <1>5
    <3> QED BY <1>1, <3>1, <3>2 DEF Parcels
  <2>4. <<h, j>> \notin Parcels
    BY <2>2 DEF Parcels
  <2> HIDE DEF Parcels
  <2> QED BY <1>0, <2>3, <2>4, FiniteTry, FS_AddElement
<1>6. ASSUME BeginCall(h) /\ h \in Mailmen => \E j \in 1 .. Deliveries : th[h].next = 2 * j - 1
      PROVE  Parcels' = Parcels
  <2>1. ASSUME NEW i \in 1 .. Deliveries, h \in Mailmen
        PROVE  Delivered(h, i)' = Delivered(h, i)
    <3>1. CASE BeginCall(h)
      <4>1. PICK j \in 1 .. Deliveries : th[h].next = 2 * j - 1
        BY <1>6, <2>1, <3>1
      <4>2. 2 * i # th[h].next /\ 2 * i \in Nat
        BY <1>0, <4>1
      <4> QED BY <3>1, <4>2, AccessStep DEF Delivered, Past, At
    <3>2. CASE ~ BeginCall(h)
      <4>1. /\ Len(Program(h)) = 2 * Deliveries
            /\ Program(h)[2 * i] = Write("num_parcels", "mailman:79")
        BY <1>0, <2>1, MailmanSteps DEF Mailmen
      <4>2. 2 * i \in 1 .. Len(Program(h)) /\ Program(h)[2 * i].do \in {"read", "write"}
        BY <1>0, <4>1 DEF Write, Step
      <4> QED BY <1>0, <3>2, <4>2, QuietStep DEF Delivered, Past, At
    <3> QED BY <3>1, <3>2
  <2>2. \A x \in Mailmen \X (1 .. Deliveries) : Delivered(x[1], x[2])' = Delivered(x[1], x[2])
    BY <1>2, <1>3, <2>1
  <2> QED BY <1>1, <2>2 DEF Parcels
<1> QED BY <1>5, <1>6

\* What a step does to a member that is not the one written.
LEMMA WrittenOnly ==
  ASSUME ProgressInv, NoFaults, NEW h \in Handles, Moves(h),
         NEW m \in DOMAIN Members,
         ~ (BeginCall(h) /\ This(h).do = "write" /\ This(h).member = m)
  PROVE  mem'[m] = mem[m]
<1>1. CASE BeginCall(h)
  <2>1. This(h).do \in {"read", "write"}
    BY <1>1, AccessStep DEF Accesses
  <2> QED BY <1>1, <2>1, AccessStep
<1>2. CASE ~ BeginCall(h)
  BY <1>2, QuietStep
<1> QED BY <1>1, <1>2

\* A write of a member is by one who writes it.
LEMMA WriteStep ==
  ASSUME ProgressInv, NEW h \in Handles, BeginCall(h), This(h).do = "write"
  PROVE  /\ This(h).member = "cnt_x" => Routine(h) \in {"setValue", "setValue_safe"}
         /\ This(h).member = "num_parcels" =>
              Routine(h) = "mailman" \/ This(h).site = "mail_customer:90"
<1>1. program \in Programs
  BY DEF ProgressInv, LeakInv, TypeOK
<1>2. Program(h) \in Seq(Writers(Routine(h)))
  BY <1>1, HandleParts, OnlyWriters DEF Program
<1>3. This(h) \in Writers(Routine(h))
  BY <1>2, AccessStep, ElementOfSeq
<1> QED BY <1>3 DEF Writers

LEMMA CntStep ==
  ASSUME ProgressInv, RunningTry, CntInv, NEW h \in Handles, Moves(h)
  PROVE  CntInv'
<1> DEFINE C == atStart["cnt_x"]
           M == mem["cnt_x"]
           N == Cardinality(Counts)
<1>0. /\ TypeOK /\ program \in Programs /\ NoFaults /\ Increments \in Nat
      /\ "cnt_x" \in DOMAIN Members
  BY WorkloadsAssumption, MemberNamesAre
     DEF ProgressInv, LeakInv, TypeOK, RunningTry, MemberNames
<1>1. C \in Nat /\ M \in Nat /\ N \in Nat
  BY <1>0, FiniteTry DEF TypeOK
<1>2. Setters' = Setters /\ Setters \subseteq Handles /\ C' = C
  BY <1>0, SameTry DEF Setters, Current
<1>3. \A g \in Setters \ {h} : /\ th'[g] = th[g] /\ Ended(g)' = Ended(g)
                               /\ \A j \in 0 .. Increments : Counted(g, j)' = Counted(g, j)
  BY <1>0, <1>2, SameTry DEF Counted
<1>4. \A g \in Setters : th[g].tmp \in Nat
  BY <1>0, <1>2 DEF TypeOK
<1>5. ASSUME h \in Setters
      PROVE  /\ ReadAt(h)' = ReadAt(h) /\ ReadAt(h) \in {1, 2}
             /\ \A j \in 0 .. Increments : ReadAt(h) + j \in 1 .. Len(Program(h))
             /\ \A j \in 0 .. Increments : Program(h)[ReadAt(h) + j].do \in {"read", "write"}
             /\ Program(h)[ReadAt(h)] = Read("cnt_x", "setValue:34")
             /\ \A j \in 1 .. Increments : Program(h)[ReadAt(h) + j] = Write("cnt_x", "setValue:37")
             /\ \A k \in 1 .. Len(Program(h)) : Program(h)[k].do \in {"read", "write"} =>
                  k \in ReadAt(h) .. ReadAt(h) + Increments
  <2>1. /\ Len(Program(h)) \in Nat /\ ReadAt(h) \in {1, 2}
        /\ ReadAt(h) + Increments <= Len(Program(h))
        /\ Program(h)[ReadAt(h)] = Read("cnt_x", "setValue:34")
        /\ \A j \in 1 .. Increments : Program(h)[ReadAt(h) + j] = Write("cnt_x", "setValue:37")
        /\ \A k \in 1 .. Len(Program(h)) : Program(h)[k].do \in {"read", "write"} =>
             k \in ReadAt(h) .. ReadAt(h) + Increments
    BY <1>0, <1>2, <1>5, SetterSteps DEF Setters
  <2>2. ReadAt(h)' = ReadAt(h)
    BY <1>0, SameTry
  <2>3. \A j \in 0 .. Increments : ReadAt(h) + j \in 1 .. Len(Program(h))
    BY <1>0, <2>1
  <2>4. \A j \in 1 .. Increments : Program(h)[ReadAt(h) + j].do = "write"
    BY <2>1 DEF Write, Step
  <2>5. Program(h)[ReadAt(h) + 0].do = "read"
    BY <2>1 DEF Read, Step
  <2>6. \A j \in 0 .. Increments : j = 0 \/ j \in 1 .. Increments
    BY <1>0
  <2>7. \A j \in 0 .. Increments : Program(h)[ReadAt(h) + j].do \in {"read", "write"}
    BY <2>4, <2>5, <2>6
  <2> QED BY <2>1, <2>2, <2>3, <2>7
<1>6. ASSUME NEW j \in 1 .. Increments,
             BeginCall(h), h \in Setters, th[h].next = ReadAt(h) + j
      PROVE  CntInv'
  <2>1. N' = N + 1
    BY <1>6, CountsStep
  <2>2. This(h) = Write("cnt_x", "setValue:37")
    BY <1>5, <1>6, AccessStep
  <2>3. th'[h].tmp = th[h].tmp + 1 /\ M' = th[h].tmp + 1
    BY <1>0, <1>6, <2>2, AccessStep DEF Write, Step, Computed
  <2>4. At(h, "routine") /\ ~ Ended(h)
    BY <1>6, AccessStep DEF At, Ended
  <2>5. Counted(h, j - 1) /\ j - 1 \in 0 .. Increments
    BY <1>0, <1>5, <1>6 DEF Counted, Past
  <2>6. th[h].tmp >= C + (j - 1) /\ th[h].tmp <= C + N
    BY <1>6, <2>4, <2>5 DEF CntInv
  <2>7. \A i \in 0 .. Increments : Counted(h, i)' => i <= j
    <3>1. th'[h].at = "call" /\ th'[h].next = th[h].next
      BY <1>0, <1>6 DEF BeginCall, TypeOK
    <3> QED BY <1>0, <1>5, <1>6, <3>1 DEF Counted, Past, At
  <2>8. \A g \in Setters : ~ Ended(g)' =>
          /\ th'[g].tmp <= C + (N + 1)
          /\ \A i \in 0 .. Increments : Counted(g, i)' => th'[g].tmp >= C + i
    <3> SUFFICES ASSUME NEW g \in Setters, ~ Ended(g)'
                 PROVE  /\ th'[g].tmp <= C + (N + 1)
                        /\ \A i \in 0 .. Increments : Counted(g, i)' => th'[g].tmp >= C + i
      OBVIOUS
    <3>1. CASE g = h
      <4>1. th'[g].tmp <= C + (N + 1)
        BY <1>1, <1>4, <1>6, <2>3, <2>6, <3>1
      <4>2. \A i \in 0 .. Increments : i <= j => th'[h].tmp >= C + i
        BY <1>1, <1>4, <1>6, <2>3, <2>6
      <4> QED BY <2>7, <3>1, <4>1, <4>2
    <3>2. CASE g # h
      <4>1. /\ th[g].tmp <= C + N
            /\ \A i \in 0 .. Increments : Counted(g, i) => th[g].tmp >= C + i
        BY <1>3, <3>2 DEF CntInv
      <4>2. th[g].tmp <= C + (N + 1)
        BY <1>1, <1>4, <4>1
      <4> QED BY <1>3, <3>2, <4>1, <4>2
    <3> QED BY <3>1, <3>2
  <2>9. (\A g \in Setters : Counted(g, Increments)') => M' >= C + Increments
    <3> SUFFICES ASSUME Counted(h, Increments)' PROVE M' >= C + Increments
      BY <1>6
    <3>1. Increments <= j
      BY <1>0, <2>7
    <3> QED BY <1>0, <1>1, <1>4, <1>6, <2>3, <2>6, <3>1
  <2>10. C <= M' /\ M' <= C + (N + 1)
    BY <1>1, <1>4, <1>6, <2>3, <2>6
  <2> QED BY <1>2, <2>1, <2>8, <2>9, <2>10 DEF CntInv
<1>7. ASSUME BeginCall(h) /\ h \in Setters => th[h].next = ReadAt(h)
      PROVE  CntInv'
  <2>1. Counts' = Counts /\ N' = N
    BY <1>7, CountsStep
  <2>2. M' = M
    <3>1. CASE BeginCall(h) /\ h \in Setters
      <4>1. This(h) = Read("cnt_x", "setValue:34")
        BY <1>5, <1>7, <3>1, AccessStep
      <4> QED BY <3>1, <4>1, AccessStep DEF Read, Step
    <3>2. CASE BeginCall(h) /\ h \notin Setters
      <4>1. h \in Current
        BY <1>0, <3>2, AccessStep, LiveIsCurrent DEF ProgressInv, NoFaults, Current
      <4>2. ~ (This(h).do = "write" /\ This(h).member = "cnt_x")
        BY <3>2, <4>1, WriteStep DEF Setters
      <4> QED BY <1>0, <4>2, WrittenOnly
    <3>3. CASE ~ BeginCall(h)
      BY <1>0, <3>3, WrittenOnly
    <3> QED BY <3>1, <3>2, <3>3
  <2>3. ASSUME h \in Setters, NEW j \in 1 .. Increments
        PROVE  Counted(h, j)' = Counted(h, j)
    <3>1. ReadAt(h)' + j = ReadAt(h) + j /\ ReadAt(h) + j \in 1 .. Len(Program(h))
          /\ ReadAt(h) + j # ReadAt(h) /\ Program(h)[ReadAt(h) + j].do \in {"read", "write"}
      BY <1>0, <1>5, <2>3
    <3>2. CASE BeginCall(h)
      BY <1>7, <2>3, <3>1, <3>2, AccessStep DEF Counted, Past, At
    <3>3. CASE ~ BeginCall(h)
      BY <1>0, <3>1, <3>3, QuietStep DEF Counted, Past, At
    <3> QED BY <3>2, <3>3
  <2>4. ASSUME h \in Setters, ~ Ended(h)'
        PROVE  /\ th'[h].tmp <= C + N
               /\ \A i \in 0 .. Increments : Counted(h, i)' => th'[h].tmp >= C + i
    <3>1. CASE BeginCall(h)
      <4>1. This(h) = Read("cnt_x", "setValue:34")
        BY <1>5, <1>7, <2>4, <3>1, AccessStep
      <4>2. th'[h].tmp = M
        BY <3>1, <4>1, AccessStep DEF Read, Step
      <4>3. C <= M /\ M <= C + N
        BY DEF CntInv
      <4>4. \A i \in 1 .. Increments : ~ Counted(h, i)
        <5>1. th[h].next = ReadAt(h) /\ At(h, "routine") /\ ReadAt(h) \in Nat
          BY <1>5, <1>7, <2>4, <3>1, AccessStep
        <5> QED BY <5>1 DEF Counted, Past
      <4>5. \A i \in 0 .. Increments : i = 0 \/ i \in 1 .. Increments
        BY <1>0
      <4>6. \A i \in 0 .. Increments : Counted(h, i)' => i = 0
        BY <2>3, <2>4, <4>4, <4>5
      <4> QED BY <1>1, <4>2, <4>3, <4>6
    <3>2. CASE ~ BeginCall(h)
      <4>1. th'[h].tmp = th[h].tmp
        BY <1>0, <2>4, <3>2, QuietStep DEF Ended, At
      <4>2. ~ Ended(h)
        BY <1>0, OthersStay DEF Ended, At
      <4>3. \A i \in 0 .. Increments : Counted(h, i)' = Counted(h, i)
        BY <1>0, <1>5, <2>4, <3>2, QuietStep DEF Counted, Past, At
      <4> QED BY <2>4, <4>1, <4>2, <4>3 DEF CntInv
    <3> QED BY <3>1, <3>2
  <2>5. \A g \in Setters : ~ Ended(g)' =>
          /\ th'[g].tmp <= C + N
          /\ \A i \in 0 .. Increments : Counted(g, i)' => th'[g].tmp >= C + i
    <3> SUFFICES ASSUME NEW g \in Setters, g # h, ~ Ended(g)'
                 PROVE  /\ th'[g].tmp <= C + N
                        /\ \A i \in 0 .. Increments : Counted(g, i)' => th'[g].tmp >= C + i
      BY <2>4
    <3> QED BY <1>3 DEF CntInv
  <2>6. Setters # {} /\ (\A g \in Setters : Counted(g, Increments)') => M >= C + Increments
    <3>1. CASE Increments = 0
      BY <1>1, <3>1 DEF CntInv
    <3>2. CASE Increments # 0
      <4>1. Increments \in 1 .. Increments /\ Increments \in 0 .. Increments
        BY <1>0, <3>2
      <4>2. \A g \in Setters : Counted(g, Increments)' => Counted(g, Increments)
        BY <1>3, <2>3, <4>1
      <4> QED BY <4>2 DEF CntInv
    <3> QED BY <3>1, <3>2
  <2>7. C <= M /\ M <= C + N
    BY DEF CntInv
  <2> QED BY <1>2, <2>1, <2>2, <2>5, <2>6, <2>7 DEF CntInv
<1>8. BeginCall(h) /\ h \in Setters =>
        th[h].next = ReadAt(h) \/ \E j \in 1 .. Increments : th[h].next = ReadAt(h) + j
  <2> SUFFICES ASSUME BeginCall(h), h \in Setters, th[h].next # ReadAt(h)
               PROVE  \E j \in 1 .. Increments : th[h].next = ReadAt(h) + j
    OBVIOUS
  <2>1. th[h].next \in ReadAt(h) .. ReadAt(h) + Increments
    BY <1>5, AccessStep DEF Accesses
  <2>2. th[h].next - ReadAt(h) \in 1 .. Increments
    BY <1>0, <1>5, <2>1
  <2> QED BY <1>5, <2>1, <2>2
<1> QED BY <1>6, <1>7, <1>8

LEMMA ParcelStep ==
  ASSUME ProgressInv, RunningTry, ParcelInv, NEW h \in Handles, Moves(h)
  PROVE  ParcelInv'
<1> DEFINE C == atStart["num_parcels"]
           M == mem["num_parcels"]
           N == Cardinality(Parcels)
<1>0. /\ TypeOK /\ program \in Programs /\ NoFaults /\ Deliveries \in Nat
      /\ "num_parcels" \in DOMAIN Members
  BY WorkloadsAssumption, MemberNamesAre
     DEF ProgressInv, LeakInv, TypeOK, RunningTry, MemberNames
<1>1. C \in Nat /\ M \in Nat /\ N \in Nat /\ th[h].tmp \in Nat
  BY <1>0, FiniteTry DEF TypeOK
<1>2. Mailmen' = Mailmen /\ Mailmen \subseteq Handles /\ C' = C
  BY <1>0, SameTry DEF Mailmen, Current
<1>3. \A g \in Mailmen \ {h} : th'[g] = th[g] /\ Ended(g)' = Ended(g)
  BY <1>0, <1>2, SameTry
<1>4. \A g \in Mailmen : ~ Ended(g) => th[g].tmp <= C + N
  BY DEF ParcelInv
<1>5. M <= C + N
  BY DEF ParcelInv
<1>6. ASSUME NEW j \in 1 .. Deliveries,
             BeginCall(h), h \in Mailmen, th[h].next = 2 * j
      PROVE  ParcelInv'
  <2>1. N' = N + 1
    BY <1>6, ParcelsStep
  <2>2. This(h) = Write("num_parcels", "mailman:79")
    BY <1>0, <1>2, <1>6, AccessStep, MailmanSteps DEF Mailmen
  <2>3. th'[h].tmp = (th[h].tmp + 1) % 256 /\ M' = th'[h].tmp
    <3>1. Computed(This(h).site, th[h].tmp) = (th[h].tmp + 1) % 256
      BY <2>2 DEF Write, Step, Computed
    <3> QED BY <1>0, <1>6, <2>2, <3>1, AccessStep DEF Write, Step
  <2>4. ~ Ended(h)
    BY <1>6, AccessStep DEF At, Ended
  <2>5. (th[h].tmp + 1) % 256 <= th[h].tmp + 1
    BY <1>1
  <2>6. M' <= C + (N + 1)
    BY <1>1, <1>4, <1>6, <2>3, <2>4, <2>5
  <2>7. \A g \in Mailmen \ {h} : ~ Ended(g)' => th'[g].tmp <= C + (N + 1)
    <3>1. \A g \in Mailmen \ {h} : th[g].tmp \in Nat
      BY <1>0, <1>2 DEF TypeOK
    <3> QED BY <1>1, <1>3, <1>4, <3>1
  <2> QED BY <1>2, <2>1, <2>3, <2>6, <2>7 DEF ParcelInv
<1>7. ASSUME BeginCall(h) /\ h \in Mailmen => \E j \in 1 .. Deliveries : th[h].next = 2 * j - 1
      PROVE  ParcelInv'
  <2>1. N' = N
    BY <1>7, ParcelsStep
  <2>2. CASE BeginCall(h) /\ h \in Mailmen
    <3>1. This(h) = Read("num_parcels", "mailman:77")
      BY <1>0, <1>2, <1>7, <2>2, AccessStep, MailmanSteps DEF Mailmen
    <3>2. mem' = mem /\ th'[h].tmp = M
      BY <2>2, <3>1, AccessStep DEF Read, Step
    <3> QED BY <1>2, <1>3, <1>4, <1>5, <2>1, <3>2 DEF ParcelInv
  <2>3. CASE BeginCall(h) /\ h \notin Mailmen
    <3>1. h \in Current
      BY <1>0, <2>3, AccessStep, LiveIsCurrent DEF ProgressInv, NoFaults, Current
    <3>2. CASE This(h).do = "write" /\ This(h).member = "num_parcels"
      <4>1. This(h).site = "mail_customer:90"
        BY <2>3, <3>1, <3>2, WriteStep DEF Mailmen
      <4>2. M' = 0
        BY <1>0, <2>3, <3>2, <4>1, AccessStep DEF Computed
      <4> QED BY <1>1, <1>2, <1>3, <1>4, <2>1, <2>3, <4>2 DEF ParcelInv
    <3>3. CASE ~ (This(h).do = "write" /\ This(h).member = "num_parcels")
      <4>1. M' = M
        BY <1>0, <3>3, WrittenOnly
      <4> QED BY <1>2, <1>3, <1>4, <1>5, <2>1, <2>3, <4>1 DEF ParcelInv
    <3> QED BY <3>2, <3>3
  <2>4. CASE ~ BeginCall(h)
    <3>1. M' = M
      BY <1>0, <2>4, WrittenOnly
    <3>2. ~ Ended(h)' => th'[h].tmp = th[h].tmp
      BY <1>0, <2>4, QuietStep DEF Ended, At
    <3>3. ~ Ended(h)
      BY <1>0, OthersStay DEF Ended, At
    <3> QED BY <1>2, <1>3, <1>4, <1>5, <2>1, <3>1, <3>2, <3>3 DEF ParcelInv
  <2> QED BY <2>2, <2>3, <2>4
<1>8. BeginCall(h) /\ h \in Mailmen =>
        \E j \in 1 .. Deliveries : th[h].next = 2 * j - 1 \/ th[h].next = 2 * j
  <2> SUFFICES ASSUME BeginCall(h), h \in Mailmen
               PROVE  \E j \in 1 .. Deliveries : th[h].next = 2 * j - 1 \/ th[h].next = 2 * j
    OBVIOUS
  <2>1. th[h].next \in 1 .. 2 * Deliveries
    BY <1>0, <1>2, AccessStep, MailmanSteps DEF Mailmen
  <2>2. (th[h].next + 1) \div 2 \in 1 .. Deliveries
    BY <1>0, <2>1
  <2>3. th[h].next = 2 * ((th[h].next + 1) \div 2) - 1 \/ th[h].next = 2 * ((th[h].next + 1) \div 2)
    BY <1>0, <2>1
  <2> QED BY <2>2, <2>3
<1> QED BY <1>6, <1>7, <1>8

\* A try begins with nothing written.
LEMMA UpdatesBegin ==
  ASSUME ProgressInv, NextTry, RunningTry'
  PROVE  CntInv' /\ ParcelInv'
<1>0. /\ TypeOK /\ BirthInv /\ program \in Programs /\ try \in Nat /\ NumTries \in Nat
      /\ {"cnt_x", "num_parcels"} \subseteq DOMAIN Members
      /\ Increments \in Nat /\ Deliveries \in Nat
  BY NumTriesType, MemberNamesAre, WorkloadsAssumption, SMTT(20)
     DEF ProgressInv, LeakInv, TypeOK, MemberNames
<1>1. /\ Handles' = Handles /\ NumTries' = NumTries
      /\ \A g : Routine(g)' = Routine(g)
  <2>1. program' = program
    BY DEF NextTry
  <2> QED BY <2>1, SameProgram
<1>2. try' = try + 1 /\ mem' = mem /\ try < NumTries
  BY <1>0, <1>1, FreshTry DEF RunningTry
<1>3. /\ atStart' = mem
      /\ \A h \in Handles : h[1] = try + 1 => th'[h] = [at |-> "routine", next |-> 1, tmp |-> 0]
  BY <1>2, FreshTry DEF RunningTry
<1>4. \A h \in Setters' : th'[h].tmp = 0 /\ \A j \in 1 .. Increments : ~ Counted(h, j)'
  <2> SUFFICES ASSUME NEW h \in Setters'
               PROVE  th'[h].tmp = 0 /\ \A j \in 1 .. Increments : ~ Counted(h, j)'
    OBVIOUS
  <2>1. th'[h] = [at |-> "routine", next |-> 1, tmp |-> 0]
    BY <1>1, <1>2, <1>3 DEF Setters, Current
  <2>2. ReadAt(h)' \in {1, 2}
    BY DEF ReadAt
  <2> QED BY <1>0, <2>1, <2>2 DEF Counted, Past, At
<1>5. \A h \in Setters' : ~ Counted(h, 0)'
  <2> SUFFICES ASSUME NEW h \in Setters' PROVE ~ Counted(h, 0)'
    OBVIOUS
  <2>1. th'[h] = [at |-> "routine", next |-> 1, tmp |-> 0]
    BY <1>1, <1>2, <1>3 DEF Setters, Current
  <2>2. ReadAt(h)' \in {1, 2}
    BY DEF ReadAt
  <2> QED BY <1>0, <2>1, <2>2 DEF Counted, Past, At
<1>6. \A h \in Mailmen' : th'[h].tmp = 0 /\ \A j \in 1 .. Deliveries : ~ Delivered(h, j)'
  <2> SUFFICES ASSUME NEW h \in Mailmen'
               PROVE  th'[h].tmp = 0 /\ \A j \in 1 .. Deliveries : ~ Delivered(h, j)'
    OBVIOUS
  <2>1. th'[h] = [at |-> "routine", next |-> 1, tmp |-> 0]
    BY <1>1, <1>2, <1>3 DEF Mailmen, Current
  <2> QED BY <1>0, <2>1 DEF Delivered, Past, At
<1>7. Counts' = {} /\ Parcels' = {}
  <2>1. Counts' = {}
    BY <1>4 DEF Counts
  <2>2. Parcels' = {}
    BY <1>6 DEF Parcels
  <2> QED BY <2>1, <2>2
<1>8. Cardinality(Counts)' = 0 /\ Cardinality(Parcels)' = 0
  BY <1>7, FS_EmptySet
<1>9. mem["cnt_x"] \in Nat /\ mem["num_parcels"] \in Nat
  BY <1>0 DEF TypeOK
<1>10. \A h \in Setters' : \A j \in 0 .. Increments : ~ Counted(h, j)'
  <2>1. \A j \in 0 .. Increments : j = 0 \/ j \in 1 .. Increments
    BY <1>0
  <2> QED BY <1>4, <1>5, <2>1
<1>11. Increments \in 0 .. Increments
  BY <1>0
<1>12. \A h \in Setters' : ~ Counted(h, Increments)'
  BY <1>10, <1>11
<1>13. CntInv'
  BY <1>2, <1>3, <1>4, <1>8, <1>9, <1>10, <1>12 DEF CntInv
<1>14. ParcelInv'
  BY <1>2, <1>3, <1>6, <1>8, <1>9 DEF ParcelInv
<1> QED BY <1>13, <1>14

LEMMA UpdatesStep == UpdatesInv /\ [Next]_vars => UpdatesInv'
<1> SUFFICES ASSUME UpdatesInv, [Next]_vars PROVE UpdatesInv'
  OBVIOUS
<1>1. ProgressInv' /\ TypeOK
  BY ProgressStep DEF UpdatesInv, ProgressInv, LeakInv
<1>2. SUFFICES ASSUME RunningTry' PROVE CntInv' /\ ParcelInv'
  BY <1>1 DEF UpdatesInv
<1>3. CASE NextTry
  BY <1>2, <1>3, UpdatesBegin DEF UpdatesInv
<1>4. CASE Timeout
  BY <1>2, <1>4 DEF Timeout, RunningTry, NoFaults
<1>5. ASSUME NEW h \in Handles, Moves(h) PROVE CntInv' /\ ParcelInv'
  <2>1. RunningTry
    BY <1>1, <1>2, <1>5, SameTry
  <2> QED BY <1>5, <2>1, CntStep, ParcelStep DEF UpdatesInv
<1>6. CASE UNCHANGED vars
  <2>1. /\ UNCHANGED <<mem, atStart, th, try, late, failed, Handles, NumTries>>
        /\ \A g : Routine(g)' = Routine(g)
    BY <1>6, SameProgram DEF vars
  <2>2. UNCHANGED <<Setters, Mailmen>> /\ \A g : ReadAt(g)' = ReadAt(g)
    BY <2>1 DEF Setters, Mailmen, Current, ReadAt
  <2>3. /\ UNCHANGED <<Counts, Parcels>> /\ RunningTry
        /\ \A g, j : Counted(g, j)' = Counted(g, j)
    BY <1>2, <2>1, <2>2 DEF Counts, Parcels, Counted, Delivered, Past, At, RunningTry, NoFaults
  <2>4. CntInv /\ ParcelInv
    BY <2>3 DEF UpdatesInv
  <2>5. CntInv'
    BY <2>1, <2>2, <2>3, <2>4 DEF CntInv, Ended, At
  <2>6. ParcelInv'
    BY <2>1, <2>2, <2>3, <2>4 DEF ParcelInv, Ended, At
  <2> QED BY <2>5, <2>6
<1> QED BY <1>3, <1>4, <1>5, <1>6 DEF Next, Moves

\* In any set of any table, for any lengths of the loops: a try that ends by
\* itself leaves cnt_x larger by at least one setter's increments and at most by
\* all of them, however the calls interleave, and in the box no parcel more than
\* were put there.
THEOREM RacesLoseSome == Spec => []RacesLoseNotAll
<1>1. Init => UpdatesInv
  BY ProgressInit DEF UpdatesInv, RunningTry, Init
<1>2. UpdatesInv => RacesLoseNotAll
  <2> SUFFICES ASSUME UpdatesInv, RunningTry, AllEnded
               PROVE  LET grown == mem.cnt_x - atStart.cnt_x
                      IN  /\ mem.num_parcels <= atStart.num_parcels + Deliveries * Cardinality(Mailmen)
                          /\ grown <= Increments * Cardinality(Setters)
                          /\ Setters # {} => grown >= Increments
    BY DEF RacesLoseNotAll, Setters, Mailmen, RunningTry, NoFaults
  <2>0. /\ TypeOK /\ program \in Programs /\ NoFaults /\ GoneInv
        /\ Increments \in Nat /\ Deliveries \in Nat /\ CntInv /\ ParcelInv
    BY WorkloadsAssumption DEF UpdatesInv, ProgressInv, LeakInv, TypeOK, RunningTry
  <2>1. {"cnt_x", "num_parcels"} \subseteq DOMAIN Members
    BY MemberNamesAre DEF MemberNames
  <2>2. /\ mem.cnt_x \in Nat /\ atStart.cnt_x \in Nat
        /\ mem.num_parcels \in Nat /\ atStart.num_parcels \in Nat
    BY <2>0, <2>1 DEF TypeOK
  <2>3. \A h \in Setters : Counted(h, Increments)
    <3> SUFFICES ASSUME NEW h \in Setters PROVE Counted(h, Increments)
      OBVIOUS
    <3>1. h \in Handles /\ Routine(h) \in {"setValue", "setValue_safe"} /\ Ended(h)
      BY DEF Setters, AllEnded, Current
    <3>2. th[h].next > Len(Program(h)) /\ th[h].next \in Nat
      BY <2>0, <3>1 DEF GoneInv, TypeOK
    <3>3. Len(Program(h)) \in Nat /\ ReadAt(h) \in {1, 2} /\ ReadAt(h) + Increments <= Len(Program(h))
      BY <2>0, <3>1, SetterSteps
    <3> QED BY <2>0, <3>2, <3>3 DEF Counted, Past
  <2>4. /\ mem.cnt_x <= atStart.cnt_x + Cardinality(Counts)
        /\ mem.num_parcels <= atStart.num_parcels + Cardinality(Parcels)
        /\ Setters # {} => mem.cnt_x >= atStart.cnt_x + Increments
    BY <2>0, <2>3 DEF CntInv, ParcelInv
  <2>5. /\ Cardinality(Counts) \in Nat /\ Cardinality(Parcels) \in Nat
        /\ Cardinality(Counts) <= Increments * Cardinality(Setters)
        /\ Cardinality(Parcels) <= Deliveries * Cardinality(Mailmen)
        /\ Cardinality(Setters) \in Nat /\ Cardinality(Mailmen) \in Nat
    BY <2>0, FiniteTry
  <2>6. Increments * Cardinality(Setters) \in Nat /\ Deliveries * Cardinality(Mailmen) \in Nat
    BY <2>0, <2>5
  <2> HIDE DEF Setters, Mailmen
  <2> QED BY <2>0, <2>2, <2>4, <2>5, <2>6
<1> QED BY <1>1, <1>2, UpdatesStep, PTL DEF Spec
-----------------------------------------------------------------------------
(* What the semaphore orders. *)

Firsts(n) == { i \in DOMAIN SetOf(n) : SetOf(n)[i] = "readModifyWrite_first" }
Seconds(n) == { i \in DOMAIN SetOf(n) : SetOf(n)[i] = "readModifyWrite_second" }
OnePair(n) == \E i, k \in Threads : Firsts(n) = {i} /\ Seconds(n) = {k}
NoPair(n) == Firsts(n) = {} /\ Seconds(n) = {}

\* A second waits only for the post of its own first: until the last set with a
\* second, a set has one of each or none of either.  main never resets the
\* semaphore, and in threadset_table the first without a second comes last.
TableOrdered ==
  \A n \in 1 .. NumTries : Seconds(n) # {} => \A m \in 1 .. n : OnePair(m) \/ NoPair(m)

SecondToCome == \E n \in 1 .. NumTries : try <= n /\ Seconds(n) # {}

Posted(h) == th[h].next > 3
Waited(h) == th[h].next > 1

\* The semaphore counts what was posted in this try and not yet taken.
SemaphoreInv ==
  NoFaults /\ TableOrdered /\ SecondToCome =>
    /\ (\A h \in Current : Routine(h) \notin {"readModifyWrite_first", "readModifyWrite_second"})
         => x_to_y = 0
    /\ \A h, g \in Current :
         Routine(h) = "readModifyWrite_first" /\ Routine(g) = "readModifyWrite_second"
           => x_to_y = (IF Posted(h) THEN 1 ELSE 0) - (IF Waited(g) THEN 1 ELSE 0)

OnlyThePair(n) ==
  { SetOf(n)[i] : i \in DOMAIN SetOf(n) } = {"readModifyWrite_first", "readModifyWrite_second"}

UnreportedInv == RunningTry /\ TableOrdered /\ OnlyThePair(try) => logged = {}

OrderedInv == ProgressInv /\ SemaphoreInv /\ UnreportedInv

\* Where the pair's synchronisation is; nobody else's routine has any.
LEMMA PairSteps ==
  ASSUME program \in Programs, NEW h \in Handles
  PROVE  /\ Len(Program(h)) \in Nat
         /\ Routine(h) = "readModifyWrite_first" =>
              /\ Len(Program(h)) = 3
              /\ Program(h)[1].do = "read" /\ Program(h)[2].do = "write"
              /\ Program(h)[3].do = "post"
         /\ Routine(h) = "readModifyWrite_second" =>
              /\ Len(Program(h)) = 3
              /\ Program(h)[1].do = "wait"
              /\ Program(h)[2].do = "read" /\ Program(h)[3].do = "write"
         /\ Routine(h) \notin {"readModifyWrite_first", "readModifyWrite_second"} =>
              \A k \in 1 .. Len(Program(h)) : Program(h)[k].do \notin {"post", "wait"}
<1>0. Routine(h) \in Routines
  BY HandleParts
<1>1. Len(Program(h)) \in Nat
  BY <1>0, BodySteps DEF Program
<1>2. /\ readModifyWrite \in Seq(Steps) /\ Len(readModifyWrite) = 2
      /\ readModifyWrite[1].do = "read" /\ readModifyWrite[2].do = "write"
  <2>1. readModifyWrite \in Seq(Steps)
    BY ReadModifyWriteAccesses, SeqMonotonic DEF Steps
  <2> QED BY <2>1, ReadModifyWriteSteps DEF Read, Write, Step
<1>3. ASSUME NEW do \in {"post", "wait"}
      PROVE  Sync(do) \in Seq(Steps) /\ Len(Sync(do)) = 1 /\ Sync(do)[1].do = do
  <2>1. Step(do, "", "") \in Steps /\ Step(do, "", "").do = do
    BY DEF Step, Steps, Ordering
  <2> HIDE DEF Steps
  <2> QED BY <2>1, SyncIsSeq
<1>4. /\ Routine(h) = "readModifyWrite_first" =>
           /\ Len(Program(h)) = 3
           /\ Program(h)[1].do = "read" /\ Program(h)[2].do = "write"
           /\ Program(h)[3].do = "post"
      /\ Routine(h) = "readModifyWrite_second" =>
           /\ Len(Program(h)) = 3
           /\ Program(h)[1].do = "wait"
           /\ Program(h)[2].do = "read" /\ Program(h)[3].do = "write"
  <2> DEFINE rmw == readModifyWrite
             post == Sync("post")
             wait == Sync("wait")
  <2>1. /\ rmw \in Seq(Steps) /\ post \in Seq(Steps) /\ wait \in Seq(Steps)
        /\ Len(rmw) = 2 /\ Len(post) = 1 /\ Len(wait) = 1
    BY <1>2, <1>3
  <2>2. rmw[1].do = "read" /\ rmw[2].do = "write" /\ post[1].do = "post" /\ wait[1].do = "wait"
    BY <1>2, <1>3
  <2>3. /\ Routine(h) = "readModifyWrite_first" => Program(h) = rmw \o post
        /\ Routine(h) = "readModifyWrite_second" => Program(h) = wait \o rmw
    BY DEF Program, Body, First, Second
  <2> HIDE DEF rmw, post, wait
  <2>4. /\ Len(rmw \o post) = 3 /\ (rmw \o post)[1] = rmw[1]
        /\ (rmw \o post)[2] = rmw[2] /\ (rmw \o post)[3] = post[1]
    <3>1. /\ Len(rmw \o post) = Len(rmw) + Len(post)
          /\ \A k \in 1 .. Len(rmw) + Len(post) :
               (rmw \o post)[k] = IF k <= Len(rmw) THEN rmw[k] ELSE post[k - Len(rmw)]
      BY <2>1, ConcatProperties
    <3> QED BY <2>1, <3>1
  <2>5. /\ Len(wait \o rmw) = 3 /\ (wait \o rmw)[1] = wait[1]
        /\ (wait \o rmw)[2] = rmw[1] /\ (wait \o rmw)[3] = rmw[2]
    <3>1. /\ Len(wait \o rmw) = Len(wait) + Len(rmw)
          /\ \A k \in 1 .. Len(wait) + Len(rmw) :
               (wait \o rmw)[k] = IF k <= Len(wait) THEN wait[k] ELSE rmw[k - Len(wait)]
      BY <2>1, ConcatProperties
    <3> QED BY <2>1, <3>1
  <2> QED BY <2>2, <2>3, <2>4, <2>5
<1>5. ASSUME Routine(h) \notin {"readModifyWrite_first", "readModifyWrite_second"}
      PROVE  Program(h) \in Seq({ s \in Steps : s.do \notin {"post", "wait"} })
  <2> DEFINE S == { s \in Steps : s.do \notin {"post", "wait"} }
  <2>1. Accesses \subseteq S
    BY DEF Steps, Accesses
  <2>2. Step("lock", "", "") \in S /\ Step("unlock", "", "") \in S /\ Step("sleep", "", "") \in S
    BY DEF Steps, Step, Locking, Ordering
  <2> HIDE DEF S
  <2>3. setValue \in Seq(S) /\ readModifyWrite \in Seq(S)
    BY <2>1, SetValueAccesses, ReadModifyWriteAccesses, SeqMonotonic
  <2>4. Sync("lock") \in Seq(S) /\ Sync("unlock") \in Seq(S) /\ Sync("sleep") \in Seq(S)
    BY <2>2, SyncIsSeq
  <2>5. \A s \in Seq(S) : WithAccessMutex(s) \in Seq(S)
    BY <2>4, ConcatProperties DEF WithAccessMutex
  <2>6. Sync("sleep") \o readModifyWrite \in Seq(S)
    BY <2>3, <2>4, ConcatProperties
  <2>7. /\ Read("num_parcels", "mailman:77") \in S
        /\ Write("num_parcels", "mailman:79") \in S
        /\ Read("num_parcels", "mail_customer:88") \in S
        /\ Write("num_parcels", "mail_customer:90") \in S
        /\ Read("cnt_x", "readValue:30") \in S
    BY <2>1, MemberNamesAre DEF Accesses, Read, Write, Step, CallSites, WriteSites
  <2>8. ASSUME NEW r1 \in S, NEW w1 \in S, NEW n \in Nat PROVE Times(n, <<r1, w1>>) \in Seq(S)
    <3>1. <<r1, w1>> \in Seq(S) /\ Len(<<r1, w1>>) = 2
      OBVIOUS
    <3> QED BY <3>1, TimesIsSeq
  <2>9. <<>> \in Seq(S) /\ \A s \in S : <<s>> \in Seq(S)
    OBVIOUS
  <2>10. Program(h) \in Seq(S)
    <3>1. CASE Routine(h) \in {"setValue", "setValue_safe", "readModifyWrite", "readModifyWrite_safe"}
      BY <2>3, <2>5, <3>1 DEF Program, Body
    <3>2. CASE Routine(h) \in {"mailman", "mail_customer"}
      BY <2>7, <2>8, <3>2, WorkloadsAssumption DEF Program, Body
    <3>3. CASE Routine(h) \in {"empty", "readValue", "readModifyWrite_foolhb"}
      BY <2>6, <2>7, <2>9, <3>3 DEF Program, Body
    <3> QED BY <1>0, <1>5, <3>1, <3>2, <3>3 DEF Routines
  <2> QED BY <2>10 DEF S
<1>6. ASSUME Routine(h) \notin {"readModifyWrite_first", "readModifyWrite_second"}
      PROVE  \A k \in 1 .. Len(Program(h)) : Program(h)[k].do \notin {"post", "wait"}
  BY <1>5, <1>6, ElementOfSeq
<1> QED BY <1>1, <1>4, <1>6

\* A thread goes one instruction on, and the semaphore with it.
LEMMA Onward ==
  ASSUME ProgressInv, NoFaults, NEW h \in Handles, Moves(h)
  PROVE  \/ th'[h].next = th[h].next /\ x_to_y' = x_to_y
         \/ /\ th'[h].next = th[h].next + 1 /\ th[h].next \in 1 .. Len(Program(h))
            /\ This(h).do = "post" => x_to_y' = x_to_y + 1
            /\ This(h).do = "wait" => x_to_y > 0 /\ x_to_y' = x_to_y - 1
            /\ This(h).do \notin {"post", "wait"} => x_to_y' = x_to_y
<1>0. TypeOK /\ program \in Programs /\ CallInv /\ th[h].next \in Nat \ {0} /\ h \notin cancelled
      /\ Len(Program(h)) \in Nat
  BY PairSteps DEF ProgressInv, LeakInv, TypeOK, InTimeInv, NoFaults
<1>1. CASE BeginCall(h) \/ Finish(h)
  BY <1>0, <1>1 DEF BeginCall, Finish, TypeOK
<1>2. CASE EndCall(h)
  <2>1. th[h].next <= Len(Program(h)) /\ This(h).do \in {"read", "write"}
    BY <1>0, <1>2 DEF EndCall, CallInv
  <2>2. th'[h].next = th[h].next + 1 /\ x_to_y' = x_to_y
    BY <1>0, <1>2 DEF EndCall, TypeOK
  <2> QED BY <1>0, <2>1, <2>2
<1>3. CASE TakeAccessMutex(h) \/ GiveAccessMutex(h)
  <2>1. th[h].next <= Len(Program(h)) /\ This(h).do \in {"lock", "unlock"}
    BY <1>3 DEF TakeAccessMutex, GiveAccessMutex, AtStep, InRoutine
  <2>2. th'[h].next = th[h].next + 1 /\ x_to_y' = x_to_y
    BY <1>0, <1>3 DEF TakeAccessMutex, GiveAccessMutex, TypeOK
  <2> QED BY <1>0, <2>1, <2>2
<1>4. CASE Semaphore(h)
  <2>1. /\ th[h].next <= Len(Program(h))
        /\ \/ This(h).do = "post" /\ x_to_y' = x_to_y + 1
           \/ This(h).do = "wait" /\ x_to_y > 0 /\ x_to_y' = x_to_y - 1
           \/ This(h).do = "sleep" /\ x_to_y' = x_to_y
    BY <1>4 DEF Semaphore, AtStep, InRoutine
  <2>2. th'[h].next = th[h].next + 1
    BY <1>0, <1>4 DEF Semaphore, TypeOK
  <2> QED BY <1>0, <2>1, <2>2
<1> QED BY <1>0, <1>1, <1>2, <1>3, <1>4 DEF Moves, Perform, DieSleeping, DiePrinting

\* In a set with one pair there is one first and one second.
LEMMA ThePair ==
  ASSUME program \in Programs, OnePair(try)
  PROVE  /\ \A h, g \in Current :
              /\ Routine(h) = "readModifyWrite_first" /\ Routine(g) = "readModifyWrite_first" => h = g
              /\ Routine(h) = "readModifyWrite_second" /\ Routine(g) = "readModifyWrite_second" => h = g
         /\ try \in 1 .. NumTries => \E h, g \in Current :
              Routine(h) = "readModifyWrite_first" /\ Routine(g) = "readModifyWrite_second"
<1>1. PICK i \in Threads, k \in Threads : Firsts(try) = {i} /\ Seconds(try) = {k}
  BY DEF OnePair
<1>2. \A h \in Current : /\ h = <<try, h[2]>> /\ h[2] \in DOMAIN SetOf(try)
                         /\ Routine(h) = SetOf(try)[h[2]]
  BY HandleParts DEF Current, Routine
<1>3. \A h \in Current : /\ Routine(h) = "readModifyWrite_first" => h = <<try, i>>
                         /\ Routine(h) = "readModifyWrite_second" => h = <<try, k>>
  BY <1>1, <1>2 DEF Firsts, Seconds
<1>4. ASSUME try \in 1 .. NumTries
      PROVE  /\ <<try, i>> \in Current /\ Routine(<<try, i>>) = "readModifyWrite_first"
             /\ <<try, k>> \in Current /\ Routine(<<try, k>>) = "readModifyWrite_second"
  <2>1. i \in DOMAIN SetOf(try) /\ k \in DOMAIN SetOf(try)
    BY <1>1 DEF Firsts, Seconds
  <2>2. <<try, i>> \in Handles /\ <<try, k>> \in Handles
    BY <1>4, <2>1 DEF Handles
  <2>3. SetOf(try)[i] = "readModifyWrite_first" /\ SetOf(try)[k] = "readModifyWrite_second"
    BY <1>1 DEF Firsts, Seconds
  <2> QED BY <2>2, <2>3 DEF Current, Routine
<1> QED BY <1>3, <1>4

LEMMA NoPairHere ==
  ASSUME program \in Programs, NoPair(try), NEW h \in Current
  PROVE  Routine(h) \notin {"readModifyWrite_first", "readModifyWrite_second"}
<1>1. h[2] \in DOMAIN SetOf(try) /\ Routine(h) = SetOf(try)[h[2]]
  BY HandleParts DEF Current, Routine
<1> QED BY <1>1 DEF NoPair, Firsts, Seconds

\* While a second is to come, each set so far is of one kind or the other.
LEMMA PairOrNot ==
  ASSUME program \in Programs, TableOrdered, SecondToCome, try \in 1 .. NumTries
  PROVE  OnePair(try) \/ NoPair(try)
<1>1. PICK n \in 1 .. NumTries : try <= n /\ Seconds(n) # {}
  BY DEF SecondToCome
<1>2. NumTries \in Nat
  BY NumTriesType
<1>3. try \in 1 .. n
  BY <1>1, <1>2
<1> QED BY <1>1, <1>3 DEF TableOrdered

LEMMA SameOrder ==
  ASSUME program' = program
  PROVE  /\ TableOrdered' = TableOrdered
         /\ \A n : Seconds(n)' = Seconds(n) /\ Firsts(n)' = Firsts(n)
                   /\ OnePair(n)' = OnePair(n) /\ NoPair(n)' = NoPair(n)
                   /\ OnlyThePair(n)' = OnlyThePair(n)
<1>1. NumTries' = NumTries /\ \A n : SetOf(n)' = SetOf(n)
  BY SameProgram
<1>2. \A n : Seconds(n)' = Seconds(n) /\ Firsts(n)' = Firsts(n) /\ OnlyThePair(n)' = OnlyThePair(n)
  BY <1>1 DEF Seconds, Firsts, OnlyThePair
<1>3. \A n : OnePair(n)' = OnePair(n) /\ NoPair(n)' = NoPair(n)
  BY <1>2 DEF OnePair, NoPair
<1> QED BY <1>1, <1>2, <1>3 DEF TableOrdered

\* What the steps of the pair do to the semaphore's count.
LEMMA SemaphoreStep ==
  ASSUME ProgressInv, SemaphoreInv, NoFaults, TableOrdered, SecondToCome,
         NEW h \in Handles, Moves(h)
  PROVE  SemaphoreInv'
<1>0. /\ TypeOK /\ program \in Programs /\ th[h].next \in Nat \ {0} /\ x_to_y \in Nat
      /\ h \in Current /\ try \in 1 .. NumTries
  <2>1. TypeOK
    BY DEF ProgressInv, LeakInv
  <2>2. h[1] = try
    BY <2>1, OthersStay, LiveIsCurrent DEF ProgressInv, NoFaults
  <2> QED BY <2>1, <2>2, HandleParts DEF TypeOK, Current
<1>1. Current' = Current /\ \A g : Routine(g)' = Routine(g) /\ Program(g)' = Program(g)
  BY <1>0, SameTry
<1>2. \A g \in Current \ {h} : th'[g] = th[g]
  BY <1>0, SameTry DEF Current
<1>3. \/ th'[h].next = th[h].next /\ x_to_y' = x_to_y
      \/ /\ th'[h].next = th[h].next + 1 /\ th[h].next \in 1 .. Len(Program(h))
         /\ This(h).do = "post" => x_to_y' = x_to_y + 1
         /\ This(h).do = "wait" => x_to_y > 0 /\ x_to_y' = x_to_y - 1
         /\ This(h).do \notin {"post", "wait"} => x_to_y' = x_to_y
  BY Onward
<1>4. CASE NoPair(try)
  <2>1. \A g \in Current : Routine(g) \notin {"readModifyWrite_first", "readModifyWrite_second"}
    BY <1>0, <1>4, NoPairHere
  <2>2. x_to_y = 0
    BY <2>1 DEF SemaphoreInv
  <2>3. x_to_y' = 0
    BY <1>0, <1>3, <2>1, <2>2, PairSteps DEF This
  <2> QED BY <1>1, <2>1, <2>3 DEF SemaphoreInv
<1>5. CASE OnePair(try)
  <2>1. PICK f \in Current, s \in Current :
          Routine(f) = "readModifyWrite_first" /\ Routine(s) = "readModifyWrite_second"
    BY <1>0, <1>5, ThePair
  <2>2. \A g \in Current : /\ Routine(g) = "readModifyWrite_first" => g = f
                           /\ Routine(g) = "readModifyWrite_second" => g = s
    BY <1>0, <1>5, <2>1, ThePair
  <2>3. x_to_y = (IF Posted(f) THEN 1 ELSE 0) - (IF Waited(s) THEN 1 ELSE 0)
    BY <2>1 DEF SemaphoreInv
  <2>4. x_to_y' = (IF th'[f].next > 3 THEN 1 ELSE 0) - (IF th'[s].next > 1 THEN 1 ELSE 0)
    <3>1. CASE h = f
      <4>1. /\ Len(Program(f)) = 3 /\ Program(f)[1].do = "read" /\ Program(f)[2].do = "write"
            /\ Program(f)[3].do = "post"
        BY <1>0, <2>1, PairSteps DEF Current
      <4>2. th'[s] = th[s]
        BY <1>2, <2>1, <3>1
      <4>3. CASE th'[f].next = th[f].next /\ x_to_y' = x_to_y
        BY <2>3, <4>2, <4>3 DEF Posted, Waited
      <4>4. CASE th'[f].next = th[f].next + 1 /\ th[f].next \in {1, 2} /\ x_to_y' = x_to_y
        BY <2>3, <4>2, <4>4 DEF Posted, Waited
      <4>5. CASE th'[f].next = th[f].next + 1 /\ th[f].next = 3 /\ x_to_y' = x_to_y + 1
        BY <1>0, <2>3, <4>2, <4>5 DEF Posted, Waited
      <4> QED BY <1>3, <3>1, <4>1, <4>3, <4>4, <4>5 DEF This
    <3>2. CASE h = s
      <4>1. /\ Len(Program(s)) = 3 /\ Program(s)[1].do = "wait" /\ Program(s)[2].do = "read"
            /\ Program(s)[3].do = "write"
        BY <1>0, <2>1, PairSteps DEF Current
      <4>2. th'[f] = th[f]
        BY <1>2, <2>1, <3>2
      <4>3. CASE th'[s].next = th[s].next /\ x_to_y' = x_to_y
        BY <2>3, <4>2, <4>3 DEF Posted, Waited
      <4>4. CASE th'[s].next = th[s].next + 1 /\ th[s].next \in {2, 3} /\ x_to_y' = x_to_y
        BY <2>3, <4>2, <4>4 DEF Posted, Waited
      <4>5. CASE th'[s].next = th[s].next + 1 /\ th[s].next = 1 /\ x_to_y' = x_to_y - 1
        BY <1>0, <2>3, <4>2, <4>5 DEF Posted, Waited
      <4> QED BY <1>3, <3>2, <4>1, <4>3, <4>4, <4>5 DEF This
    <3>3. CASE h # f /\ h # s
      <4>1. Routine(h) \notin {"readModifyWrite_first", "readModifyWrite_second"}
        BY <1>0, <2>2, <3>3
      <4>2. x_to_y' = x_to_y
        BY <1>0, <1>3, <4>1, PairSteps DEF This
      <4> QED BY <1>2, <2>1, <2>3, <3>3, <4>2 DEF Posted, Waited
    <3> QED BY <3>1, <3>2, <3>3
  <2> QED BY <1>1, <2>1, <2>2, <2>4 DEF SemaphoreInv, Posted, Waited
<1> QED BY <1>0, <1>4, <1>5, PairOrNot

\* When a try has ended by itself, whatever was posted has been taken.
LEMMA SemaphoreRests ==
  ASSUME ProgressInv, SemaphoreInv, NoFaults, TableOrdered, SecondToCome, AllEnded
  PROVE  x_to_y = 0
<1>0. TypeOK /\ program \in Programs /\ GoneInv /\ try \in Nat
  BY NumTriesType DEF ProgressInv, LeakInv, TypeOK
<1>1. try <= NumTries
  BY <1>0, NumTriesType DEF SecondToCome
<1>2. CASE try = 0
  <2>1. Current = {}
    BY <1>0, <1>2, HandleParts DEF Current
  <2> QED BY <2>1 DEF SemaphoreInv
<1>3. CASE try # 0
  <2>1. try \in 1 .. NumTries
    BY <1>0, <1>1, <1>3, NumTriesType
  <2>2. CASE NoPair(try)
    BY <1>0, <2>2, NoPairHere DEF SemaphoreInv
  <2>3. CASE OnePair(try)
    <3>1. PICK f \in Current, s \in Current :
            Routine(f) = "readModifyWrite_first" /\ Routine(s) = "readModifyWrite_second"
      BY <1>0, <2>1, <2>3, ThePair
    <3>2. Len(Program(f)) = 3 /\ Len(Program(s)) = 3
      BY <1>0, <3>1, PairSteps DEF Current
    <3>3. th[f].next > 3 /\ th[s].next > 3 /\ th[s].next \in Nat
      BY <1>0, <3>1, <3>2 DEF GoneInv, AllEnded, Current, TypeOK
    <3> QED BY <3>1, <3>3 DEF SemaphoreInv, Posted, Waited
  <2> QED BY <1>0, <2>1, <2>2, <2>3, PairOrNot
<1> QED BY <1>2, <1>3

LEMMA SemaphoreNext ==
  ASSUME ProgressInv, SemaphoreInv, Next
  PROVE  SemaphoreInv'
<1>0. TypeOK /\ program \in Programs /\ try \in Nat /\ NumTries \in Nat /\ program' = program
  BY NumTriesType, ProgramStays DEF ProgressInv, LeakInv, TypeOK
<1>1. SUFFICES ASSUME NoFaults', TableOrdered, SecondToCome' PROVE SemaphoreInv'
  BY <1>0, SameOrder DEF SemaphoreInv
<1>2. NoFaults /\ NumTries' = NumTries /\ \A n : Seconds(n)' = Seconds(n)
  BY <1>0, <1>1, FaultsStay, SameProgram, SameOrder
<1>3. CASE NextTry
  <2>1. AllEnded /\ try' = try + 1 /\ x_to_y' = x_to_y
    BY <1>1, <1>3, FreshTry
  <2>2. PICK n \in 1 .. NumTries : try + 1 <= n /\ Seconds(n) # {}
    BY <1>1, <1>2, <2>1 DEF SecondToCome
  <2>3. try <= n /\ try < NumTries
    BY <1>0, <2>2
  <2>4. x_to_y = 0
    BY <1>1, <1>2, <2>1, <2>2, <2>3, SemaphoreRests DEF SecondToCome
  <2>5. Handles' = Handles
    BY <1>0, SameProgram
  <2>6. \A h \in Current' : th'[h].next = 1
    BY <1>1, <1>3, <2>1, <2>3, <2>5, FreshTry DEF Current
  <2> QED BY <2>1, <2>4, <2>6 DEF SemaphoreInv, Posted, Waited
<1>4. CASE Timeout
  BY <1>1, <1>4 DEF Timeout, NoFaults
<1>5. ASSUME NEW h \in Handles, Moves(h) PROVE SemaphoreInv'
  <2>1. try' = try
    BY <1>0, <1>5, SameTry
  <2>2. SecondToCome
    BY <1>1, <1>2, <2>1 DEF SecondToCome
  <2> QED BY <1>1, <1>2, <1>5, <2>2, SemaphoreStep
<1> QED BY <1>3, <1>4, <1>5 DEF Next, Moves

\* The second is past its wait only when the first has posted.
LEMMA PostedFirst ==
  ASSUME ProgressInv, SemaphoreInv, NoFaults, TableOrdered, SecondToCome,
         NEW h \in Current, NEW g \in Current,
         Routine(h) = "readModifyWrite_first", Routine(g) = "readModifyWrite_second", Waited(g)
  PROVE  Posted(h)
<1>1. x_to_y = (IF Posted(h) THEN 1 ELSE 0) - 1
  BY DEF SemaphoreInv
<1>2. x_to_y \in Nat
  BY DEF ProgressInv, LeakInv, TypeOK
<1> QED BY <1>1, <1>2

\* In a set of nothing but the pair, an access meets no trap of the other.
LEMMA PairMeetsNoTrap ==
  ASSUME ProgressInv, SemaphoreInv, RunningTry, TableOrdered, OnlyThePair(try),
         NEW h \in Handles, BeginCall(h)
  PROVE  find_trap_violations(h[2], OpOf(This(h))) = {}
<1>0. /\ TypeOK /\ program \in Programs /\ NoFaults /\ CallInv /\ TrapsInv /\ cancelled = {}
      /\ try \in 1 .. NumTries
  BY DEF ProgressInv, LeakInv, TypeOK, RunningTry, InTimeInv, NoFaults
<1>1. \A g \in Handles : At(g, "routine") \/ At(g, "call") => g \in Current
  BY <1>0, LiveIsCurrent DEF ProgressInv, NoFaults, Current
<1>2. \A g \in Current : Routine(g) \in {"readModifyWrite_first", "readModifyWrite_second"}
  <2> SUFFICES ASSUME NEW g \in Current
               PROVE  Routine(g) \in {"readModifyWrite_first", "readModifyWrite_second"}
    OBVIOUS
  <2>1. g[2] \in DOMAIN SetOf(try) /\ Routine(g) = SetOf(try)[g[2]]
    BY <1>0, HandleParts DEF Current, Routine
  <2> QED BY <2>1 DEF OnlyThePair
<1>3. Seconds(try) # {}
  <2>1. "readModifyWrite_second" \in { SetOf(try)[i] : i \in DOMAIN SetOf(try) }
    BY DEF OnlyThePair
  <2> QED BY <2>1 DEF Seconds
<1>4. SecondToCome /\ OnePair(try)
  <2>1. SecondToCome
    BY <1>0, <1>3, NumTriesType DEF SecondToCome
  <2> QED BY <1>0, <1>3, <2>1, PairOrNot DEF NoPair
<1>5. At(h, "routine") /\ th[h].next \in 1 .. Len(Program(h)) /\ This(h).do \in {"read", "write"}
      /\ This(h) = Program(h)[th[h].next]
  BY AccessStep DEF Accesses
<1>6. ASSUME NEW s \in Slots PROVE traps[s].thread \in {NoThread, h[2]}
  <2> SUFFICES ASSUME traps[s].thread # NoThread, traps[s].thread # h[2] PROVE FALSE
    OBVIOUS
  <2>1. PICK g \in Handles : g[2] = traps[s].thread /\ At(g, "call")
    BY <1>0 DEF TrapsInv, IsFree
  <2>2. g \in Current /\ h \in Current /\ g # h
    BY <1>1, <1>5, <2>1
  <2>3. th[g].next <= Len(Program(g)) /\ This(g).do \in {"read", "write"} /\ th[g].next \in Nat \ {0}
    BY <1>0, <2>1 DEF CallInv, TypeOK
  <2>4. \A q \in {g, h} :
          /\ Routine(q) = "readModifyWrite_first" => ~ Posted(q)
          /\ Routine(q) = "readModifyWrite_second" => Waited(q)
    <3> SUFFICES ASSUME NEW q \in {g, h}
                 PROVE  /\ Routine(q) = "readModifyWrite_first" => ~ Posted(q)
                        /\ Routine(q) = "readModifyWrite_second" => Waited(q)
      OBVIOUS
    <3>1. /\ q \in Handles /\ th[q].next \in Nat \ {0} /\ th[q].next <= Len(Program(q))
          /\ Program(q)[th[q].next].do \in {"read", "write"}
      BY <1>0, <1>5, <2>3 DEF This, TypeOK
    <3>2. Routine(q) = "readModifyWrite_first" => ~ Posted(q)
      <4>1. Routine(q) = "readModifyWrite_first" => Len(Program(q)) = 3
        BY <1>0, <3>1, PairSteps
      <4>2. ASSUME Len(Program(q)) = 3 PROVE ~ (th[q].next > 3)
        <5>1. th[q].next \in Nat /\ th[q].next <= 3
          BY <3>1, <4>2
        <5> QED BY <5>1
      <4> QED BY <4>1, <4>2 DEF Posted
    <3>3. Routine(q) = "readModifyWrite_second" => Waited(q)
      <4>1. Routine(q) = "readModifyWrite_second" => th[q].next # 1
        BY <1>0, <3>1, PairSteps
      <4> QED BY <3>1, <4>1 DEF Waited
    <3> QED BY <3>2, <3>3
  <2>5. CASE Routine(h) = "readModifyWrite_first" /\ Routine(g) = "readModifyWrite_second"
    BY <1>0, <1>4, <2>2, <2>4, <2>5, PostedFirst
  <2>6. CASE Routine(g) = "readModifyWrite_first" /\ Routine(h) = "readModifyWrite_second"
    BY <1>0, <1>4, <2>2, <2>4, <2>6, PostedFirst
  <2>7. CASE Routine(g) = Routine(h)
    BY <1>0, <1>2, <1>4, <2>2, <2>7, ThePair
  <2> QED BY <1>2, <2>2, <2>5, <2>6, <2>7
<1> QED BY <1>6 DEF find_trap_violations, Races

LEMMA SameSetOfTries ==
  ASSUME NEW C \in Nat \ {0}, NEW n \in Nat, n % C # 0
  PROVE  n \div C = (n - 1) \div C
<1> DEFINE q == n \div C
           r == n % C
<1>1. q \in Nat /\ r \in 1 .. C - 1 /\ n = C * q + r
  OBVIOUS
<1>2. n - 1 = C * q + (r - 1) /\ r - 1 \in 0 .. C - 1
  BY <1>1
<1> HIDE DEF q, r
<1>3. (n - 1) \div C = q
  BY <1>1, <1>2
<1> QED BY <1>3 DEF q

LEMMA UnreportedNext ==
  ASSUME OrderedInv, Next
  PROVE  UnreportedInv'
<1>0. /\ TypeOK /\ program \in Programs /\ try \in Nat /\ NumTries \in Nat /\ program' = program
      /\ ProgressInv
  BY NumTriesType, ProgramStays DEF OrderedInv, ProgressInv, LeakInv, TypeOK
<1>1. NumTries' = NumTries /\ \A n : OnlyThePair(n)' = OnlyThePair(n)
  BY <1>0, SameProgram, SameOrder
<1>2. SUFFICES ASSUME RunningTry', TableOrdered, OnlyThePair(try)' PROVE logged' = {}
  BY <1>0, SameOrder DEF UnreportedInv
<1>3. NoFaults
  BY <1>0, <1>2, FaultsStay DEF RunningTry
<1>4. CASE NextTry
  <2> DEFINE C == program.CYCLE_COUNT
  <2>1. try' = try + 1 /\ try < NumTries
    BY <1>0, <1>1, <1>2, <1>4, FreshTry DEF RunningTry
  <2>2. logged' = IF try % C = 0 THEN {} ELSE logged
    BY <1>0, <1>4, <2>1 DEF NextTry
  <2>3. CASE try % C = 0
    BY <2>2, <2>3
  <2>4. CASE try % C # 0
    <3>1. C \in Nat \ {0}
      BY <1>0, WorkloadsAssumption
    <3>2. try # 0
      BY <2>4, <3>1
    <3>3. try \div C = (try - 1) \div C
      BY <1>0, <2>4, <3>1, SameSetOfTries
    <3>4. SetOf(try)' = SetOf(try)
      <4>1. try' - 1 = try
        BY <1>0, <2>1
      <4> QED BY <1>0, <3>3, <4>1 DEF SetOf
    <3>5. OnlyThePair(try)
      BY <1>2, <3>4 DEF OnlyThePair
    <3>6. RunningTry
      BY <1>0, <1>3, <2>1, <3>2 DEF RunningTry
    <3> QED BY <1>2, <2>2, <3>5, <3>6 DEF OrderedInv, UnreportedInv
  <2> QED BY <2>3, <2>4
<1>5. CASE Timeout
  BY <1>2, <1>5 DEF Timeout, RunningTry, NoFaults
<1>6. ASSUME NEW h \in Handles, Moves(h) PROVE logged' = {}
  <2>1. RunningTry /\ try' = try
    BY <1>0, <1>2, <1>6, SameTry
  <2>2. OnlyThePair(try)
    <3>1. SetOf(try)' = SetOf(try)
      BY <1>0, <2>1 DEF SetOf
    <3> QED BY <1>2, <3>1 DEF OnlyThePair
  <2>3. logged = {}
    BY <1>2, <2>1, <2>2 DEF OrderedInv, UnreportedInv
  <2>4. CASE BeginCall(h)
    <3>1. find_trap_violations(h[2], OpOf(This(h))) = {}
      BY <1>2, <2>1, <2>2, <2>4, PairMeetsNoTrap DEF OrderedInv
    <3> QED BY <2>3, <2>4, <3>1 DEF BeginCall
  <2>5. ~ DiePrinting(h) /\ ~ DieSleeping(h)
    BY <1>0, <1>3 DEF DiePrinting, DieSleeping, ProgressInv, InTimeInv, NoFaults
  <2> QED BY <1>6, <2>3, <2>4, <2>5 DEF Moves, Perform, EndCall, TakeAccessMutex,
            GiveAccessMutex, Semaphore, Finish
<1> QED BY <1>4, <1>5, <1>6 DEF Next, Moves

LEMMA OrderedInit == Init => OrderedInv
<1> SUFFICES ASSUME Init PROVE OrderedInv
  OBVIOUS
<1>1. Current = {} /\ x_to_y = 0 /\ logged = {}
  BY HandleParts DEF Init, Current
<1> QED BY <1>1, ProgressInit DEF OrderedInv, SemaphoreInv, UnreportedInv

LEMMA OrderedStep == OrderedInv /\ [Next]_vars => OrderedInv'
<1> SUFFICES ASSUME OrderedInv, [Next]_vars PROVE OrderedInv'
  OBVIOUS
<1>1. ProgressInv'
  BY ProgressStep DEF OrderedInv
<1>2. CASE Next
  BY <1>1, <1>2, SemaphoreNext, UnreportedNext DEF OrderedInv
<1>3. CASE UNCHANGED vars
  <2>1. /\ UNCHANGED <<th, x_to_y, logged, try, late, failed, program, Handles, NumTries>>
        /\ \A g : Routine(g)' = Routine(g) /\ SetOf(g)' = SetOf(g)
    BY <1>3, SameProgram DEF vars
  <2>2. /\ UNCHANGED <<Current, TableOrdered, NoFaults, RunningTry>>
        /\ \A n : Seconds(n)' = Seconds(n)
    BY <2>1, SameOrder DEF Current, NoFaults, RunningTry
  <2>3. SecondToCome' = SecondToCome
    BY <2>1, <2>2 DEF SecondToCome
  <2>4. SemaphoreInv'
    BY <2>1, <2>2, <2>3 DEF OrderedInv, SemaphoreInv, Posted, Waited
  <2>5. SetOf(try)' = SetOf(try)
    BY <2>1 DEF SetOf
  <2>6. UnreportedInv'
    BY <2>1, <2>2, <2>5 DEF OrderedInv, UnreportedInv, OnlyThePair
  <2> QED BY <1>1, <2>4, <2>6 DEF OrderedInv
<1> QED BY <1>2, <1>3

LEMMA OrderedInvariant == Spec => []OrderedInv
  BY OrderedInit, OrderedStep, PTL DEF Spec

\* In any table where no post is left over for a second, the second makes its
\* accesses after the first has made both of its own in the same try.
THEOREM SecondFollows == Spec => [](TableOrdered => SecondAfterFirst)
<1>1. OrderedInv => (TableOrdered => SecondAfterFirst)
  <2> SUFFICES ASSUME OrderedInv, TableOrdered, NoFaults, NEW h \in Current, NEW g \in Current,
                      Routine(h) = "readModifyWrite_first", Routine(g) = "readModifyWrite_second",
                      th[g].next > 1
               PROVE  th[h].next > Len(readModifyWrite)
    BY DEF SecondAfterFirst, NoFaults
  <2>1. TypeOK /\ program \in Programs
    BY DEF OrderedInv, ProgressInv, LeakInv, TypeOK
  <2>2. g \in Handles /\ g[1] = try
    BY DEF Current
  <2>3. g[2] \in Seconds(try) /\ try \in 1 .. NumTries
    BY <2>1, <2>2, HandleParts DEF Seconds, Routine
  <2>4. SecondToCome
    BY <2>1, <2>3, NumTriesType DEF SecondToCome
  <2>5. Posted(h)
    BY <2>4, PostedFirst DEF OrderedInv, Waited
  <2>6. th[h].next \in Nat
    BY <2>1 DEF TypeOK, Current
  <2> QED BY <2>5, <2>6, ReadModifyWriteSteps DEF Posted
<1> QED BY <1>1, OrderedInvariant, PTL

\* In such a table what is ordered is never reported: neither threads of _safe
\* routines, whatever is cancelled, nor the first and the second of a set.
THEOREM OrderedUnreported == Spec => [](TableOrdered => OrderedNeverReported)
<1>1. OrderedInv /\ ExclusiveInv => (TableOrdered => OrderedNeverReported)
  BY DEF OrderedInv, ExclusiveInv, SafeInv, UnreportedInv, RunningTry, NoFaults,
         OnlyThePair, OrderedNeverReported
<1> QED BY <1>1, OrderedInvariant, ExclusiveInvariant, PTL

=============================================================================
