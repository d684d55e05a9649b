--------------------------- MODULE ShmRacerProofs ---------------------------
(***************************************************************************)
(* Theorems about ShmRacer, for every table of thread sets and every       *)
(* number of tries: main never over-counts its threads, counts them        *)
(* exactly until a wait times out, and resets shmlib undisturbed until     *)
(* then.                                                                   *)
(***************************************************************************)
EXTENDS ShmRacer, FiniteSetTheorems, SequenceTheorems, TLAPS

-----------------------------------------------------------------------------
(* Type correctness. *)

\* A thread is created in a slot that exists and has not been used in this try.
SpawnInv ==
  /\ at = "create" => thd_idx \in ThdIdx /\ thd_idx <= thd_set.threads
  /\ at \in {"spawn", "create"} =>
       \A i \in ThdIdx : i >= thd_idx => thread[Handle(i)] = "unborn"

\* The tries main has not come to yet: the current one until its spawn, and all
\* that follow.
Ahead(h) ==
  \/ h[1] > thd_set_idx
  \/ h[1] = thd_set_idx /\ h[2] > try_idx
  \/ h[1] = thd_set_idx /\ h[2] = try_idx /\ at \in {"set", "reset"}

AheadInv == \A h \in Handles : Ahead(h) /\ at # "exit" => thread[h] = "unborn"

TypeInv == TypeOK /\ SpawnInv /\ AheadInv

LEMMA SetFacts ==
  ASSUME TypeOK, at \notin {"set", "exit"}
  PROVE  /\ thd_set.threads \in 0 .. MAX_SUPPORTED_THREADS
         /\ thd_set.timeout \in Nat \ {0}
         /\ \A i \in ThdIdx : Handle(i) \in Handles
         /\ <<thd_set_idx, try_idx>> \in Sets \X Tries
<1>1. thd_set_idx \in Sets /\ try_idx \in Tries
  BY DEF TypeOK
<1>2. ThreadSets[thd_set_idx] \in
        [threads: 0 .. MAX_SUPPORTED_THREADS, timeout: Nat \ {0}]
  BY <1>1, ShmRacerAssumption, ElementOfSeq DEF Sets
<1> QED BY <1>1, <1>2 DEF thd_set, Handle, Handles

LEMMA LenNat == Len(ThreadSets) \in Nat
BY ShmRacerAssumption, LenProperties

\* The end of a try moves main forward and touches no thread.
LEMMA EndTryStep ==
  ASSUME TypeInv, at \notin {"set", "exit"}, NEW outcome \in Reports,
         EndTry(outcome), UNCHANGED <<thd_idx, runtime_counter, threadId>>,
         running_threads' \in Int, thread' = thread
  PROVE  TypeInv'
<1>0. /\ thd_set_idx \in Sets /\ try_idx \in Tries /\ Len(ThreadSets) \in Nat
      /\ CYCLE_COUNT \in Nat \ {0}
  BY LenNat, ShmRacerAssumption DEF TypeInv, TypeOK
<1>1. \/ /\ try_idx' = try_idx + 1 /\ try_idx' \in Tries
         /\ at' = "reset" /\ thd_set_idx' = thd_set_idx
      \/ /\ try_idx' = 1 /\ at' = "set" /\ thd_set_idx' = thd_set_idx + 1
  BY <1>0 DEF EndTry, Tries
<1>2. /\ thd_set_idx' \in 1 .. Len(ThreadSets) + 1 /\ try_idx' \in Tries
      /\ at' \in {"reset", "set"}
      /\ at' = "reset" => thd_set_idx' \in Sets
  BY <1>0, <1>1 DEF Sets, Tries
<1>3. report' \in [Sets \X Tries -> Reports]
  BY <1>0 DEF EndTry, TypeInv, TypeOK
<1>4. \A h \in Handles : Ahead(h)' => Ahead(h)
  BY <1>0, <1>1 DEF Ahead, Handles, Sets, Tries
<1>5. TypeOK'
  BY <1>2, <1>3 DEF TypeInv, TypeOK, Places
<1> QED BY <1>2, <1>4, <1>5 DEF TypeInv, SpawnInv, AheadInv

\* main's steps through a set, up to the wait.
LEMMA SpawnStep ==
  ASSUME TypeInv, ResetSet \/ ResetTry \/ CountThread \/ CreateThread
  PROVE  TypeInv'
<1>0. TypeOK /\ SpawnInv /\ AheadInv /\ Len(ThreadSets) \in Nat
      /\ MAX_SUPPORTED_THREADS \in Nat
  BY LenNat, ShmRacerAssumption DEF TypeInv
<1>1. CASE ResetSet
  <2>1. TypeOK'
    BY <1>0, <1>1 DEF ResetSet, TypeOK, loopvars, Places
  <2>2. SpawnInv' /\ AheadInv'
    BY <1>0, <1>1 DEF ResetSet, SpawnInv, AheadInv, Ahead, loopvars
  <2> QED BY <2>1, <2>2 DEF TypeInv
<1>2. CASE ResetTry
  <2>1. TypeOK'
    BY <1>0, <1>2 DEF ResetTry, TypeOK, loopvars, Places
  <2>2. \A i \in ThdIdx : Handle(i) \in Handles /\ Ahead(Handle(i))
    BY <1>0, <1>2, SetFacts DEF ResetTry, Ahead, Handle
  <2>3. SpawnInv'
    BY <1>0, <1>2, <2>2 DEF ResetTry, SpawnInv, AheadInv, Handle, loopvars
  <2>4. AheadInv'
    BY <1>0, <1>2 DEF ResetTry, AheadInv, Ahead, loopvars
  <2> QED BY <2>1, <2>3, <2>4 DEF TypeInv
<1>3. CASE CountThread
  <2>0. thd_set.threads \in 0 .. MAX_SUPPORTED_THREADS /\ thd_set' = thd_set
        /\ at = "spawn" /\ UNCHANGED <<thd_set_idx, try_idx, thread, report>>
    BY <1>0, <1>3, SetFacts DEF CountThread, loopvars, thd_set
  <2>1. TypeOK'
    BY <1>0, <1>3, <2>0 DEF CountThread, TypeOK, Places, ThdIdx, SlotsDone,
                            Xcrement_thread_count
  <2>2. SpawnInv'
    <3>1. \A i \in ThdIdx : Handle(i)' = Handle(i)
      BY <2>0 DEF Handle
    <3>2. \A i \in ThdIdx : i >= thd_idx => thread'[Handle(i)] = "unborn"
      BY <1>0, <2>0 DEF SpawnInv
    <3>3. thd_idx \in 1 .. MAX_SUPPORTED_THREADS + 1
          /\ (thd_idx <= thd_set.threads => thd_idx \in ThdIdx)
      BY <1>0, <2>0 DEF TypeOK, ThdIdx
    <3>4. /\ at' = "create" => thd_idx' = thd_idx /\ thd_idx <= thd_set.threads
          /\ at' \in {"spawn", "create"} => thd_idx' \in {thd_idx, thd_idx + 1}
      BY <1>3 DEF CountThread
    <3> HIDE DEF Handle
    <3> QED BY <2>0, <3>1, <3>2, <3>3, <3>4 DEF SpawnInv, ThdIdx
  <2>3. AheadInv'
    BY <1>0, <1>3, <2>0 DEF CountThread, AheadInv, Ahead
  <2> QED BY <2>1, <2>2, <2>3 DEF TypeInv
<1>4. CASE CreateThread
  <2>0. /\ at = "create" /\ thd_idx \in ThdIdx /\ Handle(thd_idx) \in Handles
        /\ UNCHANGED <<thd_set_idx, try_idx, report, runtime_counter>>
        /\ at' = "spawn" /\ thd_idx' = thd_idx + 1
    BY <1>0, <1>4, SetFacts DEF CreateThread, SpawnInv, loopvars
  <2>1. \E l \in Lives : thread' = [thread EXCEPT ![Handle(thd_idx)] = l]
    BY <1>4 DEF CreateThread, Lives
  <2>2. threadId' \in [ThdIdx -> Handles \cup {NoHandle}]
    BY <1>0, <1>4, <2>0 DEF CreateThread, TypeOK
  <2>3. running_threads' \in Int
    BY <1>0, <1>4 DEF CreateThread, TypeOK, Xcrement_thread_count
  <2>4. TypeOK'
    BY <1>0, <2>0, <2>1, <2>2, <2>3 DEF TypeOK, Places, ThdIdx
  <2>5. SpawnInv'
    <3>1. \A i \in ThdIdx : i > thd_idx => Handle(i) # Handle(thd_idx)
      BY <2>0 DEF Handle, ThdIdx
    <3>2. \A i \in ThdIdx : i > thd_idx => thread'[Handle(i)] = thread[Handle(i)]
      BY <1>0, <2>0, <2>1, <3>1, SetFacts DEF TypeOK
    <3> QED BY <1>0, <2>0, <3>2 DEF SpawnInv, ThdIdx, Handle
  <2>6. AheadInv'
    <3>1. \A h \in Handles : Ahead(h)' => Ahead(h) /\ h # Handle(thd_idx)
      BY <1>0, <2>0 DEF Ahead, Handle, TypeOK, Tries
    <3> QED BY <1>0, <2>0, <2>1, <3>1 DEF AheadInv, TypeOK
  <2> QED BY <2>4, <2>5, <2>6 DEF TypeInv
<1> QED BY <1>1, <1>2, <1>3, <1>4

\* The wait and the cancellation.
LEMMA WaitStep ==
  ASSUME TypeInv, Wait \/ Sleep \/ CancelThread
  PROVE  TypeInv'
<1>0. TypeOK /\ SpawnInv /\ AheadInv /\ MAX_SUPPORTED_THREADS \in Nat
  BY ShmRacerAssumption DEF TypeInv
<1>1. CASE Wait
  <2>1. CASE StillRunning
    <3>1. at' = "sleep" /\ UNCHANGED <<thd_set_idx, try_idx, thread>>
      BY <1>1, <2>1 DEF Wait, loopvars
    <3>2. TypeOK'
      BY <1>0, <1>1, <2>1 DEF Wait, TypeOK, Places, loopvars
    <3> QED BY <1>0, <1>1, <3>1, <3>2 DEF TypeInv, SpawnInv, AheadInv, Ahead, Wait
  <2>2. CASE ~ StillRunning
    <3>1. /\ EndTry("SETCOMPLETE") /\ at = "wait" /\ running_threads' \in Int
          /\ thread' = thread /\ UNCHANGED <<thd_idx, runtime_counter, threadId>>
      BY <1>0, <1>1, <2>2 DEF Wait, TypeOK
    <3> QED BY <3>1, EndTryStep DEF Reports
  <2> QED BY <2>1, <2>2
<1>2. CASE Sleep
  <2>1. TypeOK'
    BY <1>0, <1>2 DEF Sleep, Seconds, TypeOK, Places, loopvars
  <2> QED BY <1>0, <1>2, <2>1 DEF TypeInv, SpawnInv, AheadInv, Ahead, Sleep,
                                  loopvars
<1>3. CASE CancelThread
  <2>0. at = "cancel" /\ UNCHANGED <<runtime_counter, threadId>>
    BY <1>3 DEF CancelThread
  <2>1. CASE CancelDone /\ EndTry("SETCOMPLETE_TO")
             /\ UNCHANGED <<thd_idx, thread, running_threads>>
    <3>1. running_threads' \in Int
      BY <1>0, <2>1 DEF TypeOK
    <3> QED BY <2>0, <2>1, <3>1, EndTryStep DEF Reports
  <2>2. CASE /\ ~ CancelDone
             /\ \/ /\ threadId[thd_idx] # NoHandle
                   /\ thread' = [thread EXCEPT ![threadId[thd_idx]] =
                                   IF @ = "routine" THEN "cancelled" ELSE @]
                   /\ Xcrement_thread_count(FALSE)
                \/ UNCHANGED <<thread, running_threads>>
             /\ thd_idx' = thd_idx + 1
             /\ UNCHANGED <<at, loopvars, report>>
    <3>1. thd_idx \in ThdIdx /\ thd_idx' \in 1 .. MAX_SUPPORTED_THREADS + 1
      BY <1>0, <2>2 DEF CancelDone, SlotsDone, TypeOK, ThdIdx
    <3>2. running_threads' \in Int
      BY <1>0, <2>2 DEF TypeOK, Xcrement_thread_count
    <3>3. thread' \in [Handles -> Lives]
          /\ \A h \in Handles : thread[h] = "unborn" => thread'[h] = "unborn"
      BY <1>0, <2>2, <3>1 DEF TypeOK, Lives
    <3>4. TypeOK'
      BY <1>0, <2>0, <2>2, <3>1, <3>2, <3>3 DEF TypeOK, loopvars
    <3> QED BY <1>0, <2>0, <2>2, <3>3, <3>4 DEF TypeInv, SpawnInv, AheadInv,
               Ahead, loopvars
  <2>3. CASE /\ report' = [report EXCEPT ![<<thd_set_idx, try_idx>>] = "FAILURE_WAIT"]
             /\ at' = "exit"
             /\ UNCHANGED <<loopvars, thd_idx, thread, running_threads>>
    <3>1. TypeOK'
      BY <1>0, <2>0, <2>3 DEF TypeOK, Places, Reports, loopvars
    <3> QED BY <2>3, <3>1 DEF TypeInv, SpawnInv, AheadInv
  <2> QED BY <1>3, <2>1, <2>2, <2>3 DEF CancelThread
<1> QED BY <1>1, <1>2, <1>3

LEMMA ThreadStep ==
  ASSUME TypeInv, NEW h \in Handles, Return(h) \/ Finish(h) \/ Die(h)
  PROVE  TypeInv'
<1>1. TypeOK'
  BY DEF TypeInv, TypeOK, Return, Finish, Die, mainvars, loopvars, Lives,
         Xcrement_thread_count
<1>2. \A g \in Handles : thread[g] = "unborn" => thread'[g] = "unborn"
  BY DEF TypeInv, TypeOK, Return, Finish, Die
<1>3. UNCHANGED <<at, thd_set_idx, try_idx, thd_idx>>
  BY DEF Return, Finish, Die, mainvars, loopvars
<1>4. \A i \in ThdIdx : Handle(i)' = Handle(i)
  BY <1>3 DEF Handle
<1>5. AheadInv'
  BY <1>2, <1>3 DEF TypeInv, AheadInv, Ahead
<1>6. SpawnInv'
  BY <1>2, <1>3, <1>4, SetFacts DEF TypeInv, SpawnInv, thd_set
<1> QED BY <1>1, <1>5, <1>6 DEF TypeInv

LEMMA TypeInvariant == Spec => []TypeInv
<1>1. Init => TypeInv
  <2> SUFFICES ASSUME Init PROVE TypeInv
    OBVIOUS
  <2>1. TypeOK
    BY LenNat, ShmRacerAssumption DEF Init, TypeOK, Places, Sets, Tries, ThdIdx,
       Lives, Reports
  <2> QED BY <2>1 DEF TypeInv, SpawnInv, AheadInv, Init
<1>2. TypeInv /\ [Next]_vars => TypeInv'
  <2>1. TypeInv /\ UNCHANGED vars => TypeInv'
    BY DEF vars, TypeInv, TypeOK, SpawnInv, AheadInv, Ahead, Handle, thd_set
  <2> QED BY <2>1, SpawnStep, WaitStep, ThreadStep DEF Next, Main
<1> QED BY <1>1, <1>2, PTL DEF Spec

\* The loop counters, handles and states of main and of its threads keep to
\* their types: no loop runs past the slots of a set.
THEOREM TypeCorrect == Spec => []TypeOK
<1>1. TypeInv => TypeOK
  BY DEF TypeInv
<1> QED BY <1>1, TypeInvariant, PTL

-----------------------------------------------------------------------------
(* Main reports each try once. *)

Unreported(r) == r[1] > thd_set_idx \/ (r[1] = thd_set_idx /\ r[2] >= try_idx)

ReportInv ==
  at # "exit" => \A r \in Sets \X Tries : Unreported(r) => report[r] = "none"

\* Only the end of a try and a failed cancellation report, on the current try.
LEMMA ReportSteps ==
  ASSUME TypeInv, [Next]_vars
  PROVE  \/ UNCHANGED <<report, loopvars>> /\ (at = "exit" => at' = "exit")
         \/ /\ at = "wait" /\ EndTry("SETCOMPLETE")
            /\ UNCHANGED <<running_threads, thread>>
         \/ /\ at = "cancel" /\ EndTry("SETCOMPLETE_TO")
            /\ CancelDone /\ UNCHANGED <<running_threads, thread>>
         \/ /\ at = "cancel" /\ at' = "exit"
            /\ report' = [report EXCEPT ![<<thd_set_idx, try_idx>>] = "FAILURE_WAIT"]
            /\ UNCHANGED <<loopvars, running_threads, thread>>
<1>1. CASE ResetSet \/ ResetTry \/ CountThread \/ CreateThread \/ Sleep
  BY <1>1 DEF ResetSet, ResetTry, CountThread, CreateThread, Sleep
<1>2. CASE Wait
  BY <1>2 DEF Wait
<1>3. CASE CancelThread
  BY <1>3 DEF CancelThread
<1>4. ASSUME NEW h \in Handles, Return(h) \/ Finish(h) \/ Die(h)
      PROVE  UNCHANGED <<report, loopvars>> /\ at' = at
  BY <1>4 DEF Return, Finish, Die, mainvars
<1>5. CASE UNCHANGED vars
  BY <1>5 DEF vars, loopvars
<1> QED BY <1>1, <1>2, <1>3, <1>4, <1>5 DEF Next, Main

LEMMA ReportInvariant == Spec => []ReportInv
<1>1. Init => ReportInv
  BY DEF Init, ReportInv
<1>2. TypeInv /\ ReportInv /\ [Next]_vars => ReportInv'
  <2> SUFFICES ASSUME TypeInv, ReportInv, [Next]_vars PROVE ReportInv'
    OBVIOUS
  <2>0. /\ thd_set_idx \in 1 .. Len(ThreadSets) + 1 /\ try_idx \in Tries
        /\ Len(ThreadSets) \in Nat /\ CYCLE_COUNT \in Nat \ {0}
        /\ report \in [Sets \X Tries -> Reports]
    BY LenNat, ShmRacerAssumption DEF TypeInv, TypeOK
  <2>1. CASE UNCHANGED <<report, loopvars>> /\ (at = "exit" => at' = "exit")
    BY <2>1 DEF ReportInv, Unreported, loopvars
  <2>2. ASSUME NEW outcome, EndTry(outcome), at # "exit"
        PROVE  ReportInv'
    <3>1. \/ try_idx' = try_idx + 1 /\ thd_set_idx' = thd_set_idx
          \/ try_idx' = 1 /\ thd_set_idx' = thd_set_idx + 1
      BY <2>2 DEF EndTry
    <3>2. \A r \in Sets \X Tries :
            Unreported(r)' => Unreported(r) /\ r # <<thd_set_idx, try_idx>>
      BY <2>0, <3>1 DEF Unreported, Sets, Tries
    <3>3. \A r \in Sets \X Tries :
            r # <<thd_set_idx, try_idx>> => report'[r] = report[r]
      BY <2>0, <2>2 DEF EndTry
    <3> QED BY <2>2, <3>2, <3>3 DEF ReportInv
  <2>3. CASE at' = "exit"
    BY <2>3 DEF ReportInv
  <2> QED BY <2>1, <2>2, <2>3, ReportSteps
<1> QED BY <1>1, <1>2, TypeInvariant, PTL DEF Spec

\* A timeout is never forgotten.
LEMMA NoTimeoutBackwards ==
  ASSUME TypeInv, ReportInv, [Next]_vars, NoTimeout'
  PROVE  NoTimeout
<1>0. report \in [Sets \X Tries -> Reports]
  BY DEF TypeInv, TypeOK
<1>1. at = "cancel" => <<thd_set_idx, try_idx>> \in Sets \X Tries
  BY SetFacts DEF TypeInv
<1>2. CASE at = "cancel" /\ EndTry("SETCOMPLETE_TO")
  BY <1>0, <1>1, <1>2 DEF EndTry, NoTimeout
<1>3. CASE /\ at = "cancel" /\ at' = "exit"
           /\ report' = [report EXCEPT ![<<thd_set_idx, try_idx>>] = "FAILURE_WAIT"]
  BY <1>0, <1>1, <1>3 DEF NoTimeout
<1>4. CASE at = "wait" /\ EndTry("SETCOMPLETE")
  <2>1. report[<<thd_set_idx, try_idx>>] = "none"
    <3>1. <<thd_set_idx, try_idx>> \in Sets \X Tries
      BY <1>4, SetFacts DEF TypeInv
    <3>2. Unreported(<<thd_set_idx, try_idx>>)
      BY DEF Unreported, TypeInv, TypeOK, Tries
    <3> QED BY <1>4, <3>1, <3>2 DEF ReportInv
  <2>2. \A r \in Sets \X Tries : report[r] # "none" => report'[r] = report[r]
    BY <1>0, <1>4, <2>1 DEF EndTry
  <2> QED BY <1>4, <2>2 DEF NoTimeout
<1>5. CASE UNCHANGED report /\ at # "cancel"
  BY <1>5 DEF NoTimeout
<1>6. CASE UNCHANGED report /\ at = "cancel"
  <2>1. at' = "cancel"
    BY <1>6, <1>1, <1>0 DEF Next, Main, vars, ResetSet, ResetTry, CountThread,
       CreateThread, Wait, Sleep, CancelThread, Return, Finish, Die, mainvars,
       EndTry, NoTimeout
  <2> QED BY <2>1 DEF NoTimeout
<1> QED BY <1>2, <1>3, <1>4, <1>5, <1>6, ReportSteps

-----------------------------------------------------------------------------
(* The count. *)

LEMMA HandlesFinite == IsFiniteSet(Handles)
<1> DEFINE P == (Sets \X Tries) \X ThdIdx
           f == [p \in P |-> <<p[1][1], p[1][2], p[2]>>]
<1>1. IsFiniteSet(Sets) /\ IsFiniteSet(Tries) /\ IsFiniteSet(ThdIdx)
  BY LenNat, ShmRacerAssumption, FS_Interval DEF Sets, Tries, ThdIdx
<1>2. IsFiniteSet(P)
  <2>1. IsFiniteSet(Sets \X Tries)
    BY <1>1, FS_Product
  <2> QED BY <1>1, <2>1, FS_Product
<1>3. f \in [P -> Handles]
  BY DEF Handles
<1>4. \A h \in Handles : \E p \in P : f[p] = h
  <2>1. \A h \in Handles : <<<<h[1], h[2]>>, h[3]>> \in P
                           /\ f[<<<<h[1], h[2]>>, h[3]>>] = h
    BY DEF Handles
  <2> QED BY <2>1
<1>5. f \in Surjection(P, Handles)
  BY <1>3, <1>4, Zenon DEF Surjection
<1> QED BY <1>2, <1>5, FS_Surjection

CountedLives == {"routine", "returned"}
LiveLives == {"routine", "cancelled", "returned"}

\* What the size of { h : thread[h] \in C } does when a thread moves.
Change(C, before, after, m, n) ==
  /\ before \in C /\ after \in C => n = m
  /\ before \notin C /\ after \in C => n = m + 1
  /\ before \in C /\ after \notin C => n = m - 1
  /\ before \notin C /\ after \notin C => n = m

\* When one thread moves from one state of its life to another, the two counts
\* change by what the two states are worth.
LEMMA Moved ==
  ASSUME TypeOK, NEW h \in Handles, NEW l, thread' = [thread EXCEPT ![h] = l]
  PROVE  /\ Change(CountedLives, thread[h], l, Cardinality(Counted), Cardinality(Counted)')
         /\ Change(LiveLives, thread[h], l, Cardinality(Live), Cardinality(Live)')
<1>0. thread \in [Handles -> Lives]
  BY DEF TypeOK
<1>1. ASSUME NEW C
      PROVE  Change(C, thread[h], l,
                    Cardinality({ g \in Handles : thread[g] \in C }),
                    Cardinality({ g \in Handles : thread'[g] \in C }))
  <2> DEFINE S == { g \in Handles : thread[g] \in C }
             T == { g \in Handles : thread'[g] \in C }
  <2>1. IsFiniteSet(S) /\ Cardinality(S) \in Nat
    BY HandlesFinite, FS_Subset, FS_CardinalityType
  <2>2. T = IF l \in C THEN S \cup {h} ELSE S \ {h}
    BY <1>0
  <2>3. h \in S <=> thread[h] \in C
    OBVIOUS
  <2> HIDE DEF S, T
  <2>4. Cardinality(S \cup {h}) =
          IF h \in S THEN Cardinality(S) ELSE Cardinality(S) + 1
    BY <2>1, FS_AddElement
  <2>5. Cardinality(S \ {h}) =
          IF h \in S THEN Cardinality(S) - 1 ELSE Cardinality(S)
    BY <2>1, FS_RemoveElement
  <2>6. Change(C, thread[h], l, Cardinality(S), Cardinality(T))
    BY <2>1, <2>2, <2>3, <2>4, <2>5 DEF Change
  <2> QED BY <2>6 DEF S, T
<1> QED BY <1>1 DEF Counted, Live, CountedLives, LiveLives

LEMMA GoneIsUncounted ==
  /\ "gone" \notin CountedLives /\ "gone" \notin LiveLives
  /\ "unborn" \notin CountedLives /\ "unborn" \notin LiveLives
  /\ "cancelled" \notin CountedLives
  /\ CountedLives \subseteq LiveLives
BY DEF CountedLives, LiveLives

LEMMA CountTypes ==
  Cardinality(Counted) \in Nat /\ Cardinality(Live) \in Nat
  /\ (Cardinality(Live) = 0 <=> Live = {})
<1>1. IsFiniteSet(Counted) /\ IsFiniteSet(Live)
  BY HandlesFinite, FS_Subset DEF Counted, Live
<1> QED BY <1>1, FS_CardinalityType, FS_EmptySet

\* Until a timeout the two counts are one, because nothing has been cancelled.
CountInv ==
  /\ NeverOverCounted
  /\ ExactUntilTimeout
  /\ NoTimeout => \A h \in Handles : thread[h] # "cancelled"

\* A step that moves no thread, no count and not the pending one.
LEMMA CountUnmoved ==
  ASSUME CountInv, NoTimeout' => NoTimeout,
         UNCHANGED <<thread, running_threads>>, Pending' = Pending
  PROVE  CountInv'
BY DEF CountInv, NeverOverCounted, ExactUntilTimeout, Counted, Live

LEMMA CountStep ==
  ASSUME TypeInv, CountInv, Next, NoTimeout' => NoTimeout
  PROVE  CountInv'
<1>0. /\ TypeOK /\ SpawnInv /\ running_threads \in Int
      /\ thread \in [Handles -> Lives]
      /\ Cardinality(Counted) \in Nat /\ Cardinality(Live) \in Nat
  BY CountTypes DEF TypeInv, TypeOK
<1> USE <1>0
<1>1. CASE ResetSet \/ ResetTry \/ Wait \/ Sleep
  <2>1. UNCHANGED <<thread, running_threads>> /\ at # "create" /\ at' # "create"
    BY <1>1 DEF ResetSet, ResetTry, Wait, Sleep, EndTry
  <2> QED BY <2>1, CountUnmoved DEF Pending
<1>2. CASE CountThread
  <2>1. CASE Xcrement_thread_count(TRUE) /\ at' = "create"
    <3>1. /\ at = "spawn" /\ thread' = thread
          /\ running_threads' = running_threads + 1
      BY <1>2, <2>1 DEF CountThread, Xcrement_thread_count
    <3> QED BY <2>1, <3>1 DEF CountInv, NeverOverCounted, ExactUntilTimeout,
               Counted, Live, Pending
  <2>2. CASE UNCHANGED running_threads /\ at' \in {"spawn", "wait"}
    <3>1. thread' = thread /\ at = "spawn"
      BY <1>2 DEF CountThread
    <3> QED BY <2>2, <3>1, CountUnmoved DEF Pending
  <2> QED BY <1>2, <2>1, <2>2 DEF CountThread
<1>3. CASE CreateThread
  <2> DEFINE h == Handle(thd_idx)
  <2>1. /\ h \in Handles /\ thread[h] = "unborn"
        /\ Pending = 1 /\ Pending' = 0
    BY <1>3, SetFacts DEF CreateThread, SpawnInv, ThdIdx, Pending
  <2>2. CASE thread' = [thread EXCEPT ![h] = "routine"] /\ UNCHANGED running_threads
    <3>1. Cardinality(Counted)' = Cardinality(Counted) + 1
          /\ Cardinality(Live)' = Cardinality(Live) + 1
      BY <2>1, <2>2, Moved DEF Change, CountedLives, LiveLives
    <3> HIDE DEF h
    <3> QED BY <2>1, <2>2, <3>1 DEF CountInv, NeverOverCounted, ExactUntilTimeout
  <2>3. CASE thread' = [thread EXCEPT ![h] = "gone"] /\ Xcrement_thread_count(FALSE)
    <3>0. /\ Change(CountedLives, thread[h], "gone", Cardinality(Counted), Cardinality(Counted)')
          /\ Change(LiveLives, thread[h], "gone", Cardinality(Live), Cardinality(Live)')
      BY <2>1, <2>3, Moved
    <3>1. Cardinality(Counted)' = Cardinality(Counted)
          /\ Cardinality(Live)' = Cardinality(Live)
      BY <2>1, <3>0, GoneIsUncounted DEF Change
    <3>2. running_threads' = running_threads - 1
      BY <2>3 DEF Xcrement_thread_count
    <3> HIDE DEF h
    <3> QED BY <2>1, <2>3, <3>1, <3>2 DEF CountInv, NeverOverCounted,
                                           ExactUntilTimeout
  <2> QED BY <1>3, <2>2, <2>3 DEF CreateThread
<1>4. CASE CancelThread
  <2>1. CASE UNCHANGED <<thread, running_threads>>
    <3>1. Pending' = Pending
      BY <1>4 DEF CancelThread, EndTry, Pending
    <3> QED BY <2>1, <3>1, CountUnmoved
  <2>2. CASE /\ ~ CancelDone /\ threadId[thd_idx] # NoHandle
             /\ thread' = [thread EXCEPT ![threadId[thd_idx]] =
                             IF @ = "routine" THEN "cancelled" ELSE @]
             /\ Xcrement_thread_count(FALSE)
             /\ UNCHANGED at
    <3> DEFINE h == threadId[thd_idx]
               l == IF thread[h] = "routine" THEN "cancelled" ELSE thread[h]
    <3>1. /\ h \in Handles /\ at = "cancel" /\ running_threads' = running_threads - 1
          /\ thread' = [thread EXCEPT ![h] = l]
      <4>1. thd_idx \in ThdIdx
        BY <2>2, ShmRacerAssumption DEF CancelDone, SlotsDone, TypeOK, ThdIdx
      <4> QED BY <1>4, <2>2, <4>1 DEF CancelThread, TypeOK, Xcrement_thread_count
    <3>2. l \in CountedLives => thread[h] \in CountedLives
      BY DEF CountedLives
    <3> HIDE DEF l, h
    <3>3. /\ Cardinality(Counted)' \in Int
          /\ Cardinality(Counted)' >= Cardinality(Counted) - 1
      <4>1. Change(CountedLives, thread[h], l, Cardinality(Counted), Cardinality(Counted)')
        BY <3>1, Moved
      <4> QED BY <3>2, <4>1 DEF Change
    <3> QED BY <2>2, <3>1, <3>3 DEF CountInv, NeverOverCounted,
               ExactUntilTimeout, NoTimeout, Pending
  <2> QED BY <1>4, <2>1, <2>2 DEF CancelThread
<1>5. ASSUME NEW h \in Handles, Return(h)
      PROVE  CountInv'
  <2>1. /\ thread' = [thread EXCEPT ![h] = "returned"]
        /\ thread[h] \in {"routine", "cancelled"}
        /\ UNCHANGED <<running_threads, at>>
    BY <1>5 DEF Return, mainvars
  <2>2. /\ Cardinality(Counted)' \in {Cardinality(Counted), Cardinality(Counted) + 1}
        /\ Cardinality(Live)' = Cardinality(Live)
    BY <2>1, Moved DEF Change, CountedLives, LiveLives
  <2> QED BY <2>1, <2>2 DEF CountInv, NeverOverCounted, ExactUntilTimeout, Pending
<1>6. ASSUME NEW h \in Handles, Finish(h)
      PROVE  CountInv'
  <2>1. /\ thread' = [thread EXCEPT ![h] = "gone"] /\ thread[h] = "returned"
        /\ running_threads' = running_threads - 1 /\ UNCHANGED at
    BY <1>6 DEF Finish, mainvars, Xcrement_thread_count
  <2>2. /\ Cardinality(Counted)' = Cardinality(Counted) - 1
        /\ Cardinality(Live)' = Cardinality(Live) - 1
    <3>1. /\ Change(CountedLives, "returned", "gone", Cardinality(Counted), Cardinality(Counted)')
          /\ Change(LiveLives, "returned", "gone", Cardinality(Live), Cardinality(Live)')
      BY <2>1, Moved
    <3>2. "returned" \in CountedLives /\ "returned" \in LiveLives
      BY DEF CountedLives, LiveLives
    <3> QED BY <3>1, <3>2, GoneIsUncounted DEF Change
  <2> QED BY <2>1, <2>2 DEF CountInv, NeverOverCounted, ExactUntilTimeout, Pending
<1>7. ASSUME NEW h \in Handles, Die(h)
      PROVE  CountInv'
  <2>1. /\ thread' = [thread EXCEPT ![h] = "gone"] /\ thread[h] = "cancelled"
        /\ UNCHANGED <<running_threads, at>>
    BY <1>7 DEF Die, mainvars
  <2>2. Cardinality(Counted)' = Cardinality(Counted)
    <3>1. Change(CountedLives, "cancelled", "gone", Cardinality(Counted), Cardinality(Counted)')
      BY <2>1, Moved
    <3> QED BY <3>1, GoneIsUncounted DEF Change
  <2>3. ~ NoTimeout
    BY <2>1 DEF CountInv
  <2> QED BY <2>1, <2>2, <2>3 DEF CountInv, NeverOverCounted, ExactUntilTimeout,
             Pending
<1> QED BY <1>1, <1>2, <1>3, <1>4, <1>5, <1>6, <1>7 DEF Next, Main

LEMMA CountInvariant == Spec => []CountInv
<1>1. Init => CountInv
  <2> SUFFICES ASSUME Init PROVE CountInv
    OBVIOUS
  <2>1. Live = {} /\ Pending = 0 /\ running_threads = 0
        /\ \A h \in Handles : thread[h] # "cancelled"
    BY DEF Init, Live, Pending
  <2> QED BY <2>1, CountTypes DEF CountInv, NeverOverCounted, ExactUntilTimeout
<1>2. TypeInv /\ ReportInv /\ CountInv /\ [Next]_vars => CountInv'
  <2>1. CountInv /\ UNCHANGED vars => CountInv'
    BY DEF vars, CountInv, NeverOverCounted, ExactUntilTimeout, NoTimeout,
           Counted, Live, Pending
  <2> QED BY <2>1, CountStep, NoTimeoutBackwards
<1> QED BY <1>1, <1>2, TypeInvariant, ReportInvariant, PTL DEF Spec

\* Whatever ends early, fails to start or is cancelled twice, main never waits
\* for more threads than will still report back.
THEOREM CountNeverOver == Spec => []NeverOverCounted
<1>1. CountInv => NeverOverCounted
  BY DEF CountInv
<1> QED BY <1>1, CountInvariant, PTL

\* Until a wait times out, running_threads is the number of live threads.
THEOREM CountExact == Spec => []ExactUntilTimeout
<1>1. CountInv => ExactUntilTimeout
  BY DEF CountInv
<1> QED BY <1>1, CountInvariant, PTL

-----------------------------------------------------------------------------
(* The resets. *)

IdleInv == at \in {"set", "reset"} /\ NoTimeout => Live = {}

LEMMA IdleStep ==
  ASSUME TypeInv, CountInv, IdleInv, Next, NoTimeout' => NoTimeout
  PROVE  IdleInv'
<1>1. CASE Wait
  <2>1. thread' = thread /\ UNCHANGED running_threads /\ at = "wait"
    BY <1>1 DEF Wait
  <2>2. CASE StillRunning
    BY <1>1, <2>2 DEF Wait, IdleInv
  <2>3. CASE ~ StillRunning
    <3>1. NoTimeout => Cardinality(Live) = 0
      BY <2>1, <2>3, CountTypes
         DEF StillRunning, CountInv, ExactUntilTimeout, Pending
    <3> QED BY <2>1, <3>1, CountTypes DEF IdleInv, Live
  <2> QED BY <2>2, <2>3
<1>2. ASSUME NEW h \in Handles, Return(h) \/ Finish(h) \/ Die(h)
      PROVE  IdleInv'
  <2>1. h \in Live /\ at' = at
    BY <1>2 DEF Return, Finish, Die, mainvars, Live
  <2> QED BY <2>1 DEF IdleInv
<1>3. CASE ResetSet \/ ResetTry
  BY <1>3 DEF ResetSet, ResetTry, IdleInv, NoTimeout, Live
<1>4. CASE CountThread \/ CreateThread \/ Sleep
  BY <1>4 DEF CountThread, CreateThread, Sleep, IdleInv
<1>5. CASE CancelThread
  BY <1>5 DEF CancelThread, IdleInv, NoTimeout
<1> QED BY <1>1, <1>2, <1>3, <1>4, <1>5 DEF Next, Main

\* As long as no wait has timed out, main clears the tables, the traps and the
\* log, without their lock, when there is nobody to disturb.
THEOREM ResetsAlone == Spec => ResetsAloneUntilTimeout
<1>1. Init => IdleInv
  BY DEF Init, IdleInv, Live
<1>2. TypeInv /\ ReportInv /\ CountInv /\ IdleInv /\ [Next]_vars => IdleInv'
  <2>1. IdleInv /\ UNCHANGED vars => IdleInv'
    BY DEF vars, IdleInv, NoTimeout, Live
  <2> QED BY <2>1, IdleStep, NoTimeoutBackwards
<1>3. IdleInv => [(ResetSet \/ ResetTry) /\ NoTimeout => Live = {}]_vars
  BY DEF IdleInv, ResetSet, ResetTry
<1> QED
  BY <1>1, <1>2, <1>3, TypeInvariant, ReportInvariant, CountInvariant, PTL
     DEF Spec, ResetsAloneUntilTimeout

-----------------------------------------------------------------------------
(* The cancellation. *)

\* Slots of the current try that main has spawned, and that it has cancelled.
Spawned(i) ==
  /\ i <= thd_set.threads
  /\ at \in {"spawn", "create"} => i < thd_idx

SpawnedInv ==
  at \notin {"set", "reset", "exit"} =>
    \A i \in ThdIdx : Spawned(i) =>
      /\ thread[Handle(i)] # "unborn"
      /\ threadId[i] = Handle(i) \/ thread[Handle(i)] = "gone"
      /\ at = "cancel" /\ i < thd_idx => thread[Handle(i)] # "routine"

\* No step starts a thread or undoes its birth, except the creation of one.
LEMMA LivesGoOn ==
  ASSUME TypeInv, [Next]_vars, ~ CreateThread, NEW h \in Handles
  PROVE  /\ thread[h] # "unborn" => thread'[h] # "unborn"
         /\ thread[h] # "routine" => thread'[h] # "routine"
         /\ thread[h] = "gone" => thread'[h] = "gone"
<1>0. thread \in [Handles -> Lives] /\ TypeOK
  BY DEF TypeInv, TypeOK
<1>1. CASE CancelThread
  <2>1. thd_idx \in 1 .. MAX_SUPPORTED_THREADS + 1 /\ MAX_SUPPORTED_THREADS \in Nat
    BY <1>0, ShmRacerAssumption DEF TypeOK
  <2>2. ~ CancelDone /\ threadId[thd_idx] # NoHandle => threadId[thd_idx] \in Handles
    BY <1>0, <2>1 DEF TypeOK, CancelDone, SlotsDone, ThdIdx
  <2> QED BY <1>0, <1>1, <2>2 DEF CancelThread
<1>2. ASSUME NEW g \in Handles, Return(g) \/ Finish(g) \/ Die(g)
      PROVE  /\ thread[h] # "unborn" => thread'[h] # "unborn"
             /\ thread[h] # "routine" => thread'[h] # "routine"
             /\ thread[h] = "gone" => thread'[h] = "gone"
  BY <1>0, <1>2 DEF Return, Finish, Die
<1>3. CASE UNCHANGED thread
  BY <1>3
<1> QED BY <1>1, <1>2, <1>3 DEF Next, Main, vars, ResetSet, ResetTry,
           CountThread, Wait, Sleep

LEMMA SpawnedStep ==
  ASSUME TypeInv, SpawnedInv, Next
  PROVE  SpawnedInv'
<1>0. /\ TypeOK /\ SpawnInv /\ MAX_SUPPORTED_THREADS \in Nat
      /\ thd_idx \in 1 .. MAX_SUPPORTED_THREADS + 1
  BY ShmRacerAssumption DEF TypeInv, TypeOK
<1>1. CASE ResetSet \/ ResetTry
  BY <1>1 DEF ResetSet, ResetTry, SpawnedInv, Spawned, ThdIdx
<1>2. ASSUME at \notin {"set", "reset", "exit"}, ~ CreateThread,
             UNCHANGED <<loopvars, threadId>>,
             \A i \in ThdIdx : Spawned(i)' => Spawned(i),
             at' = "cancel" => (at = "cancel" /\ thd_idx' = thd_idx) \/ thd_idx' = 1
      PROVE  SpawnedInv'
  <2>1. \A i \in ThdIdx : Handle(i)' = Handle(i) /\ Handle(i) \in Handles
    BY <1>0, <1>2, SetFacts DEF Handle, loopvars
  <2> HIDE DEF Handle
  <2> QED BY <1>2, <2>1, LivesGoOn DEF SpawnedInv, ThdIdx
<1>3. CASE CountThread
  <2>1. /\ at = "spawn" /\ UNCHANGED <<loopvars, thread>> /\ ~ CreateThread
        /\ thd_set' = thd_set /\ \A i \in ThdIdx : Handle(i)' = Handle(i)
        /\ at' \in {"spawn", "create", "wait"}
    BY <1>3 DEF CountThread, CreateThread, loopvars, thd_set, Handle
  <2>2. thd_set.threads \in 0 .. MAX_SUPPORTED_THREADS
    BY <1>0, <2>1, SetFacts
  <2> DEFINE n == thd_set.threads
  <2>5. \/ at' = "create" /\ thd_idx' = thd_idx
        \/ at' = "spawn" /\ thd_idx > n /\ thd_idx' = thd_idx + 1
        \/ at' = "wait" /\ thd_idx > MAX_SUPPORTED_THREADS
    BY <1>3 DEF CountThread, SlotsDone
  <2>6. threadId' = threadId \/ threadId' = [threadId EXCEPT ![thd_idx] = NoHandle]
    BY <1>3 DEF CountThread
  <2>7. \A i \in ThdIdx : /\ Spawned(i) <=> i <= n /\ i < thd_idx
                         /\ Spawned(i)' <=> i <= n /\ (at' \in {"spawn", "create"} => i < thd_idx')
    BY <2>1 DEF Spawned
  <2> HIDE DEF n
  <2>3. \A i \in ThdIdx : Spawned(i)' => Spawned(i)
    <3>1. n \in 0 .. MAX_SUPPORTED_THREADS
      BY <2>2 DEF n
    <3> QED BY <1>0, <2>5, <2>7, <3>1 DEF ThdIdx
  <2>4. ASSUME NEW i \in ThdIdx, Spawned(i)
        PROVE  threadId'[i] = threadId[i]
    <3>1. i < thd_idx
      BY <2>1, <2>4 DEF Spawned
    <3>2. i # thd_idx
      BY <1>0, <3>1 DEF ThdIdx
    <3>3. threadId \in [ThdIdx -> Handles \cup {NoHandle}]
      BY <1>0 DEF TypeOK
    <3> QED BY <2>6, <3>2, <3>3
  <2> HIDE DEF Handle
  <2> QED BY <2>1, <2>3, <2>4 DEF SpawnedInv
<1>4. CASE CreateThread
  <2>1. /\ at = "create" /\ at' = "spawn" /\ thd_idx' = thd_idx + 1
        /\ thd_idx \in ThdIdx /\ thd_idx <= thd_set.threads
        /\ thd_set' = thd_set /\ \A i \in ThdIdx : Handle(i)' = Handle(i)
    BY <1>0, <1>4 DEF CreateThread, SpawnInv, loopvars, thd_set, Handle
  <2>2. \A i \in ThdIdx : Handle(i) \in Handles
                          /\ (i # thd_idx => Handle(i) # Handle(thd_idx))
    BY <1>0, <2>1, SetFacts DEF Handle
  <2>3. \A i \in ThdIdx : Spawned(i)' => Spawned(i) \/ i = thd_idx
    BY <2>1 DEF Spawned, ThdIdx
  <2> HIDE DEF Handle
  <2>4. \A i \in ThdIdx : i # thd_idx => /\ thread'[Handle(i)] = thread[Handle(i)]
                                         /\ threadId'[i] = threadId[i]
    BY <1>0, <1>4, <2>2 DEF CreateThread, TypeOK
  <2>5. \/ thread'[Handle(thd_idx)] = "routine" /\ threadId'[thd_idx] = Handle(thd_idx)
        \/ thread'[Handle(thd_idx)] = "gone"
    BY <1>0, <1>4, <2>1, <2>2 DEF CreateThread, TypeOK
  <2> QED BY <2>1, <2>3, <2>4, <2>5 DEF SpawnedInv
<1>5. CASE Wait \/ Sleep
  <2>1. CASE at' \in {"sleep", "wait", "cancel"} /\ UNCHANGED loopvars
    <3>1. /\ at \in {"wait", "sleep"} /\ UNCHANGED threadId /\ ~ CreateThread
          /\ at' = "cancel" => thd_idx' = 1
          /\ thd_set' = thd_set
      BY <1>5, <2>1 DEF Wait, Sleep, CreateThread, loopvars, thd_set, EndTry
    <3>2. \A i \in ThdIdx : Spawned(i)' => Spawned(i)
      BY <2>1, <3>1 DEF Spawned
    <3> QED BY <1>2, <2>1, <3>1, <3>2
  <2>2. CASE at' \in {"set", "reset"}
    BY <2>2 DEF SpawnedInv
  <2> QED BY <1>5, <2>1, <2>2 DEF Wait, Sleep, EndTry
<1>6. CASE CancelThread
  <2>1. CASE at' \in {"set", "reset", "exit"}
    BY <2>1 DEF SpawnedInv
  <2>2. CASE /\ ~ CancelDone
             /\ \/ /\ threadId[thd_idx] # NoHandle
                   /\ thread' = [thread EXCEPT ![threadId[thd_idx]] =
                                   IF @ = "routine" THEN "cancelled" ELSE @]
                \/ threadId[thd_idx] = NoHandle /\ UNCHANGED thread
             /\ thd_idx' = thd_idx + 1
             /\ UNCHANGED <<at, loopvars>>
    <3>1. /\ at = "cancel" /\ at' = "cancel" /\ UNCHANGED threadId
          /\ thd_set' = thd_set /\ \A i \in ThdIdx : Handle(i)' = Handle(i)
          /\ ~ CreateThread /\ thd_idx \in ThdIdx
      BY <1>0, <1>6, <2>2 DEF CancelThread, CreateThread, loopvars, thd_set,
         Handle, CancelDone, SlotsDone, ThdIdx
    <3>2. \A i \in ThdIdx : Handle(i) \in Handles /\ Handle(i) # NoHandle
      BY <1>0, <3>1, SetFacts DEF Handle, NoHandle
    <3>3. \A i \in ThdIdx : Spawned(i)' <=> Spawned(i)
      BY <3>1 DEF Spawned
    <3> HIDE DEF Handle
    <3>4. Spawned(thd_idx) => thread'[Handle(thd_idx)] # "routine"
      <4>1. Spawned(thd_idx) => threadId[thd_idx] = Handle(thd_idx)
                                \/ thread[Handle(thd_idx)] = "gone"
        BY <3>1 DEF SpawnedInv
      <4>2. CASE threadId[thd_idx] = Handle(thd_idx)
        BY <1>0, <2>2, <3>1, <3>2, <4>2 DEF TypeOK
      <4>3. CASE thread[Handle(thd_idx)] = "gone"
        BY <3>1, <3>2, <4>3, LivesGoOn
      <4> QED BY <4>1, <4>2, <4>3
    <3>5. \A i \in ThdIdx : i < thd_idx' => i < thd_idx \/ i = thd_idx
      BY <2>2, <3>1 DEF ThdIdx
    <3> QED BY <3>1, <3>2, <3>3, <3>4, <3>5, LivesGoOn DEF SpawnedInv
  <2> QED BY <1>6, <2>1, <2>2 DEF CancelThread, EndTry
<1>7. ASSUME NEW h \in Handles, Return(h) \/ Finish(h) \/ Die(h)
      PROVE  SpawnedInv'
  <2>1. UNCHANGED <<at, loopvars, thd_idx, threadId>> /\ thd_set' = thd_set
    BY <1>7 DEF Return, Finish, Die, mainvars, loopvars, thd_set
  <2>2. ~ CreateThread
    BY <1>0, <1>7, <2>1 DEF CreateThread, ThdIdx
  <2>3. \A i \in ThdIdx : Spawned(i)' = Spawned(i) /\ Handle(i)' = Handle(i)
    BY <2>1 DEF Spawned, Handle, loopvars
  <2>4. at \notin {"set", "reset", "exit"} => \A i \in ThdIdx : Handle(i) \in Handles
    BY <1>0, SetFacts
  <2> HIDE DEF Handle
  <2> QED BY <2>1, <2>2, <2>3, <2>4, LivesGoOn DEF SpawnedInv
<1> QED BY <1>1, <1>3, <1>4, <1>5, <1>6, <1>7 DEF Next, Main

LEMMA CancelStep ==
  ASSUME TypeInv, ReportInv, SpawnedInv, TimeoutCancelsAll, [Next]_vars
  PROVE  TimeoutCancelsAll'
<1>0. /\ TypeOK /\ MAX_SUPPORTED_THREADS \in Nat
      /\ report \in [Sets \X Tries -> Reports]
  BY ShmRacerAssumption DEF TypeInv, TypeOK
<1>a. ASSUME NEW r \in Sets \X Tries
      PROVE  ThreadSets[r[1]].threads \in Nat
  <2>1. r[1] \in 1 .. Len(ThreadSets)
    BY DEF Sets
  <2>2. ThreadSets[r[1]] \in [threads: 0 .. MAX_SUPPORTED_THREADS, timeout: Nat \ {0}]
    BY <2>1, ShmRacerAssumption, ElementOfSeq
  <2> QED BY <1>0, <2>2
<1>1. SUFFICES ASSUME NEW r \in Sets \X Tries, report'[r] = "SETCOMPLETE_TO",
                      NEW h \in ThreadsOf(r), h[3] <= ThreadSets[r[1]].threads
               PROVE  thread'[h] \notin {"unborn", "routine"}
  <2>1. \A r \in Sets \X Tries : \A h \in ThreadsOf(r) :
          h[3] \in Nat /\ ThreadSets[r[1]].threads \in Nat
    <3>1. \A r \in Sets \X Tries : ThreadSets[r[1]].threads \in Nat
      BY <1>a
    <3> QED BY <1>0, <3>1 DEF ThreadsOf, Handles, ThdIdx
  <2> QED BY <2>1 DEF TimeoutCancelsAll, ThreadsOf
<1>2. h \in Handles /\ h[1] = r[1] /\ h[2] = r[2]
      /\ h[3] \in ThdIdx /\ h = <<r[1], r[2], h[3]>>
  BY DEF ThreadsOf, Handles
<1>3. CASE report[r] = "SETCOMPLETE_TO"
  <2>1. thread[h] \notin {"unborn", "routine"}
    <3>1. thread[h] \notin {"unborn", "routine"} \/ h[3] > ThreadSets[r[1]].threads
      BY <1>3 DEF TimeoutCancelsAll
    <3> QED BY <1>0, <1>1, <1>2, <1>a, <3>1 DEF ThdIdx
  <2>2. CASE CreateThread
    <3>1. at = "create" /\ thread' = [thread EXCEPT ![Handle(thd_idx)] = thread'[Handle(thd_idx)]]
          /\ thd_idx \in ThdIdx
      BY <1>0, <2>2 DEF CreateThread, TypeOK, TypeInv, SpawnInv
    <3>2. <<thd_set_idx, try_idx>> \in Sets \X Tries
          /\ report[<<thd_set_idx, try_idx>>] = "none"
      <4>1. <<thd_set_idx, try_idx>> \in Sets \X Tries
        BY <1>0, <3>1, SetFacts
      <4>2. Unreported(<<thd_set_idx, try_idx>>)
        BY <4>1 DEF Unreported, Tries
      <4> QED BY <3>1, <4>1, <4>2 DEF ReportInv
    <3>3. h # Handle(thd_idx)
      BY <1>2, <1>3, <3>2 DEF Handle
    <3> QED BY <1>0, <2>1, <3>1, <3>3, <1>2 DEF TypeOK
  <2> QED BY <1>2, <2>1, <2>2, LivesGoOn
<1>4. CASE report[r] # "SETCOMPLETE_TO"
  <2>1. /\ at = "cancel" /\ EndTry("SETCOMPLETE_TO") /\ CancelDone
        /\ thread' = thread /\ r = <<thd_set_idx, try_idx>>
    BY <1>0, <1>1, <1>4, ReportSteps DEF EndTry
  <2>2. h = Handle(h[3])
    BY <1>2, <2>1 DEF Handle
  <2>3. Spawned(h[3]) /\ h[3] < thd_idx
    BY <1>0, <1>1, <1>2, <2>1 DEF Spawned, thd_set, CancelDone, SlotsDone,
       ThdIdx, TypeOK
  <2> QED BY <1>2, <2>1, <2>2, <2>3 DEF SpawnedInv
<1> QED BY <1>3, <1>4

\* When main reports that a try timed out, every thread of the try has ended or
\* has been asked to end, and this stays so.
THEOREM CancelReachesAll == Spec => []TimeoutCancelsAll
<1>1. Init => SpawnedInv /\ TimeoutCancelsAll
  BY DEF Init, SpawnedInv, TimeoutCancelsAll
<1>2. TypeInv /\ SpawnedInv /\ [Next]_vars => SpawnedInv'
  <2>1. SpawnedInv /\ UNCHANGED vars => SpawnedInv'
    BY DEF vars, loopvars, SpawnedInv, Spawned, Handle, thd_set
  <2> QED BY <2>1, SpawnedStep
<1>3. TypeInv /\ ReportInv /\ SpawnedInv /\ TimeoutCancelsAll /\ [Next]_vars
      => TimeoutCancelsAll'
  BY CancelStep
<1> QED BY <1>1, <1>2, <1>3, TypeInvariant, ReportInvariant, PTL DEF Spec
=============================================================================
