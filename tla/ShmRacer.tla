------------------------------ MODULE ShmRacer ------------------------------
(***************************************************************************)
(* The main thread of shm_racer.  It runs every thread set CYCLE_COUNT     *)
(* times: it resets shmlib, spawns the set's threads, polls                *)
(* running_threads once a second until it is 0 or the set's timeout is up, *)
(* and then cancels what is left.                                          *)
(*                                                                         *)
(* Nothing is joined: the only link between main and a thread that ends is *)
(* running_threads, which the thread decrements after its routine, and     *)
(* main decrements for every thread it cancels.  Cancellation is deferred: *)
(* a cancelled thread dies at a cancellation point of its routine, or, if  *)
(* it meets none, returns and decrements as usual.                         *)
(*                                                                         *)
(* A thread is named by the set, the try and the slot it was created for.  *)
(***************************************************************************)
EXTENDS Integers, Sequences, FiniteSets

CONSTANTS
  ThreadSets,             \* threadset_table: number of threads and timeout
  MAX_SUPPORTED_THREADS,  \* slots of a thread set
  CYCLE_COUNT             \* tries of each thread set

Sets == 1 .. Len(ThreadSets)
Tries == 1 .. CYCLE_COUNT
ThdIdx == 1 .. MAX_SUPPORTED_THREADS
Handles == Sets \X Tries \X ThdIdx
NoHandle == <<>>

ASSUME ShmRacerAssumption ==
  /\ MAX_SUPPORTED_THREADS \in Nat
  /\ CYCLE_COUNT \in Nat \ {0}
  /\ ThreadSets \in Seq([threads: 0 .. MAX_SUPPORTED_THREADS,
                         timeout: Nat \ {0}])

VARIABLES
  at,               \* where main is
  thd_set_idx,      \* its loop variables
  try_idx,
  thd_idx,
  runtime_counter,  \* seconds waited in this try
  threadId,         \* the handle in each slot of the current set
  running_threads,
  thread,           \* the life of each thread
  report            \* what main has printed about each try

vars == <<at, thd_set_idx, try_idx, thd_idx, runtime_counter, threadId,
          running_threads, thread, report>>

loopvars == <<thd_set_idx, try_idx>>

Places == {"set", "reset", "spawn", "create", "wait", "sleep", "cancel", "exit"}

\* A thread is in its routine, there with a cancellation pending, past it and
\* about to decrement running_threads, or gone.
Lives == {"unborn", "routine", "cancelled", "returned", "gone"}

Reports == {"none", "SETCOMPLETE", "SETCOMPLETE_TO", "FAILURE_WAIT"}

TypeOK ==
  /\ at \in Places
  /\ thd_set_idx \in 1 .. Len(ThreadSets) + 1
  /\ at \notin {"set", "exit"} => thd_set_idx \in Sets
  /\ try_idx \in Tries
  /\ thd_idx \in 1 .. MAX_SUPPORTED_THREADS + 1
  /\ runtime_counter \in Nat
  /\ threadId \in [ThdIdx -> Handles \cup {NoHandle}]
  /\ running_threads \in Int
  /\ thread \in [Handles -> Lives]
  /\ report \in [Sets \X Tries -> Reports]

Init ==
  /\ at = "set"
  /\ thd_set_idx = 1 /\ try_idx = 1 /\ thd_idx = 1
  /\ runtime_counter = 0
  /\ threadId = [i \in ThdIdx |-> NoHandle]
  /\ running_threads = 0
  /\ thread = [h \in Handles |-> "unborn"]
  /\ report = [r \in Sets \X Tries |-> "none"]

thd_set == ThreadSets[thd_set_idx]
Handle(i) == <<thd_set_idx, try_idx, i>>

Xcrement_thread_count_UpOnly(increment) ==
  running_threads' = running_threads + (IF increment THEN 1 ELSE 0)

\* Atomic: running_mutex is held around the addition, and nothing else.
Xcrement_thread_count(increment) ==
  running_threads' = running_threads + (IF increment THEN 1 ELSE -1)

-----------------------------------------------------------------------------
(* main *)

\* clearall_loghashes and reset_access_log, or the end of the program.
ResetSet ==
  /\ at = "set"
  /\ at' = IF thd_set_idx \in Sets THEN "reset" ELSE "exit"
  /\ UNCHANGED <<loopvars, thd_idx, runtime_counter, threadId,
                 running_threads, thread, report>>

\* spawn_thread_set: clearall_traps and reset_nm_decays.
ResetTry ==
  /\ at = "reset"
  /\ at' = "spawn"
  /\ thd_idx' = 1
  /\ UNCHANGED <<loopvars, runtime_counter, threadId, running_threads, thread,
                 report>>

SlotsDone_OneTooMany == thd_idx > MAX_SUPPORTED_THREADS + 1

SlotsDone == thd_idx > MAX_SUPPORTED_THREADS

\* One round of its loop: the slot's handle is cleared and, if the slot has a
\* start_routine, a thread is counted; at the end main starts to wait.
CountThread ==
  /\ at = "spawn"
  /\ \/ /\ thd_idx <= thd_set.threads
        /\ threadId' = [threadId EXCEPT ![thd_idx] = NoHandle]
        /\ Xcrement_thread_count(TRUE)
        /\ at' = "create"
        /\ UNCHANGED <<thd_idx, runtime_counter>>
     \/ /\ thd_idx > thd_set.threads /\ ~ SlotsDone
        /\ threadId' = [threadId EXCEPT ![thd_idx] = NoHandle]
        /\ thd_idx' = thd_idx + 1
        /\ UNCHANGED <<at, runtime_counter, running_threads>>
     \/ /\ SlotsDone
        /\ runtime_counter' = 0
        /\ at' = "wait"
        /\ UNCHANGED <<thd_idx, threadId, running_threads>>
  /\ UNCHANGED <<loopvars, thread, report>>

\* pthread_create.  After an error the handle is undefined: it may have been
\* written, and then names a thread that is not there.
CreateThread ==
  /\ at = "create"
  /\ \/ /\ threadId' = [threadId EXCEPT ![thd_idx] = Handle(thd_idx)]
        /\ thread' = [thread EXCEPT ![Handle(thd_idx)] = "routine"]
        /\ UNCHANGED running_threads
     \/ /\ \E h \in {NoHandle, Handle(thd_idx)} :
             threadId' = [threadId EXCEPT ![thd_idx] = h]
        /\ thread' = [thread EXCEPT ![Handle(thd_idx)] = "gone"]
        /\ Xcrement_thread_count(FALSE)
  /\ thd_idx' = thd_idx + 1
  /\ at' = "spawn"
  /\ UNCHANGED <<loopvars, runtime_counter, report>>

\* main prints the outcome of a try and goes on to the next try or set.
EndTry(outcome) ==
  /\ report' = [report EXCEPT ![<<thd_set_idx, try_idx>>] = outcome]
  /\ IF try_idx < CYCLE_COUNT
     THEN /\ try_idx' = try_idx + 1
          /\ at' = "reset"
          /\ UNCHANGED thd_set_idx
     ELSE /\ try_idx' = 1
          /\ thd_set_idx' = thd_set_idx + 1
          /\ at' = "set"

StillRunning_OffByOne == 1 < running_threads

\* The condition of wait_thread_set's loop.
StillRunning == 0 < running_threads

Wait ==
  /\ at = "wait"
  /\ \/ /\ StillRunning
        /\ at' = "sleep"
        /\ UNCHANGED <<loopvars, report>>
     \/ /\ ~ StillRunning
        /\ EndTry("SETCOMPLETE")
  /\ UNCHANGED <<thd_idx, runtime_counter, threadId, running_threads, thread>>

Seconds_Restarted == 1

\* The seconds waited once the sleep is over.
Seconds == runtime_counter + 1

\* sleep(1).  The timeout is looked at before the count is.
Sleep ==
  /\ at = "sleep"
  /\ runtime_counter' = Seconds
  /\ \/ /\ Seconds >= thd_set.timeout
        /\ thd_idx' = 1
        /\ at' = "cancel"
     \/ /\ Seconds < thd_set.timeout
        /\ UNCHANGED thd_idx
        /\ at' = "wait"
  /\ UNCHANGED <<loopvars, threadId, running_threads, thread, report>>

CancelDone_AtFirstGap == SlotsDone \/ threadId[thd_idx] = NoHandle

\* A slot without a handle is skipped, not the end of the loop.
CancelDone == SlotsDone

\* One round of cancel_thd_set.  Whether pthread_cancel reaches the thread (0)
\* or finds it gone (ESRCH), the count goes down by one; after any other error
\* main gives up and leaves, which ends every thread.
CancelThread ==
  /\ at = "cancel"
  /\ \/ /\ ~ CancelDone /\ threadId[thd_idx] # NoHandle
        /\ thread' = [thread EXCEPT ![threadId[thd_idx]] =
                        IF @ = "routine" THEN "cancelled" ELSE @]
        /\ Xcrement_thread_count(FALSE)
        /\ thd_idx' = thd_idx + 1
        /\ UNCHANGED <<at, loopvars, report>>
     \/ /\ ~ CancelDone /\ threadId[thd_idx] # NoHandle
        /\ report' = [report EXCEPT ![<<thd_set_idx, try_idx>>] = "FAILURE_WAIT"]
        /\ at' = "exit"
        /\ UNCHANGED <<loopvars, thd_idx, thread, running_threads>>
     \/ /\ ~ CancelDone /\ threadId[thd_idx] = NoHandle
        /\ thd_idx' = thd_idx + 1
        /\ UNCHANGED <<at, loopvars, thread, running_threads, report>>
     \/ /\ CancelDone
        /\ EndTry("SETCOMPLETE_TO")
        /\ UNCHANGED <<thd_idx, thread, running_threads>>
  /\ UNCHANGED <<runtime_counter, threadId>>

Main ==
  \/ ResetSet \/ ResetTry \/ CountThread \/ CreateThread
  \/ Wait \/ Sleep \/ CancelThread

-----------------------------------------------------------------------------
(* The threads, until main leaves. *)

mainvars == <<at, loopvars, thd_idx, runtime_counter, threadId, report>>

\* pthread_helper's start_routine returns.
Return(h) ==
  /\ at # "exit"
  /\ thread[h] \in {"routine", "cancelled"}
  /\ thread' = [thread EXCEPT ![h] = "returned"]
  /\ UNCHANGED <<mainvars, running_threads>>

\* Xcrement_thread_count(false), the last thing a thread does.
Finish(h) ==
  /\ at # "exit"
  /\ thread[h] = "returned"
  /\ thread' = [thread EXCEPT ![h] = "gone"]
  /\ Xcrement_thread_count(FALSE)
  /\ UNCHANGED mainvars

\* A cancelled thread meets a cancellation point.
Die(h) ==
  /\ at # "exit"
  /\ thread[h] = "cancelled"
  /\ thread' = [thread EXCEPT ![h] = "gone"]
  /\ UNCHANGED <<mainvars, running_threads>>

Next == Main \/ \E h \in Handles : Return(h) \/ Finish(h) \/ Die(h)

Spec == Init /\ [][Next]_vars

\* main is never blocked: it takes no lock that a thread keeps.  Threads may
\* hang for ever, on a semaphore or a mutex.
FairSpec == Spec /\ WF_vars(Main)

-----------------------------------------------------------------------------
(* Properties *)

Live == { h \in Handles : thread[h] \in {"routine", "cancelled", "returned"} }

\* Threads that will still decrement running_threads, as main sees it.
Counted == { h \in Handles : thread[h] \in {"routine", "returned"} }

\* Main has counted a thread it has not created yet.
Pending == IF at = "create" THEN 1 ELSE 0

\* No wait has ended in a timeout so far.
NoTimeout == at # "cancel" /\ \A r \in Sets \X Tries :
                                report[r] \notin {"SETCOMPLETE_TO", "FAILURE_WAIT"}

ThreadsOf(r) == { h \in Handles : h[1] = r[1] /\ h[2] = r[2] }

\* The count never exceeds the threads that will still decrement it, so main
\* never sits out a timeout for threads that are gone: neither an early end,
\* nor a failed pthread_create, nor a cancellation leaves a unit behind.
NeverOverCounted == running_threads <= Cardinality(Counted) + Pending

\* Until the first timeout the count is exact.
ExactUntilTimeout ==
  NoTimeout => running_threads = Cardinality(Live) + Pending

\* The unlocked resets of shmlib by main run while no thread is alive, until
\* the first timeout: what lets ShmLib reset between rounds.
ResetsAloneUntilTimeout ==
  [][(ResetSet \/ ResetTry) /\ NoTimeout => Live = {}]_vars

\* cancel_thd_set misses nobody: every thread of a timed-out try has ended or
\* has been asked to.
TimeoutCancelsAll ==
  \A r \in Sets \X Tries :
    report[r] = "SETCOMPLETE_TO" =>
      \A h \in ThreadsOf(r) : thread[h] \notin {"unborn", "routine"}
                              \/ h[3] > ThreadSets[r[1]].threads

\* The timeout does its work: main leaves, whatever the threads do.
MainLeaves == <>(at = "exit")

\* "SETCOMPLETE": the threads of the try have ended.
SetCompleteMeansEnded ==
  \A r \in Sets \X Tries :
    report[r] = "SETCOMPLETE" => ThreadsOf(r) \cap Live = {}

=============================================================================
