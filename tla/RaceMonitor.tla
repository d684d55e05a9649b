----------------------------- MODULE RaceMonitor ----------------------------
(***************************************************************************)
(* What shmlib promises as a race detector, without locks, traps or logs:  *)
(* a call of shm_op holds its access open for a while, and opening one     *)
(* reports, in the same instant, every race with an access that another    *)
(* thread holds open, and nothing else.                                    *)
(***************************************************************************)
EXTENDS ShmTypes

CONSTANT NoAccess    \* stands for a thread that holds no access open

VARIABLES
  open,      \* the access each thread holds open
  reported   \* the races reported since the last reset

vars == <<open, reported>>

IsOpen(t) == open[t] # NoAccess

HeldBy(u) == [thread |-> u, lo |-> LowOffset(open[u]),
              hi |-> HighOffset(open[u]), info |-> open[u].info]

\* The races of a new access o of t with the accesses open now.
RacesOf(t, o) ==
  { MsgKey(t, o, HeldBy(u), open[u].rw) :
      u \in { v \in Threads : IsOpen(v) /\ Races(t, o, HeldBy(v), open[v].rw) } }

Init ==
  /\ open = [t \in Threads |-> NoAccess]
  /\ reported = {}

Open(t, o) ==
  /\ ~ IsOpen(t)
  /\ IsValid(o)
  /\ open' = [open EXCEPT ![t] = o]
  /\ reported' = reported \cup RacesOf(t, o)

Close(t) ==
  /\ IsOpen(t)
  /\ open' = [open EXCEPT ![t] = NoAccess]
  /\ UNCHANGED reported

Forget ==
  /\ \A t \in Threads : ~ IsOpen(t)
  /\ reported' = {}
  /\ UNCHANGED open

Next ==
  \/ \E t \in Threads : Close(t)
  \/ \E t \in Threads, o \in Ops : Open(t, o)
  \/ Forget

Spec == Init /\ [][Next]_vars
=============================================================================
