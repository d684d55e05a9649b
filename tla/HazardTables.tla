---------------------------- MODULE HazardTables ----------------------------
(***************************************************************************)
(* The two hash tables of shmlib, both keyed by the text of the hazard:    *)
(*   logged_hazards  races caught by a trap and printed;                   *)
(*   nm_hazards      near misses, from which set_trap computes how long a  *)
(*                   thread should linger after an access.                 *)
(* A uthash table is a finite map; its iteration order is the order of     *)
(* insertion, which set_trap's average sees only in its rounding, so the   *)
(* order is left open here.  logged_count is never read and is left out.   *)
(* A near-miss record's src and thread_idx are the held and with fields of *)
(* its key.  decay_func_factor is only read as pow(3, factor): the model   *)
(* keeps that power, the divisor.                                          *)
(***************************************************************************)
EXTENDS ShmTypes

VARIABLES
  logged,   \* keys of logged_hazards
  nm        \* nm_hazards, a function on its keys

NMHazard == [count: Nat \ {0}, avg: Nat, divisor: Nat \ {0}]

HazardTypeOK ==
  /\ logged \subseteq Key
  /\ DOMAIN nm \subseteq Key
  /\ nm \in [DOMAIN nm -> NMHazard]

HazardInit ==
  /\ logged = {}
  /\ nm = [k \in {} |-> 0]

\* C's integer division, which truncates toward zero.
DivTrunc(d, n) == IF d >= 0 THEN d \div n ELSE - ((- d) \div n)

MeanStep_Sum(mean, x, n) == mean + x

\* One step of the "lightweight" running mean: n values seen, x the next.
MeanStep(mean, x, n) == mean + DivTrunc(x - mean, n + 1)

-----------------------------------------------------------------------------
trap_violation_logger_KeepNM(keys) ==
  /\ logged' = logged \cup keys
  /\ UNCHANGED nm

\* For every key not logged before: log it, and forget its near misses.
trap_violation_logger(keys) ==
  /\ logged' = logged \cup keys
  /\ nm' = [k \in DOMAIN nm \ (keys \ logged) |-> nm[k]]

add_nm_hazard(k, delay) ==
  nm' = [x \in DOMAIN nm \cup {k} |->
           IF x = k THEN [count |-> 1, avg |-> delay, divisor |-> 1] ELSE nm[x]]

\* A hazard already caught by a trap is no near miss any more; a known one
\* gets its mean updated and its decay reset.
nm_violation_logger(k, delta) ==
  IF k \in logged THEN UNCHANGED nm
  ELSE IF k \notin DOMAIN nm THEN add_nm_hazard(k, delta)
  ELSE nm' = [nm EXCEPT ![k] = [count |-> @.count + 1,
                                avg |-> MeanStep(@.avg, delta, @.count),
                                divisor |-> 1]]

\* The near misses in which thread t, at this site, was the earlier party.
NearMissesAt(t, o) == { k \in DOMAIN nm : k.with = t /\ k.held = o.info }

DecayedDelay(k) == nm[k].avg \div nm[k].divisor

decay(k) == nm' = [nm EXCEPT ![k].divisor = 3 * @]

clearall_loghashes ==
  /\ logged' = {}
  /\ nm' = [k \in {} |-> 0]

reset_nm_decays == nm' = [k \in DOMAIN nm |-> [nm[k] EXCEPT !.divisor = 1]]

=============================================================================
