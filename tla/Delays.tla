------------------------------- MODULE Delays --------------------------------
(***************************************************************************)
(* How long a thread lingers after its access, in the widths of the code:  *)
(* times are pairs of seconds and microseconds, ages and averages words    *)
(* without sign whose difference is read with sign, and usleep is given    *)
(* the low half of one.  The wall clock may be set, back as well.  The     *)
(* decay is computed in a double.                                          *)
(*                                                                         *)
(* All accesses conflict, and no two calls overlap, so that no trap is     *)
(* met and each call finds a slot for its own.  The log has one cell,      *)
(* which the scan reads whether or not the flush has dropped it.  A near   *)
(* miss is met by the later access and kept for the caller of the earlier  *)
(* one: it is that caller's next trap it lengthens.  A call reads the      *)
(* clock once.                                                             *)
(***************************************************************************)
EXTENDS Integers, Sequences, SequencesExt

CONSTANTS
  HalfWord,              \* 2^63: a word takes twice as many values
  UsecWord,              \* 2^32: those of usleep's argument
  ExactBelow,            \* 2^53: a double is exact below
  MS_SEC_CONVERSION,     \* microseconds in a second
  NEAR_MISS_THRESHOLD,
  Threads, Sites,
  Nobody,                \* thread 0 of a cell nothing is logged in
  SetBack,               \* the wall clock may be set back
  MaxSeconds,            \* bound of the model: the clock's last second
  MaxCount,              \* bound of the model: near misses of one hazard
  MaxHazards,            \* bound of the model: hazards in the table
  MaxDecay               \* bound of the model: traps that decay one hazard

ASSUME DelaysAssumption ==
  /\ {HalfWord, UsecWord, ExactBelow, MS_SEC_CONVERSION} \subseteq Nat \ {0}
  /\ NEAR_MISS_THRESHOLD \in Nat /\ NEAR_MISS_THRESHOLD < HalfWord
  /\ MaxSeconds \in Nat /\ SetBack \in BOOLEAN

\* Who calls shm_op, and from where.
Callers == [thread: Threads, info: Sites]

\* A near miss is of two threads: the access that met it, and the earlier one.
Pairs == { p \in [by: Callers, of: Callers] : p.by.thread # p.of.thread }

ASSUME NobodyAssumption == Nobody \notin Callers

\* A word holds the difference of any two ages: 2^63 microseconds are 292
\* thousand years.
ASSUME ClockAssumption ==
  2 * ((MaxSeconds + 1) * MS_SEC_CONVERSION) <= HalfWord

VARIABLES
  now,     \* what gettimeofday returns
  entry,   \* shm_access_log[0]: its time, and by whom it was made
  idx,     \* shm_access_log_idx
  nm,      \* nm_hazards; what is not in the table has the count 0
  order,   \* the order in which what is was added, which HASH_ITER follows
  delay,   \* what set_trap computed for the access just made
  slept,   \* what usleep was given for it
  seen     \* history: the least and the greatest age each average is of

vars == <<now, entry, idx, nm, order, delay, slept, seen>>

Times == [s: 0 .. MaxSeconds, us: 0 .. MS_SEC_CONVERSION - 1]

Word == 2 * HalfWord
Unsigned(x) == x % Word
Signed(x) == IF x >= HalfWord THEN x - Word ELSE x
DivTrunc(d, n) == IF d >= 0 THEN d \div n ELSE - ((- d) \div n)

Age_NoBorrow(t) == Unsigned(Unsigned(now.s - t.s) * MS_SEC_CONVERSION
                            + (IF now.us >= t.us THEN now.us - t.us ELSE t.us - now.us))
Age(t) == Unsigned(Unsigned(now.s - t.s) * MS_SEC_CONVERSION + Unsigned(now.us - t.us))

IsStale(t) == NEAR_MISS_THRESHOLD < Age(t)

\* One step of the running mean of n values.
MeanStep_NoSign(mean, x, n) == Unsigned(mean + DivTrunc(Unsigned(x - mean), n + 1))
MeanStep(mean, x, n) == Unsigned(mean + DivTrunc(Signed(Unsigned(x - mean)), n + 1))

NoHazard == [count |-> 0, avg |-> 0, decay |-> 0]
NoEntry == [s |-> 0, us |-> 0, by |-> Nobody]

nm_violation_logger(table, p) ==
  LET h == table[p]
  IN  [table EXCEPT ![p] =
         IF h.count = 0 THEN [count |-> 1, avg |-> Age(entry), decay |-> 0]
         ELSE [count |-> h.count + 1, avg |-> MeanStep(h.avg, Age(entry), h.count),
               decay |-> 0]]

\* What set_trap takes in: the hazards whose earlier access was at the caller's
\* own site, by its own thread.
Own(pairs, c) == SelectSeq(pairs, LAMBDA p : p.of = c)

\* set_trap's mean of their decayed averages; with none, DEFAULT_DELAY is 0.
AverageDelay(table, own) ==
  LET Step(acc, p) == [mean |-> MeanStep(acc.mean, table[p].avg \div 3 ^ table[p].decay, acc.n),
                       n |-> acc.n + 1]
  IN  FoldLeft(Step, [mean |-> 0, n |-> 0], own).mean

\* An age in the future is a double that does not go back into a word: what
\* the conversion then yields is undefined.
AverageDelays(table, own) ==
  IF \A p \in ToSet(own) : table[p].avg < ExactBelow THEN {AverageDelay(table, own)}
  ELSE 0 .. Word - 1

Decayed(table, own) ==
  [p \in Pairs |-> IF p \in ToSet(own) THEN [table[p] EXCEPT !.decay = @ + 1] ELSE table[p]]

Init ==
  /\ now \in Times
  /\ entry = NoEntry /\ idx = 0
  /\ nm = [p \in Pairs |-> NoHazard] /\ order = <<>>
  /\ delay = 0 /\ slept = 0
  /\ seen = [p \in Pairs |-> [lo |-> 0, hi |-> 0]]

\* The time from t to now, as it is and not as it is computed.
TrueAge(t) == (now.s - t.s) * MS_SEC_CONVERSION + (now.us - t.us)

SeenToo(range, age, first) ==
  [lo |-> IF first \/ age < range.lo THEN age ELSE range.lo,
   hi |-> IF first \/ age > range.hi THEN age ELSE range.hi]

\* shm_op: flush, near misses, log, trap, and the sleep after it.
Access(c) ==
  LET left == IF idx > 0 /\ IsStale(entry) THEN 0 ELSE idx
      p == [by |-> c, of |-> entry.by]
      missed == p \in Pairs
      table == IF missed THEN nm_violation_logger(nm, p) ELSE nm
      known == IF missed /\ nm[p].count = 0 THEN Append(order, p) ELSE order
      own == Own(known, c)
  IN  /\ Len(known) <= MaxHazards
      /\ missed => nm[p].count < MaxCount
      /\ \A q \in ToSet(own) : table[q].decay < MaxDecay
      /\ entry' = IF left = 0 THEN [s |-> now.s, us |-> now.us, by |-> c] ELSE entry
      /\ idx' = 1
      /\ delay' \in AverageDelays(table, own)
      /\ slept' = delay' % UsecWord
      /\ nm' = Decayed(table, own) /\ order' = known
      /\ seen' = IF missed
                 THEN [seen EXCEPT ![p] = SeenToo(@, TrueAge(entry), nm[p].count = 0)]
                 ELSE seen
      /\ UNCHANGED now

Slept == delay' = 0 /\ slept' = 0

\* spawn_thread_set's reset between tries, and main's between sets.
ResetDecays ==
  /\ nm' = [p \in Pairs |-> [nm[p] EXCEPT !.decay = 0]]
  /\ Slept
  /\ UNCHANGED <<now, entry, idx, order, seen>>

ResetAll ==
  /\ idx' = 0 /\ entry' = NoEntry
  /\ nm' = [p \in Pairs |-> NoHazard] /\ order' = <<>>
  /\ seen' = [p \in Pairs |-> [lo |-> 0, hi |-> 0]]
  /\ Slept
  /\ UNCHANGED now

SetClock ==
  /\ now' \in Times
  /\ SetBack \/ now'.s > now.s \/ (now'.s = now.s /\ now'.us >= now.us)
  /\ Slept
  /\ UNCHANGED <<entry, idx, nm, order, seen>>

Next == (\E c \in Callers : Access(c)) \/ ResetDecays \/ ResetAll \/ SetClock
Spec == Init /\ [][Next]_vars

-----------------------------------------------------------------------------
(* Properties *)

\* An entry is recent if it was made at most the threshold ago: one that the
\* clock, set back, puts in the future is stale, and no borrow between seconds
\* and microseconds moves the limit.
StaleUnlessRecent ==
  entry.by # Nobody => (IsStale(entry) <=> TrueAge(entry) \notin 0 .. NEAR_MISS_THRESHOLD)

\* "For overflow reasons": read with its sign an average lies between the ages
\* it is of, although ages in the future make it wrap.
AverageBetween ==
  \A p \in Pairs : nm[p].count > 0 =>
    Signed(nm[p].avg) \in seen[p].lo .. seen[p].hi

\* "Returns the amount of time the trap will be": the thread sleeps as long as
\* set_trap computed.
SleepsTheDelay == slept = delay
=============================================================================
