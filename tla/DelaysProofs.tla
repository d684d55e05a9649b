---------------------------- MODULE DelaysProofs -----------------------------
(***************************************************************************)
(* What the words without sign of the near miss table and of the access    *)
(* log's flush stand for: the ages, which the code never has, of which     *)
(* they are the remainders.                                                *)
(***************************************************************************)
EXTENDS Delays, TLAPS

\* The ages two times the clock can show may have.
Reach == (MaxSeconds + 1) * MS_SEC_CONVERSION
Ages == 1 - Reach .. Reach - 1

Entries == [s: 0 .. MaxSeconds, us: 0 .. MS_SEC_CONVERSION - 1, by: Callers \cup {Nobody}]
NearMisses == [count: Nat, avg: 0 .. Word - 1, decay: Nat]

\* Inductive: the averages are those of AverageBetween only while the ages
\* they are of lie in a half of what a word can tell apart.
MeansInv ==
  /\ now \in Times /\ entry \in Entries
  /\ nm \in [Pairs -> NearMisses]
  /\ seen \in [Pairs -> [lo: Ages, hi: Ages]]
  /\ AverageBetween

-----------------------------------------------------------------------------
(* Words *)

\* The bounds the words and the clock share, as integers.
LEMMA Widths ==
  /\ HalfWord \in Nat \ {0} /\ Word \in Nat \ {0} /\ Word = 2 * HalfWord
  /\ MS_SEC_CONVERSION \in Nat \ {0}
  /\ Reach \in Nat \ {0} /\ 2 * Reach <= HalfWord
<1>1. /\ HalfWord \in Nat \ {0} /\ MS_SEC_CONVERSION \in Nat \ {0} /\ MaxSeconds \in Nat
  BY DelaysAssumption
<1>2. Word \in Nat \ {0} /\ Word = 2 * HalfWord
  BY <1>1 DEF Word
<1>3. Reach \in Nat \ {0}
  <2>1. Reach = MaxSeconds * MS_SEC_CONVERSION + MS_SEC_CONVERSION
    BY <1>1 DEF Reach
  <2>2. MaxSeconds * MS_SEC_CONVERSION \in Nat
    BY <1>1
  <2> QED BY <1>1, <2>1, <2>2
<1>4. 2 * Reach <= HalfWord
  BY ClockAssumption DEF Reach
<1> QED BY <1>1, <1>2, <1>3, <1>4

\* There is one remainder.
LEMMA Remainder ==
  ASSUME NEW w \in Nat \ {0}, NEW q \in Int, NEW r \in 0 .. w - 1
  PROVE  (w * q + r) % w = r
<1> DEFINE x == w * q + r
<1>1. w * q \in Int /\ x \in Int
  OBVIOUS
<1>2. x = w * (x \div w) + (x % w) /\ x % w \in 0 .. w - 1 /\ x \div w \in Int
  BY <1>1
<1>3. x \div w = q
  <2> DEFINE p == x \div w
             s == x % w
  <2>1. w * q + r = w * p + s /\ s \in 0 .. w - 1 /\ p \in Int
    BY <1>2
  <2> HIDE DEF p, s, x
  <2>2. w * (p - q) = r - s
    BY <2>1
  <2>3. ~ (p - q >= 1)
    <3> SUFFICES ASSUME p - q >= 1 PROVE FALSE
      OBVIOUS
    <3>1. w * (p - q) >= w
      BY <2>1
    <3> QED BY <2>1, <2>2, <3>1
  <2>4. ~ (p - q <= -1)
    <3> SUFFICES ASSUME p - q <= -1 PROVE FALSE
      OBVIOUS
    <3>1. w * (p - q) <= - w
      BY <2>1
    <3> QED BY <2>1, <2>2, <3>1
  <2>5. p = q
    BY <2>1, <2>3, <2>4
  <2> QED BY <2>5 DEF p
<1> HIDE DEF x
<1>4. w * q + r = w * q + (x % w)
  BY <1>2, <1>3 DEF x
<1>5. x % w = r
  BY <1>1, <1>2, <1>4
<1> QED BY <1>5 DEF x

\* Division.
LEMMA Quotient ==
  ASSUME NEW w \in Nat \ {0}, NEW x \in Int
  PROVE  x \div w \in Int /\ x % w \in 0 .. w - 1 /\ x = w * (x \div w) + (x % w)
OBVIOUS

\* A word is that of every integer a multiple of Word away.
LEMMA SameWord ==
  ASSUME NEW x \in Int, NEW k \in Int
  PROVE  Unsigned(x + Word * k) = Unsigned(x)
<1> DEFINE q == x \div Word
           r == x % Word
<1>1. q \in Int /\ r \in 0 .. Word - 1 /\ x = Word * q + r
  BY Widths, Quotient
<1> HIDE DEF q, r
<1>2. x + Word * k = Word * (q + k) + r /\ q + k \in Int
  <2>1. Word * (q + k) = Word * q + Word * k
    BY <1>1, Widths
  <2>2. Word * q \in Int /\ Word * k \in Int
    BY <1>1, Widths
  <2> QED BY <1>1, <2>1, <2>2
<1>3. (Word * (q + k) + r) % Word = r
  BY <1>1, <1>2, Widths, Remainder
<1> QED BY <1>2, <1>3 DEF r, Unsigned

\* What is left of an integer is itself, but for a multiple of Word.
LEMMA WordOf ==
  ASSUME NEW x \in Int
  PROVE  /\ Unsigned(x) \in 0 .. Word - 1
         /\ \E k \in Int : Unsigned(x) = x + Word * k
<1> DEFINE q == x \div Word
<1>1. q \in Int /\ x % Word \in 0 .. Word - 1 /\ x = Word * q + (x % Word)
  BY Widths, Quotient
<1> HIDE DEF q
<1>2. - q \in Int /\ x % Word = x + Word * (- q)
  <2>1. Word * (- q) = - (Word * q) /\ Word * q \in Int
    BY <1>1, Widths
  <2> QED BY <1>1, <2>1, Widths
<1> QED BY <1>1, <1>2 DEF Unsigned

\* A word reads as the integer it is of, when that is within half of Word.
LEMMA ReadBack ==
  ASSUME NEW x \in - HalfWord .. HalfWord - 1
  PROVE  /\ Signed(Unsigned(x)) = x
         /\ Unsigned(x) = IF x >= 0 THEN x ELSE x + Word
<1>1. CASE x >= 0
  <2>1. Unsigned(x) = x
    <3>1. x = Word * 0 + x /\ x \in 0 .. Word - 1
      BY <1>1, Widths
    <3>2. (Word * 0 + x) % Word = x
      BY <3>1, Widths, Remainder
    <3> QED BY <3>1, <3>2 DEF Unsigned
  <2> QED BY <1>1, <2>1, Widths DEF Signed
<1>2. CASE x < 0
  <2>1. Unsigned(x) = x + Word
    <3>1. x = Word * (-1) + (x + Word) /\ x + Word \in 0 .. Word - 1
      BY <1>2, Widths
    <3>2. (Word * (-1) + (x + Word)) % Word = x + Word
      BY <3>1, Widths, Remainder
    <3> QED BY <3>1, <3>2 DEF Unsigned
  <2> QED BY <1>2, <2>1, Widths DEF Signed
<1> QED BY <1>1, <1>2, Widths

\* And a word is that of the integer it reads as.
LEMMA WordBack ==
  ASSUME NEW w \in 0 .. Word - 1
  PROVE  /\ Signed(w) \in - HalfWord .. HalfWord - 1
         /\ \E k \in Int : w = Signed(w) + Word * k
<1>1. CASE w >= HalfWord
  <2>1. Signed(w) = w - Word
    BY <1>1 DEF Signed
  <2>2. w = Signed(w) + Word * 1
    BY <2>1, Widths
  <2> QED BY <1>1, <2>1, <2>2, Widths
<1>2. CASE w < HalfWord
  <2>1. Signed(w) = w
    BY <1>2, Widths DEF Signed
  <2>2. w = Signed(w) + Word * 0
    BY <2>1, Widths
  <2> QED BY <1>2, <2>1, <2>2, Widths
<1> QED BY <1>1, <1>2, Widths

-----------------------------------------------------------------------------
(* Ages and means *)

LEMMA TrueAges ==
  ASSUME NEW t \in Entries, now \in Times
  PROVE  TrueAge(t) \in Ages
<1> DEFINE ds == now.s - t.s
           du == now.us - t.us
<1>1. /\ ds \in Int /\ - MaxSeconds <= ds /\ ds <= MaxSeconds /\ MaxSeconds \in Nat
      /\ du \in Int /\ 1 - MS_SEC_CONVERSION <= du /\ du <= MS_SEC_CONVERSION - 1
  BY Widths, DelaysAssumption DEF Times, Entries
<1>2. Reach = MaxSeconds * MS_SEC_CONVERSION + MS_SEC_CONVERSION
  BY <1>1, Widths DEF Reach
<1>3. TrueAge(t) = ds * MS_SEC_CONVERSION + du
  BY DEF TrueAge
<1> HIDE DEF ds, du
<1>4. ds * MS_SEC_CONVERSION <= MaxSeconds * MS_SEC_CONVERSION
  BY <1>1, Widths
<1>5. - (MaxSeconds * MS_SEC_CONVERSION) <= ds * MS_SEC_CONVERSION
  <2>1. (ds + MaxSeconds) * MS_SEC_CONVERSION >= 0
    BY <1>1, Widths
  <2>2. (ds + MaxSeconds) * MS_SEC_CONVERSION
          = ds * MS_SEC_CONVERSION + MaxSeconds * MS_SEC_CONVERSION
    BY <1>1, Widths
  <2>3. ds * MS_SEC_CONVERSION \in Int /\ MaxSeconds * MS_SEC_CONVERSION \in Int
    BY <1>1, Widths
  <2> QED BY <2>1, <2>2, <2>3
<1>6. ds * MS_SEC_CONVERSION \in Int /\ MaxSeconds * MS_SEC_CONVERSION \in Int
  BY <1>1, Widths
<1> QED BY <1>1, <1>2, <1>3, <1>4, <1>5, <1>6, Widths DEF Ages

\* The borrow between seconds and microseconds, and the wrap of a clock set
\* back, are undone when the two are put together.
LEMMA AgeIsTheWord ==
  ASSUME NEW t \in Entries, now \in Times
  PROVE  Age(t) = Unsigned(TrueAge(t))
<1> DEFINE ds == now.s - t.s
           du == now.us - t.us
           M == MS_SEC_CONVERSION
<1>1. ds \in Int /\ du \in Int /\ M \in Int
  BY Widths, DelaysAssumption DEF Times, Entries
<1>2. TrueAge(t) = ds * M + du /\ Age(t) = Unsigned(Unsigned(ds) * M + Unsigned(du))
  BY DEF TrueAge, Age
<1> HIDE DEF ds, du, M
<1>3. PICK j \in Int : Unsigned(ds) = ds + Word * j
  BY <1>1, WordOf
<1>4. PICK k \in Int : Unsigned(du) = du + Word * k
  BY <1>1, WordOf
<1>5. Unsigned(ds) * M + Unsigned(du) = (ds * M + du) + Word * (j * M + k)
  <2>1. (ds + Word * j) * M = ds * M + Word * (j * M)
    BY <1>1, Widths
  <2>2. Word * (j * M + k) = Word * (j * M) + Word * k
    BY <1>1, Widths
  <2>3. ds * M \in Int /\ Word * (j * M) \in Int /\ Word * k \in Int
    BY <1>1, Widths
  <2> QED BY <1>1, <1>3, <1>4, <2>1, <2>2, <2>3
<1>6. ds * M + du \in Int /\ j * M + k \in Int
  BY <1>1
<1> QED BY <1>2, <1>5, <1>6, SameWord

LEMMA AgeReads ==
  ASSUME NEW t \in Entries, now \in Times
  PROVE  /\ TrueAge(t) \in Ages
         /\ Age(t) \in 0 .. Word - 1 /\ Signed(Age(t)) = TrueAge(t)
         /\ Age(t) = IF TrueAge(t) >= 0 THEN TrueAge(t) ELSE TrueAge(t) + Word
<1>1. TrueAge(t) \in Ages /\ TrueAge(t) \in Int
  BY TrueAges, Widths DEF Ages
<1>2. TrueAge(t) \in - HalfWord .. HalfWord - 1
  BY <1>1, Widths DEF Ages
<1> QED BY <1>1, <1>2, AgeIsTheWord, ReadBack, WordOf

\* C's division goes towards zero: a share of a difference is on its side of
\* zero and no farther from it.
LEMMA Share ==
  ASSUME NEW d \in Int, NEW n \in Nat \ {0}
  PROVE  /\ DivTrunc(d, n) \in Int
         /\ d >= 0 => 0 <= DivTrunc(d, n) /\ DivTrunc(d, n) <= d
         /\ d <= 0 => d <= DivTrunc(d, n) /\ DivTrunc(d, n) <= 0
<1>1. ASSUME NEW x \in Nat PROVE x \div n \in Nat /\ x \div n <= x
  BY <1>1
<1>2. CASE d >= 0
  <2>1. DivTrunc(d, n) = d \div n /\ d \in Nat
    BY <1>2 DEF DivTrunc
  <2>2. d \div n \in Nat /\ d \div n <= d
    BY <1>1, <2>1
  <2> QED BY <1>2, <2>1, <2>2
<1>3. CASE d < 0
  <2>1. DivTrunc(d, n) = - ((- d) \div n) /\ - d \in Nat
    BY <1>3 DEF DivTrunc
  <2>2. (- d) \div n \in Nat /\ (- d) \div n <= - d
    BY <1>1, <2>1
  <2> QED BY <1>3, <2>1, <2>2
<1> QED BY <1>2, <1>3

\* "For overflow reasons": a step of the mean, done on words, stays between
\* the mean and the value it takes in, when the two lie in one range of ages.
LEMMA MeanStays ==
  ASSUME NEW mean \in 0 .. Word - 1, NEW x \in 0 .. Word - 1, NEW n \in Nat,
         NEW lo \in Ages, NEW hi \in Ages,
         Signed(mean) \in lo .. hi, Signed(x) \in lo .. hi
  PROVE  MeanStep(mean, x, n) \in 0 .. Word - 1 /\ Signed(MeanStep(mean, x, n)) \in lo .. hi
<1> DEFINE m == Signed(mean)
           a == Signed(x)
           d == DivTrunc(a - m, n + 1)
<1>1. m \in lo .. hi /\ a \in lo .. hi /\ m \in Int /\ a \in Int /\ lo \in Int /\ hi \in Int
  BY Widths DEF Ages
<1>2. /\ a - m \in - HalfWord .. HalfWord - 1 /\ a - m \in Int
      /\ lo >= - HalfWord /\ hi <= HalfWord - 1
  BY <1>1, Widths DEF Ages
<1>3. PICK j \in Int : mean = m + Word * j
  BY WordBack
<1>4. PICK k \in Int : x = a + Word * k
  BY WordBack
<1> HIDE DEF m, a
<1>5. Unsigned(x - mean) = Unsigned(a - m)
  <2>1. x - mean = (a - m) + Word * (k - j)
    <3>1. Word * (k - j) = Word * k - Word * j /\ Word * k \in Int /\ Word * j \in Int
      BY Widths
    <3> QED BY <1>1, <1>3, <1>4, <3>1
  <2>2. k - j \in Int
    OBVIOUS
  <2> QED BY <1>2, <2>1, <2>2, SameWord
<1>6. Signed(Unsigned(x - mean)) = a - m
  BY <1>2, <1>5, ReadBack
<1>7. d \in Int /\ (a - m >= 0 => 0 <= d /\ d <= a - m) /\ (a - m <= 0 => a - m <= d /\ d <= 0)
  BY <1>2, Share
<1>8. MeanStep(mean, x, n) = Unsigned(mean + d)
  BY <1>6 DEF MeanStep
<1> HIDE DEF d
<1>9. m + d \in lo .. hi
  BY <1>1, <1>7
<1>10. m + d \in - HalfWord .. HalfWord - 1 /\ m + d \in Int
  BY <1>1, <1>2, <1>7, <1>9, Widths
<1>11. Unsigned(mean + d) = Unsigned(m + d)
  <2>1. mean + d = (m + d) + Word * j
    <3>1. Word * j \in Int
      BY Widths
    <3> QED BY <1>1, <1>3, <1>7, <3>1
  <2> QED BY <1>10, <2>1, SameWord
<1> QED BY <1>8, <1>9, <1>10, <1>11, ReadBack, WordOf

-----------------------------------------------------------------------------
(* The invariant *)

LEMMA MeansInit == Init => MeansInv
<1> SUFFICES ASSUME Init PROVE MeansInv
  OBVIOUS
<1>1. now \in Times /\ entry \in Entries
  BY Widths, DelaysAssumption DEF Init, Times, NoEntry, Entries
<1>2. 0 \in Ages /\ NoHazard \in NearMisses
  BY Widths DEF Ages, NoHazard, NearMisses
<1> QED BY <1>1, <1>2 DEF Init, MeansInv, AverageBetween, NoHazard

\* One more near miss, first or not.
LEMMA LoggedMean ==
  ASSUME MeansInv, NEW p \in Pairs
  PROVE  LET h == nm_violation_logger(nm, p)[p]
             r == SeenToo(seen[p], TrueAge(entry), nm[p].count = 0)
         IN  /\ h \in NearMisses /\ r \in [lo: Ages, hi: Ages]
             /\ Signed(h.avg) \in r.lo .. r.hi
<1> DEFINE h == nm_violation_logger(nm, p)[p]
           r == SeenToo(seen[p], TrueAge(entry), nm[p].count = 0)
           age == TrueAge(entry)
<1>1. /\ nm[p] \in NearMisses /\ seen[p] \in [lo: Ages, hi: Ages]
      /\ age \in Ages /\ age \in Int /\ Age(entry) \in 0 .. Word - 1 /\ Signed(Age(entry)) = age
      /\ Ages \subseteq Int
  BY AgeReads, Widths DEF MeansInv, Ages
<1>2. CASE nm[p].count = 0
  <2>1. h = [count |-> 1, avg |-> Age(entry), decay |-> 0]
    BY <1>2 DEF nm_violation_logger, MeansInv
  <2>2. r = [lo |-> age, hi |-> age]
    BY <1>2 DEF SeenToo
  <2> HIDE DEF h, r, age
  <2>3. h \in NearMisses /\ r \in [lo: Ages, hi: Ages] /\ Signed(h.avg) \in r.lo .. r.hi
    BY <1>1, <2>1, <2>2 DEF NearMisses
  <2> QED BY <2>3 DEF h, r, age
<1>3. CASE nm[p].count # 0
  <2>1. h = [count |-> nm[p].count + 1, avg |-> MeanStep(nm[p].avg, Age(entry), nm[p].count),
             decay |-> 0]
    BY <1>3 DEF nm_violation_logger, MeansInv
  <2>2. Signed(nm[p].avg) \in seen[p].lo .. seen[p].hi /\ nm[p].count \in Nat
        /\ nm[p].avg \in 0 .. Word - 1
    BY <1>1, <1>3 DEF MeansInv, AverageBetween, NearMisses
  <2>3. r = [lo |-> IF age < seen[p].lo THEN age ELSE seen[p].lo,
             hi |-> IF age > seen[p].hi THEN age ELSE seen[p].hi]
    BY <1>3 DEF SeenToo
  <2> HIDE DEF h, r, age
  <2>4. /\ r.lo \in Ages /\ r.hi \in Ages /\ r \in [lo: Ages, hi: Ages]
        /\ seen[p].lo \in Int /\ seen[p].hi \in Int
        /\ r.lo \in Int /\ r.lo <= age /\ r.lo <= seen[p].lo
        /\ r.hi \in Int /\ age <= r.hi /\ seen[p].hi <= r.hi
    <3>1. seen[p].lo \in Ages /\ seen[p].hi \in Ages
      BY <1>1
    <3>2. /\ r.lo = IF age < seen[p].lo THEN age ELSE seen[p].lo
          /\ r.hi = IF age > seen[p].hi THEN age ELSE seen[p].hi
      BY <2>3
    <3>3. r.lo \in Ages /\ r.hi \in Ages
      BY <1>1, <3>1, <3>2
    <3>4. r \in [lo: Ages, hi: Ages]
      BY <1>1, <2>3, <3>1
    <3>5. seen[p].lo \in Int /\ seen[p].hi \in Int /\ r.lo \in Int /\ r.hi \in Int
      BY <1>1, <3>1, <3>3
    <3> QED BY <1>1, <3>2, <3>3, <3>4, <3>5
  <2>5. Signed(nm[p].avg) \in r.lo .. r.hi /\ Signed(Age(entry)) \in r.lo .. r.hi
    BY <1>1, <2>2, <2>4
  <2>6. /\ MeanStep(nm[p].avg, Age(entry), nm[p].count) \in 0 .. Word - 1
        /\ Signed(MeanStep(nm[p].avg, Age(entry), nm[p].count)) \in r.lo .. r.hi
    BY <1>1, <2>2, <2>4, <2>5, MeanStays
  <2>7. h \in NearMisses /\ Signed(h.avg) \in r.lo .. r.hi
    BY <2>1, <2>2, <2>6 DEF NearMisses
  <2> QED BY <2>4, <2>7 DEF h, r, age
<1> QED BY <1>2, <1>3

LEMMA MeansAccess ==
  ASSUME MeansInv, NEW c \in Callers, Access(c)
  PROVE  MeansInv'
<1> DEFINE p == [by |-> c, of |-> entry.by]
           missed == p \in Pairs
           h == nm_violation_logger(nm, p)[p]
           r == SeenToo(seen[p], TrueAge(entry), nm[p].count = 0)
           table == IF missed THEN nm_violation_logger(nm, p) ELSE nm
           known == IF missed /\ nm[p].count = 0 THEN Append(order, p) ELSE order
           own == Own(known, c)
<1>1. /\ now' = now /\ nm' = Decayed(table, own)
      /\ entry' \in {[s |-> now.s, us |-> now.us, by |-> c], entry}
      /\ seen' = IF missed THEN [seen EXCEPT ![p] = r] ELSE seen
  BY DEF Access
<1>2. now' \in Times /\ entry' \in Entries
  BY <1>1 DEF MeansInv, Times, Entries
<1>3. missed => /\ h \in NearMisses /\ r \in [lo: Ages, hi: Ages]
                /\ Signed(h.avg) \in r.lo .. r.hi
  BY LoggedMean
<1>4. /\ table \in [Pairs -> NearMisses]
      /\ seen' \in [Pairs -> [lo: Ages, hi: Ages]]
      /\ \A q \in Pairs : table[q].count > 0 =>
           Signed(table[q].avg) \in seen'[q].lo .. seen'[q].hi
  <2>1. CASE missed
    <3>1. table = [nm EXCEPT ![p] = h]
      BY <2>1 DEF nm_violation_logger, MeansInv
    <3>2. seen' = [seen EXCEPT ![p] = r] /\ p \in Pairs
      BY <1>1, <2>1
    <3>3. h \in NearMisses /\ r \in [lo: Ages, hi: Ages] /\ Signed(h.avg) \in r.lo .. r.hi
      BY <1>3, <2>1
    <3> HIDE DEF table, h, r, p
    <3> QED BY <3>1, <3>2, <3>3 DEF MeansInv, AverageBetween
  <2>2. CASE ~ missed
    BY <1>1, <2>2 DEF MeansInv, AverageBetween
  <2> QED BY <2>1, <2>2
<1> HIDE DEF table, h, r, missed, p, known, own
<1>5. /\ nm' \in [Pairs -> NearMisses]
      /\ \A q \in Pairs : nm'[q].count = table[q].count /\ nm'[q].avg = table[q].avg
  BY <1>1, <1>4 DEF Decayed, NearMisses
<1> QED BY <1>2, <1>4, <1>5 DEF MeansInv, AverageBetween

LEMMA MeansNext == MeansInv /\ [Next]_vars => MeansInv'
<1> SUFFICES ASSUME MeansInv, [Next]_vars PROVE MeansInv'
  OBVIOUS
<1>1. ASSUME NEW c \in Callers, Access(c) PROVE MeansInv'
  BY <1>1, MeansAccess
<1>2. CASE ResetDecays
  <2>1. /\ nm' \in [Pairs -> NearMisses]
        /\ \A p \in Pairs : nm'[p].count = nm[p].count /\ nm'[p].avg = nm[p].avg
    BY <1>2 DEF ResetDecays, MeansInv, NearMisses
  <2> QED BY <1>2, <2>1 DEF ResetDecays, MeansInv, AverageBetween
<1>3. CASE ResetAll
  <2>1. 0 \in Ages /\ NoHazard \in NearMisses /\ NoHazard.count = 0
    BY Widths DEF Ages, NoHazard, NearMisses
  <2>2. entry' \in Entries /\ now' \in Times
    BY <1>3, Widths, DelaysAssumption DEF ResetAll, MeansInv, Times, NoEntry, Entries
  <2> QED BY <1>3, <2>1, <2>2 DEF ResetAll, MeansInv, AverageBetween
<1>4. CASE SetClock
  BY <1>4 DEF SetClock, MeansInv, AverageBetween
<1>5. CASE UNCHANGED vars
  BY <1>5 DEF vars, MeansInv, AverageBetween
<1> QED BY <1>1, <1>2, <1>3, <1>4, <1>5 DEF Next

\* The running mean of a near miss's ages, kept in words whose differences are
\* read with sign, stays between the least and the greatest of them, whatever
\* the clock is set to (the incremental mean of nm_violation_logger).
THEOREM MeansBetween == Spec => []AverageBetween
<1>1. MeansInv => AverageBetween
  BY DEF MeansInv
<1> QED BY <1>1, MeansInit, MeansNext, PTL DEF Spec

\* The flush finds stale an entry older than the threshold, one whose time is
\* yet to come, and no other (the two differences without sign of
\* flush_shm_log).
THEOREM StaleIsOld == Spec => []StaleUnlessRecent
<1>1. MeansInv => StaleUnlessRecent
  <2> SUFFICES ASSUME MeansInv, entry.by # Nobody
               PROVE IsStale(entry) <=> TrueAge(entry) \notin 0 .. NEAR_MISS_THRESHOLD
    BY DEF StaleUnlessRecent
  <2>1. /\ TrueAge(entry) \in Ages
        /\ Age(entry) = IF TrueAge(entry) >= 0 THEN TrueAge(entry) ELSE TrueAge(entry) + Word
    BY AgeReads DEF MeansInv
  <2>2. TrueAge(entry) \in Int /\ - HalfWord <= TrueAge(entry)
    BY <2>1, Widths DEF Ages
  <2>3. NEAR_MISS_THRESHOLD \in Nat /\ NEAR_MISS_THRESHOLD < HalfWord
    BY DelaysAssumption
  <2> QED BY <2>1, <2>2, <2>3, Widths DEF IsStale
<1> QED BY <1>1, MeansInit, MeansNext, PTL DEF Spec
=============================================================================
