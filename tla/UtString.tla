------------------------------ MODULE UtString -------------------------------
(***************************************************************************)
(* The macros and functions of utstring.h on one string s, and a second    *)
(* one that is appended to it.  A character that nothing has written is    *)
(* Garbage.  The allocator does not fail.  A search starts at a character  *)
(* of the string: the functions do not check.                              *)
(***************************************************************************)
EXTENDS Integers, Sequences, FiniteSets

CONSTANTS
  Chars,
  NUL, Garbage,  \* two more, that are not in Chars
  InitialSize,   \* 100 in utstring_init; not 0
  MaxLen,        \* bound of the model: the client's longest string
  MaxNeedle      \* bound of the model: the longest needle

VARIABLES s, other

vars == <<s, other>>

Texts(k) == UNION { [1 .. m -> Chars] : m \in 0 .. k }

-----------------------------------------------------------------------------
(* Building: s.i characters of the s.n of s.d, from 0 *)

\* realloc, to m characters
Reallocated(str, m) ==
  [str EXCEPT !.n = m, !.d = [k \in 0 .. m - 1 |-> IF k < str.n THEN str.d[k] ELSE Garbage]]

utstring_reserve(str, amt) ==
  IF str.n - str.i >= amt THEN str ELSE Reallocated(str, str.n + amt)

\* Text and a NUL at i; what is past the allocation is not d's.
Put(str, text) ==
  [str EXCEPT !.i = @ + Len(text),
              !.d = [k \in DOMAIN @ \cup str.i .. str.i + Len(text) |->
                       IF k < str.i THEN @[k]
                       ELSE IF k < str.i + Len(text) THEN text[k - str.i + 1]
                       ELSE IF k = str.i + Len(text) THEN NUL ELSE @[k]]]

utstring_init ==
  Put(utstring_reserve([i |-> 0, n |-> 0, d |-> [k \in 0 .. -1 |-> NUL]], InitialSize), <<>>)

utstring_clear_LengthKept(str) == [str EXCEPT !.d[0] = NUL]
utstring_clear(str) == [str EXCEPT !.i = 0, !.d[0] = NUL]
utstring_bincpy_NoNul(str, b) == Put(utstring_reserve(str, Len(b)), b)
utstring_bincpy(str, b) == Put(utstring_reserve(str, Len(b) + 1), b)

utstring_body(str) == [k \in 1 .. str.i |-> str.d[k - 1]]
utstring_concat(dst, src) == Put(utstring_reserve(dst, src.i + 1), utstring_body(src))

utstring_printf_va_NotAgain(str, text, reports) ==
  LET space == str.n - str.i - 1
  IN  Put(str, SubSeq(text, 1, IF Len(text) < space THEN Len(text) ELSE space))
\* vsnprintf reports the length of text, or -1 when it does not fit, until
\* text and its NUL fit.
utstring_printf_va(str, text, reports) ==
  LET fits(t) == Len(text) < t.n - t.i
      grown[size \in Nat] ==
        LET t == Reallocated(str, size)
        IN  IF fits(t) THEN t
            ELSE grown[utstring_reserve(t, IF reports THEN Len(text) + 1 ELSE 2 * t.n).n]
  IN  Put(grown[str.n], text)

-----------------------------------------------------------------------------
(* Searching: needles, haystacks and tables are indexed from 0, as in C *)

\* The while loops that follow the table until the needle's character is c.
Fallback(needle, len, table, c, i) ==
  LET f[k \in -1 .. len] == IF k = -1 \/ needle[k] = c THEN k ELSE f[table[k]]
  IN  f[i]

FallbackR(needle, len, table, c, i) ==
  LET f[k \in -1 .. len] == IF k = len \/ needle[k] = c THEN k ELSE f[table[k + 1]]
  IN  f[i]

\* What is built of the table after i turns, and the length matched there.
BuildStep_NoStep(needle, len, acc, i) ==
  LET j == Fallback(needle, len, acc.table, needle[i - 1], acc.j)
  IN  [j |-> j, table |-> [acc.table EXCEPT ![i] = j]]
BuildStep(needle, len, acc, i) ==
  LET j == Fallback(needle, len, acc.table, needle[i - 1], acc.j) + 1
      skip == i < len /\ needle[i] = needle[j]
  IN  [j |-> j, table |-> [acc.table EXCEPT ![i] = IF skip THEN acc.table[j] ELSE j]]

_utstring_BuildTable(needle, len) ==
  LET built[i \in 0 .. len] ==
        IF i = 0 THEN [j |-> -1, table |-> [k \in 0 .. len |-> -1]]
        ELSE BuildStep(needle, len, built[i - 1], i)
  IN  built[len].table

BuildStepR(needle, len, acc, i) ==
  LET j == FallbackR(needle, len, acc.table, needle[i + 1], acc.j) - 1
      skip == i >= 0 /\ needle[i] = needle[j]
  IN  [j |-> j, table |-> [acc.table EXCEPT ![i + 1] = IF skip THEN acc.table[j + 1] ELSE j]]

_utstring_BuildTableR(needle, len) ==
  LET built[k \in 0 .. len] ==
        IF k = 0 THEN [j |-> len, table |-> [m \in 0 .. len |-> len]]
        ELSE BuildStepR(needle, len, built[k - 1], len - 1 - k)
  IN  built[len].table

\* -1 when there is none.
_utstring_find(hay, hayLen, needle, len, table) ==
  LET at[ij \in (0 .. len) \X (0 .. hayLen)] ==
        LET i == ij[1]
            j == ij[2]
        IN  IF i >= len THEN j - i
            ELSE IF j < hayLen /\ hayLen - j + i >= len
            THEN at[<<Fallback(needle, len, table, hay[j], i) + 1, j + 1>>]
            ELSE -1
  IN  at[<<0, 0>>]

_utstring_findR_TooSoon(hay, hayLen, needle, len, table) ==
  LET at[ij \in (-1 .. len - 1) \X (-1 .. hayLen - 1)] ==
        LET i == ij[1]
            j == ij[2]
        IN  IF i < 0 THEN j + 1
            ELSE IF j > i THEN at[<<FallbackR(needle, len, table, hay[j], i) - 1, j - 1>>]
            ELSE -1
  IN  at[<<len - 1, hayLen - 1>>]

_utstring_findR(hay, hayLen, needle, len, table) ==
  LET at[ij \in (-1 .. len - 1) \X (-1 .. hayLen - 1)] ==
        LET i == ij[1]
            j == ij[2]
        IN  IF i < 0 THEN j + 1
            ELSE IF j >= 0 /\ j >= i
            THEN at[<<FallbackR(needle, len, table, hay[j], i) - 1, j - 1>>]
            ELSE -1
  IN  at[<<len - 1, hayLen - 1>>]

\* From start to the end; a negative start counts from the end.
utstring_find(str, start, needle, len) ==
  LET from == IF start < 0 THEN str.i + start ELSE start
      hayLen == str.i - from
      pos == _utstring_find([k \in 0 .. hayLen - 1 |-> str.d[from + k]], hayLen,
                            needle, len, _utstring_BuildTable(needle, len))
  IN  IF hayLen < len \/ len = 0 \/ pos < 0 THEN -1 ELSE pos + from

\* From the beginning to start.
utstring_findR(str, start, needle, len) ==
  LET from == IF start < 0 THEN str.i + start ELSE start
      hayLen == from + 1
  IN  IF hayLen < len \/ len = 0 THEN -1
      ELSE _utstring_findR(str.d, hayLen, needle, len, _utstring_BuildTableR(needle, len))

-----------------------------------------------------------------------------
(* The client *)

Init == s = utstring_init /\ other = utstring_init

Room(k) == s.i + k <= MaxLen

Printf(text, reports) ==
  Room(Len(text)) /\ s' = utstring_printf_va(s, text, reports)
Bincpy(b) == Room(Len(b)) /\ s' = utstring_bincpy(s, b)
Concat(src) == Room(src.i) /\ s' = utstring_concat(s, src)
Clear == s' = utstring_clear(s)
Renew == s' = utstring_init
FillOther(b) == other.i < 2 /\ other' = utstring_bincpy(other, b)

Next ==
  \/ /\ \/ \E text \in Texts(2), reports \in BOOLEAN : Printf(text, reports)
        \/ \E b \in Texts(2) : Bincpy(b)
        \/ \E src \in {s, other} : Concat(src)
        \/ Clear \/ Renew
     /\ UNCHANGED other
  \/ (\E b \in Texts(1) : FillOther(b)) /\ UNCHANGED s
Spec == Init /\ [][Next]_vars

-----------------------------------------------------------------------------
(* Properties *)

\* The buffer always has room for the characters and the NUL after them, and
\* nothing is written past it: the body is a string.
Terminated ==
  /\ s.i < s.n /\ DOMAIN s.d = 0 .. s.n - 1
  /\ s.d[s.i] = NUL
  /\ \A k \in 0 .. s.i - 1 : s.d[k] \in Chars

\* Each operation appends what it was given, all of it and once, wherever the
\* buffer moved and however often vsnprintf ran: printf the text it formats,
\* bincpy its argument, concat the body of the other string or of the string
\* itself.  Clearing and initialising leave an empty body.
Gains(str, text) == utstring_body(str)' = utstring_body(str) \o text

GainsItsText ==
  /\ \A text \in Texts(2), reports \in BOOLEAN : Printf(text, reports) => Gains(s, text)
  /\ \A b \in Texts(2) : Bincpy(b) => Gains(s, b)
  /\ \A src \in {s, other} : Concat(src) => Gains(s, utstring_body(src))
  /\ Clear \/ Renew => utstring_body(s)' = <<>>
  /\ \A b \in Texts(1) : FillOther(b) => Gains(other, b)

AppendsExactly == [][GainsItsText]_vars

Needles == Texts(MaxNeedle) \ {<<>>}
FromZero(text) == [k \in 0 .. Len(text) - 1 |-> text[k + 1]]

\* Where text occurs in the body, as offsets from 0.
Occurrences(text) ==
  { k \in 0 .. s.i - Len(text) : \A m \in 1 .. Len(text) : s.d[k + m - 1] = text[m] }

\* The first occurrence that starts at or after the start position, or -1.
FindsFirst ==
  \A text \in Needles, start \in - s.i .. s.i - 1 :
    LET from == IF start < 0 THEN s.i + start ELSE start
        there == { k \in Occurrences(text) : k >= from }
        pos == utstring_find(s, start, FromZero(text), Len(text))
    IN  IF there = {} THEN pos = -1 ELSE pos \in there /\ \A k \in there : pos <= k

\* The last occurrence that ends at or before the start position, or -1.
FindsLast ==
  \A text \in Needles, start \in - s.i .. s.i - 1 :
    LET from == IF start < 0 THEN s.i + start ELSE start
        there == { k \in Occurrences(text) : k + Len(text) - 1 <= from }
        pos == utstring_findR(s, start, FromZero(text), Len(text))
    IN  IF there = {} THEN pos = -1 ELSE pos \in there /\ \A k \in there : pos >= k
=============================================================================
