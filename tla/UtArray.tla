------------------------------ MODULE UtArray --------------------------------
(***************************************************************************)
(* The macros of utarray.h.  An array is the struct's i (index of the next *)
(* available slot) and n (slots), and its d.  The client erases, pops and  *)
(* inserts within what the macros take on trust: no more than there is,    *)
(* and never an array into the middle of itself.                           *)
(***************************************************************************)
EXTENDS Slots, Integers, Sequences, FiniteSets

CONSTANTS
  InitialSlots,   \* 8 in utarray_reserve; not 0
  MaxLen          \* bound of the model: the client's longest array

VARIABLES a, w   \* two arrays; w is what inserta and concat put into a

vars == <<a, w>>

NoArray == [i |-> 0, n |-> 0, d |-> [k \in 0 .. -1 |-> Raw]]

-----------------------------------------------------------------------------
(* One array *)

Doubled(m) == IF m = 0 THEN InitialSlots ELSE 2 * m
Reallocated(arr, m) ==
  [arr EXCEPT !.n = m, !.d = [k \in 0 .. m - 1 |-> IF k < arr.n THEN arr.d[k] ELSE Raw]]

\* realloc: doubled until it is enough.
Enough(need) == LET from[m \in Nat] == IF need <= m THEN m ELSE from[Doubled(m)] IN from

utarray_reserve_Once(arr, by) ==
  Reallocated(arr, IF arr.i + by <= arr.n THEN arr.n ELSE Doubled(arr.n))
utarray_reserve(arr, by) == Reallocated(arr, Enough(arr.i + by)[arr.n])

Destroyed(d, lo, hi) == [k \in DOMAIN d |-> IF k \in lo .. hi - 1 THEN icd_dtor(d[k]) ELSE d[k]]

\* The elements are then in their new slots; one that was there is lost.
Memmove(d, to, from, len) ==
  LET src == from .. from + len - 1
      dst == to .. to + len - 1
  IN  [k \in DOMAIN d \cup dst |->
         IF k \in dst THEN IF k \in src \/ d[k] = Raw THEN d[k - to + from] ELSE Bad
         ELSE IF k \in src THEN Raw ELSE d[k]]

utarray_push_back(arr, p) ==
  LET r == utarray_reserve(arr, 1)
  IN  [r EXCEPT !.d[r.i] = icd_copy(@, p), !.i = @ + 1]

utarray_extend_back(arr) ==
  LET r == utarray_reserve(arr, 1)
  IN  [r EXCEPT !.d[r.i] = icd_init(@), !.i = @ + 1]

utarray_pop_back(arr) == [arr EXCEPT !.d[arr.i - 1] = icd_dtor(@), !.i = @ - 1]

utarray_resize(arr, num) ==
  LET r == utarray_reserve(arr, num - arr.i)
  IN  IF arr.i > num THEN [arr EXCEPT !.d = Destroyed(@, num, arr.i), !.i = num]
      ELSE IF arr.i < num
      THEN [r EXCEPT !.d = [k \in DOMAIN @ |-> IF k \in arr.i .. num - 1
                                               THEN icd_init(@[k]) ELSE @[k]],
                     !.i = num]
      ELSE arr

\* The elements at j and after make room for len more.
Opened(arr, j, len) ==
  LET r == utarray_reserve(IF j > arr.i THEN utarray_resize(arr, j) ELSE arr, len)
  IN  IF j < r.i THEN [r EXCEPT !.d = Memmove(@, j + len, j, r.i - j)] ELSE r

utarray_insert(arr, p, j) ==
  [Opened(arr, j, 1) EXCEPT !.d[j] = icd_copy(@, p), !.i = @ + 1]

utarray_inserta(arr, src, j) ==
  LET r == Opened(arr, j, src.i)
  IN  IF src.i = 0 THEN arr
      ELSE [r EXCEPT !.d = [k \in DOMAIN @ |-> IF k \in j .. j + src.i - 1
                                               THEN icd_copy(@[k], src.d[k - j]) ELSE @[k]],
                     !.i = @ + src.i]

utarray_concat(dst, src) == utarray_inserta(dst, src, dst.i)

utarray_erase_NoMove(arr, pos, len) ==
  [arr EXCEPT !.d = Destroyed(@, pos, pos + len), !.i = @ - len]

utarray_erase(arr, pos, len) ==
  LET d == Destroyed(arr.d, pos, pos + len)
  IN  [arr EXCEPT !.d = IF arr.i > pos + len
                        THEN Memmove(d, pos, pos + len, arr.i - (pos + len)) ELSE d,
                  !.i = @ - len]

utarray_clear(arr) == [arr EXCEPT !.d = Destroyed(@, 0, arr.i), !.i = 0]

\* qsort; elements that compare equal are the same.
Rank(arr, k) == Cardinality({ j \in 0 .. arr.i - 1 :
                  arr.d[j] < arr.d[k] \/ (arr.d[j] = arr.d[k] /\ j < k) })
utarray_sort(arr) ==
  LET sorted(k) == arr.d[CHOOSE j \in 0 .. arr.i - 1 : Rank(arr, j) = k]
  IN  [arr EXCEPT !.d = [k \in DOMAIN @ |-> IF k < arr.i THEN sorted(k) ELSE @[k]]]

\* A pointer to an element is the index of its slot.
utarray_front(arr) == IF arr.i # 0 THEN 0 ELSE NULL
utarray_back(arr) == IF arr.i # 0 THEN arr.i - 1 ELSE NULL
utarray_next_PastEnd(arr, e) == IF e = NULL THEN utarray_front(arr)
                                ELSE IF arr.n # e + 1 THEN e + 1 ELSE NULL
utarray_next(arr, e) == IF e = NULL THEN utarray_front(arr)
                        ELSE IF arr.i # e + 1 THEN e + 1 ELSE NULL
utarray_prev(arr, e) == IF e = NULL THEN utarray_back(arr)
                        ELSE IF e # 0 THEN e - 1 ELSE NULL

-----------------------------------------------------------------------------
(* The client *)

Init == a = NoArray /\ w = NoArray

\* done and init: a new array.
Recreate == a' = NoArray

PushBack(p) == a.i < MaxLen /\ a' = utarray_push_back(a, p)
ExtendBack == a.i < MaxLen /\ a' = utarray_extend_back(a)
PopBack == a.i > 0 /\ a' = utarray_pop_back(a)
Resize == \E num \in 0 .. MaxLen : a' = utarray_resize(a, num)
Insert(p) == \E j \in 0 .. MaxLen - 1 : a.i < MaxLen /\ a' = utarray_insert(a, p, j)
InsertA == \E j \in 0 .. MaxLen - w.i : a.i + w.i <= MaxLen /\ a' = utarray_inserta(a, w, j)
Concat == \E src \in {a, w} : a.i + src.i <= MaxLen /\ a' = utarray_concat(a, src)
Erase == \E pos \in 0 .. a.i - 1 : \E len \in 1 .. a.i - pos : a' = utarray_erase(a, pos, len)
Clear == a' = utarray_clear(a)
Sort == a' = utarray_sort(a)

FillW == \E p \in Values : w.i < 2 /\ w' = utarray_push_back(w, p)

Next ==
  \/ /\ \/ \E p \in Values : PushBack(p) \/ Insert(p)
        \/ ExtendBack \/ PopBack \/ Resize \/ InsertA \/ Concat
        \/ Erase \/ Clear \/ Sort \/ Recreate
     /\ UNCHANGED w
  \/ FillW /\ UNCHANGED a

Spec == Init /\ [][Next]_vars

-----------------------------------------------------------------------------
(* Properties *)

\* Nothing is written past the slots that were allocated, and an element is
\* constructed and destroyed exactly once: the first i slots hold elements,
\* the others are raw.
SlotsExact ==
  /\ a.i <= a.n /\ DOMAIN a.d = 0 .. a.n - 1
  /\ \A k \in DOMAIN a.d : IF k < a.i THEN a.d[k] \in Elements ELSE a.d[k] = Raw

\* next(NULL), next, ... meets every element once, front to back, and ends;
\* prev meets the same ones from the back.
WalksMirror ==
  LET forth[k \in 0 .. a.n + 1] == IF k = 0 THEN NULL ELSE utarray_next(a, forth[k - 1])
      back[k \in 0 .. a.n + 1] == IF k = 0 THEN NULL ELSE utarray_prev(a, back[k - 1])
  IN  /\ forth[a.i + 1] = NULL /\ back[a.i + 1] = NULL
      /\ { forth[k] : k \in 1 .. a.i } = 0 .. a.i - 1
      /\ \A k \in 1 .. a.i : forth[k] = back[a.i + 1 - k]

\* The array is the sequence of the copies put in it.
ValuesOf(arr) == [k \in 1 .. arr.i |-> arr.d[k - 1]]
Vector == INSTANCE Vectors WITH items <- ValuesOf(a), from <- ValuesOf(w)
ImplementsVector == Vector!Spec
=============================================================================
