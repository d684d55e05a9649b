--------------------------- MODULE ContainersProofs ---------------------------
(***************************************************************************)
(* The array, the ring buffer, the stack and the string of the ut          *)
(* headers, each with any constants: their slots, their walks, and the     *)
(* searches in a string.  What their loops do is proved by induction over  *)
(* the naturals, which is here a fact about sets of naturals.              *)
(***************************************************************************)
EXTENDS Containers, Sequences, FiniteSetTheorems, SequenceTheorems,
        WellFoundedInduction, TLAPS

-----------------------------------------------------------------------------
(* Induction, and functions defined by recursion *)

LEMMA LeastNatural ==
  ASSUME NEW T \in SUBSET Nat, T # {}
  PROVE  \E n \in T : \A m \in T : n <= m
<1>1. IsWellFoundedOn(OpToRel(<, Nat), Nat)
  BY NatLessThanWellFounded
<1>2. PICK x \in T : \A y \in T : ~ (<<y, x>> \in OpToRel(<, Nat))
  BY <1>1, WFMin
<1>3. \A y \in Nat : y < x => <<y, x>> \in OpToRel(<, Nat)
  BY DEF OpToRel
<1>4. \A y \in T : ~ (y < x)
  BY <1>2, <1>3
<1> QED BY <1>4

LEMMA Induction ==
  ASSUME NEW P, 0 \in P, \A n \in Nat : n \in P => n + 1 \in P
  PROVE  \A n \in Nat : n \in P
<1> SUFFICES ASSUME NEW n \in Nat, n \notin P PROVE FALSE
  OBVIOUS
<1> DEFINE T == Nat \ P
<1>1. PICK m \in T : \A k \in T : m <= k
  BY LeastNatural
<1>2. m # 0 /\ m - 1 \in Nat
  BY <1>1
<1>3. m - 1 \in P
  BY <1>1, <1>2
<1> QED BY <1>1, <1>2, <1>3

\* A loop that goes up, from m to up[m], until it is in G, and gives val of
\* where it ends: past top it has ended.
Loop(G, up, top) ==
  /\ G \in SUBSET Nat /\ up \in [Nat -> Nat] /\ top \in Nat
  /\ \A m \in Nat : m \notin G => m < top /\ up[m] >= m

Computes(f, G, up, val) ==
  DOMAIN f = Nat /\ \A m \in Nat : f[m] = IF m \in G THEN val[m] ELSE f[up[m]]

\* From low on it goes up at every turn.
Rises(G, up, low) == \A m \in Nat : m \notin G /\ m >= low => up[m] > m

LEMMA LoopDefined ==
  ASSUME NEW G, NEW up, NEW val, NEW top, NEW R, Loop(G, up, top), val \in [Nat -> R]
  PROVE  \E f \in [Nat -> R] : Computes(f, G, up, val)
<1> USE DEF Loop
<1> DEFINE Right(f, m) == f[m] = IF m \in G THEN val[m] ELSE f[up[m]]
           P == { j \in Nat : \E f \in [Nat -> R] : \A m \in Nat : m + j >= top => Right(f, m) }
<1>1. 0 \in P
  <2>1. \A m \in Nat : m + 0 >= top => Right(val, m)
    OBVIOUS
  <2> QED BY <2>1
<1>2. ASSUME NEW j \in Nat, j \in P PROVE j + 1 \in P
  <2>1. PICK f \in [Nat -> R] : \A m \in Nat : m + j >= top => Right(f, m)
    BY <1>2
  <2> DEFINE at == top - (j + 1)
             g == [m \in Nat |-> IF m = at THEN IF m \in G THEN val[m] ELSE f[up[m]] ELSE f[m]]
  <2>2. g \in [Nat -> R]
    OBVIOUS
  <2>3. ASSUME NEW m \in Nat, m + (j + 1) >= top PROVE Right(g, m)
    <3>1. CASE m \in G
      <4>1. CASE m = at
        BY <3>1, <4>1
      <4>2. CASE m # at
        BY <2>1, <2>3, <3>1, <4>2
      <4> QED BY <4>1, <4>2
    <3>2. CASE m \notin G /\ m = at
      <4>1. g[m] = f[up[m]] /\ up[m] \in Nat
        BY <3>2
      <4>2. CASE up[m] = m
        BY <4>1, <4>2, <3>2
      <4>3. CASE up[m] # m
        BY <4>1, <4>3, <3>2
      <4> QED BY <4>2, <4>3
    <3>3. CASE m \notin G /\ m # at
      <4>1. m + j >= top /\ up[m] >= m /\ up[m] # at /\ up[m] \in Nat
        BY <2>3, <3>3
      <4>2. f[m] = f[up[m]]
        BY <2>1, <3>3, <4>1
      <4> QED BY <3>3, <4>1, <4>2
    <3> QED BY <3>1, <3>2, <3>3
  <2> HIDE DEF g, Right
  <2> QED BY <2>2, <2>3
<1>3. \A j \in Nat : j \in P
  <2> HIDE DEF P
  <2> QED BY <1>1, <1>2, Induction
<1>4. PICK f \in [Nat -> R] : \A m \in Nat : m + top >= top => Right(f, m)
  BY <1>3
<1> QED BY <1>4 DEF Computes

\* And where a loop that goes up ends, is the function's value.
LEMMA LoopEnds ==
  ASSUME NEW G, NEW up, NEW val, NEW top, Loop(G, up, top),
         NEW low \in Nat, Rises(G, up, low), NEW f, Computes(f, G, up, val),
         NEW start \in Nat, start >= low
  PROVE  \E x \in Nat : x >= start /\ x \in G /\ f[start] = val[x]
<1> USE DEF Loop, Rises, Computes
<1> DEFINE Ends(m) == \E x \in Nat : x >= m /\ x \in G /\ f[m] = val[x]
           P == { j \in Nat : \A m \in Nat : m >= low /\ m + j >= top => Ends(m) }
<1>1. 0 \in P
  OBVIOUS
<1>2. ASSUME NEW j \in Nat, j \in P PROVE j + 1 \in P
  <2> SUFFICES ASSUME NEW m \in Nat, m >= low, m + (j + 1) >= top PROVE Ends(m)
    OBVIOUS
  <2>1. CASE m \in G
    BY <2>1
  <2>2. CASE m \notin G
    <3>1. up[m] \in Nat /\ up[m] > m /\ f[m] = f[up[m]]
      BY <2>2
    <3>2. Ends(up[m])
      BY <1>2, <3>1
    <3> QED BY <3>1, <3>2
  <2> QED BY <2>1, <2>2
<1>3. \A j \in Nat : j \in P
  <2> HIDE DEF P
  <2> QED BY <1>1, <1>2, Induction
<1>4. top \in P
  BY <1>3
<1> QED BY <1>4

Runs(f, G, up, val, top, low, start) ==
  /\ Loop(G, up, top) /\ Rises(G, up, low) /\ Computes(f, G, up, val)
  /\ low \in Nat /\ start \in Nat /\ start >= low

LEMMA LoopStops ==
  ASSUME NEW f, NEW G, NEW up, NEW val, NEW top, NEW low, NEW start,
         Runs(f, G, up, val, top, low, start)
  PROVE  \E x \in Nat : x >= start /\ x \in G /\ f[start] = val[x]
BY LoopEnds DEF Runs

-----------------------------------------------------------------------------
(* One array *)

IsArray(x) ==
  /\ x = [i |-> x.i, n |-> x.n, d |-> x.d]
  /\ x.i \in Nat /\ x.n \in Nat /\ x.i <= x.n
  /\ x.d \in [0 .. x.n - 1 -> Array!Slot]
  /\ \A k \in 0 .. x.n - 1 : IF k < x.i THEN x.d[k] \in Array!Elements ELSE x.d[k] = Raw

LEMMA ElementsFacts ==
  ASSUME ArrayAssumption
  PROVE  /\ Array!Elements \subseteq Array!Slot /\ Raw \in Array!Slot
         /\ Raw \notin Array!Elements /\ Values \subseteq Array!Elements
         /\ Zero \in Array!Elements /\ Array!Elements \subseteq Int
BY DEF ArrayAssumption, Array!Elements, Array!Slot

\* Doubling ends with enough slots, and no fewer than there were.
LEMMA EnoughSuffices ==
  ASSUME ArrayAssumption, NEW need \in Int, NEW m \in Nat
  PROVE  /\ Array!Enough(need)[m] \in Nat
         /\ Array!Enough(need)[m] >= m /\ Array!Enough(need)[m] >= need
<1> DEFINE G == { k \in Nat : need <= k }
           up == [k \in Nat |-> Array!Doubled(k)]
           val == [k \in Nat |-> k]
           top == IF need > 0 THEN need ELSE 0
           Body(f) == [k \in Nat |-> IF need <= k THEN k ELSE f[Array!Doubled(k)]]
           f0 == CHOOSE f : f = Body(f)
<1>1. up \in [Nat -> Nat] /\ \A k \in Nat : up[k] > k
  BY DEF ArrayAssumption, Array!Doubled
<1>2. top \in Nat /\ val \in [Nat -> Nat] /\ \A k \in Nat : k \notin G => k < top
  OBVIOUS
<1>3. Loop(G, up, top) /\ Rises(G, up, 0)
  BY <1>1, <1>2 DEF Loop, Rises
<1>4. PICK g \in [Nat -> Nat] : Computes(g, G, up, val)
  <2> HIDE DEF up, G, val, top
  <2> QED BY <1>2, <1>3, LoopDefined
<1>5. g = Body(g)
  BY <1>4 DEF Computes
<1>6. f0 = Body(f0)
  <2> HIDE DEF Body
  <2> QED BY <1>5
<1>7. Array!Enough(need) = f0
  BY DEF Array!Enough
<1> HIDE DEF f0
<1>8. Computes(f0, G, up, val)
  BY <1>6 DEF Computes
<1>9. \E x \in Nat : x >= m /\ x \in G /\ f0[m] = val[x]
  <2> HIDE DEF up, G, val, top
  <2> QED BY <1>1, <1>3, <1>8, LoopEnds
<1> QED BY <1>7, <1>9

LEMMA ReserveKeeps ==
  ASSUME ArrayAssumption, NEW x, IsArray(x), NEW by \in Int
  PROVE  LET r == Array!utarray_reserve(x, by)
         IN  /\ IsArray(r) /\ r.i = x.i /\ r.n >= x.n /\ r.n >= x.i + by
             /\ \A k \in 0 .. x.i - 1 : r.d[k] = x.d[k]
<1> DEFINE m == Array!Enough(x.i + by)[x.n]
           r == Array!utarray_reserve(x, by)
<1>1. m \in Nat /\ m >= x.n /\ m >= x.i + by
  <2>1. x.i + by \in Int /\ x.n \in Nat
    BY DEF IsArray
  <2> QED BY <2>1, EnoughSuffices
<1>2. r = [i |-> x.i, n |-> m, d |-> [k \in 0 .. m - 1 |-> IF k < x.n THEN x.d[k] ELSE Raw]]
  <2>1. r = Array!Reallocated(x, m)
    BY DEF Array!utarray_reserve
  <2> HIDE DEF m, r
  <2> QED BY <2>1 DEF IsArray, Array!Reallocated
<1> HIDE DEF m, r
<1>3. r.i = x.i /\ r.n = m /\ r.d = [k \in 0 .. m - 1 |-> IF k < x.n THEN x.d[k] ELSE Raw]
  BY <1>2
<1>4. \A k \in 0 .. m - 1 : r.d[k] = IF k < x.n THEN x.d[k] ELSE Raw
  BY <1>3
<1>5. r.d \in [0 .. m - 1 -> Array!Slot]
  BY <1>1, <1>3, ElementsFacts DEF IsArray
<1>6. \A k \in 0 .. m - 1 : IF k < x.i THEN r.d[k] \in Array!Elements ELSE r.d[k] = Raw
  BY <1>1, <1>4 DEF IsArray
<1>7. IsArray(r)
  BY <1>1, <1>2, <1>3, <1>5, <1>6 DEF IsArray
<1>8. \A k \in 0 .. x.i - 1 : r.d[k] = x.d[k]
  BY <1>1, <1>4 DEF IsArray
<1> QED BY <1>1, <1>3, <1>7, <1>8 DEF r

\* What holds of a record that has these fields, and these slots.
LEMMA ArrayOf ==
  ASSUME NEW x, NEW c \in Nat, NEW m \in Nat, c <= m, NEW slot \in [0 .. m - 1 -> Array!Slot],
         x = [i |-> c, n |-> m, d |-> slot],
         \A k \in 0 .. m - 1 : IF k < c THEN slot[k] \in Array!Elements ELSE slot[k] = Raw
  PROVE  IsArray(x) /\ x.i = c /\ x.n = m /\ x.d = slot
BY DEF IsArray

\* A structure after two of its fields are set.
LEMMA FieldsSet ==
  ASSUME NEW x, x = [i |-> x.i, n |-> x.n, d |-> x.d], NEW c, NEW slot
  PROVE  [x EXCEPT !.d = slot, !.i = c] = [i |-> c, n |-> x.n, d |-> slot]
<1>1. DOMAIN x = {"i", "n", "d"}
  OBVIOUS
<1>2. [x EXCEPT !.d = slot, !.i = c]
        = [g \in {"i", "n", "d"} |-> IF g = "i" THEN c ELSE IF g = "d" THEN slot ELSE x.n]
  BY <1>1
<1> QED BY <1>2

LEMMA PushKeeps ==
  ASSUME ArrayAssumption, NEW x, IsArray(x), NEW p \in Array!Elements
  PROVE  LET r == Array!utarray_push_back(x, p)
         IN  /\ IsArray(r) /\ r.i = x.i + 1
             /\ \A k \in 0 .. x.i : r.d[k] = IF k < x.i THEN x.d[k] ELSE p
<1> DEFINE q == Array!utarray_reserve(x, 1)
           r == Array!utarray_push_back(x, p)
           slot == [q.d EXCEPT ![x.i] = p]
<1>1. /\ IsArray(q) /\ q.i = x.i /\ q.n >= x.i + 1
      /\ \A k \in 0 .. x.i - 1 : q.d[k] = x.d[k]
  BY ReserveKeeps
<1>2. r = [q EXCEPT !.d[q.i] = Array!icd_copy(@, p), !.i = @ + 1]
  BY DEF Array!utarray_push_back
<1> HIDE DEF q, r
<1>3. q.d[x.i] = Raw /\ x.i \in Nat /\ q.n \in Nat /\ q.d \in [0 .. q.n - 1 -> Array!Slot]
  BY <1>1 DEF IsArray
<1>4. r = [i |-> x.i + 1, n |-> q.n, d |-> slot]
  BY <1>1, <1>2, <1>3 DEF IsArray, Array!icd_copy
<1>5. slot \in [0 .. q.n - 1 -> Array!Slot]
  BY <1>3, ElementsFacts
<1>6. /\ \A k \in 0 .. q.n - 1 : slot[k] = IF k = x.i THEN p ELSE q.d[k]
      /\ \A k \in 0 .. q.n - 1 : IF k < x.i + 1 THEN slot[k] \in Array!Elements ELSE slot[k] = Raw
  BY <1>1, <1>3 DEF IsArray
<1> HIDE DEF slot
<1>7. IsArray(r) /\ r.i = x.i + 1 /\ r.d = slot
  BY <1>1, <1>3, <1>4, <1>5, <1>6, ArrayOf
<1>8. \A k \in 0 .. x.i : slot[k] = IF k < x.i THEN x.d[k] ELSE p
  <2> SUFFICES ASSUME NEW k \in 0 .. x.i
               PROVE  slot[k] = IF k < x.i THEN x.d[k] ELSE p
    OBVIOUS
  <2>1. k \in 0 .. q.n - 1 /\ (k = x.i \/ (k \in 0 .. x.i - 1 /\ k < x.i))
    BY <1>1, <1>3
  <2>2. slot[k] = IF k = x.i THEN p ELSE q.d[k]
    BY <2>1, <1>6
  <2> QED BY <2>1, <2>2, <1>1, <1>3
<1> QED BY <1>7, <1>8 DEF r

LEMMA ExtendIsPush ==
  ASSUME NEW x
  PROVE  Array!utarray_extend_back(x) = Array!utarray_push_back(x, Zero)
BY DEF Array!utarray_extend_back, Array!utarray_push_back, Array!icd_init

\* Destroying the elements from lo up to hi.
LEMMA DestroyedAre ==
  ASSUME ArrayAssumption, NEW x, IsArray(x), NEW lo \in Nat, NEW hi \in Nat, hi <= x.i
  PROVE  LET D == Array!Destroyed(x.d, lo, hi)
         IN  /\ D \in [0 .. x.n - 1 -> Array!Slot]
             /\ \A k \in 0 .. x.n - 1 : D[k] = IF lo <= k /\ k < hi THEN Raw ELSE x.d[k]
<1> DEFINE D == Array!Destroyed(x.d, lo, hi)
<1>1. D = [k \in 0 .. x.n - 1 |-> IF k \in lo .. hi - 1 THEN Array!icd_dtor(x.d[k]) ELSE x.d[k]]
  BY DEF IsArray, Array!Destroyed
<1> HIDE DEF D
<1>2. \A k \in lo .. hi - 1 : k \in 0 .. x.n - 1 /\ Array!icd_dtor(x.d[k]) = Raw
  BY DEF IsArray, Array!icd_dtor
<1>3. \A k \in 0 .. x.n - 1 : D[k] = IF lo <= k /\ k < hi THEN Raw ELSE x.d[k]
  BY <1>1, <1>2 DEF IsArray
<1>4. D \in [0 .. x.n - 1 -> Array!Slot]
  BY <1>1, <1>3, ElementsFacts DEF IsArray
<1> QED BY <1>3, <1>4 DEF D

\* Dropping the elements from num on.
Cut(x, num) == [x EXCEPT !.d = Array!Destroyed(@, num, x.i), !.i = num]

LEMMA CutKeeps ==
  ASSUME ArrayAssumption, NEW x, IsArray(x), NEW num \in Nat, num <= x.i
  PROVE  LET r == Cut(x, num)
         IN  IsArray(r) /\ r.i = num /\ \A k \in 0 .. num - 1 : r.d[k] = x.d[k]
<1> DEFINE D == Array!Destroyed(x.d, num, x.i)
           r == Cut(x, num)
<1>1. x.i \in Nat /\ x.n \in Nat /\ x.i <= x.n
  BY DEF IsArray
<1>2. /\ D \in [0 .. x.n - 1 -> Array!Slot]
      /\ \A k \in 0 .. x.n - 1 : D[k] = IF num <= k /\ k < x.i THEN Raw ELSE x.d[k]
  <2>1. x.i \in Nat /\ x.i <= x.i
    BY <1>1
  <2> QED BY <2>1, DestroyedAre
<1>3. r = [i |-> num, n |-> x.n, d |-> D]
  <2>1. x = [i |-> x.i, n |-> x.n, d |-> x.d]
    BY DEF IsArray
  <2>2. r = [x EXCEPT !.d = D, !.i = num]
    BY DEF Cut
  <2> HIDE DEF D, r
  <2> QED BY <2>1, <2>2
<1> HIDE DEF D, r
<1>4. \A k \in 0 .. x.n - 1 : IF k < num THEN D[k] \in Array!Elements ELSE D[k] = Raw
  BY <1>1, <1>2 DEF IsArray
<1>5. IsArray(r) /\ r.i = num /\ r.d = D
  BY <1>1, <1>2, <1>3, <1>4, ArrayOf
<1>6. \A k \in 0 .. num - 1 : D[k] = x.d[k]
  BY <1>1, <1>2
<1> QED BY <1>5, <1>6 DEF r

LEMMA PopKeeps ==
  ASSUME ArrayAssumption, NEW x, IsArray(x), x.i > 0
  PROVE  LET r == Array!utarray_pop_back(x)
         IN  IsArray(r) /\ r.i = x.i - 1 /\ \A k \in 0 .. x.i - 2 : r.d[k] = x.d[k]
<1> DEFINE c == x.i - 1
           slot == [x.d EXCEPT ![c] = Raw]
           r == Array!utarray_pop_back(x)
<1>1. /\ x.i \in Nat /\ x.n \in Nat /\ x.i <= x.n /\ c \in Nat /\ c \in 0 .. x.n - 1
      /\ x.d \in [0 .. x.n - 1 -> Array!Slot] /\ x.d[c] \in Array!Elements
  BY DEF IsArray
<1>2. r = [i |-> c, n |-> x.n, d |-> slot]
  <2>1. x = [i |-> x.i, n |-> x.n, d |-> x.d]
    BY DEF IsArray
  <2>2. r = [x EXCEPT !.d = [@ EXCEPT ![c] = Raw], !.i = c]
    BY <1>1 DEF Array!utarray_pop_back, Array!icd_dtor
  <2> QED BY <2>1, <2>2
<1>3. slot \in [0 .. x.n - 1 -> Array!Slot]
  BY <1>1, ElementsFacts
<1>4. \A k \in 0 .. x.n - 1 : slot[k] = IF k = c THEN Raw ELSE x.d[k]
  BY <1>1
<1> HIDE DEF slot, r
<1>5. \A k \in 0 .. x.n - 1 : IF k < c THEN slot[k] \in Array!Elements ELSE slot[k] = Raw
  BY <1>1, <1>4 DEF IsArray
<1>6. IsArray(r) /\ r.i = c /\ r.d = slot
  BY <1>1, <1>2, <1>3, <1>5, ArrayOf
<1>7. \A k \in 0 .. x.i - 2 : slot[k] = x.d[k]
  BY <1>1, <1>4
<1> QED BY <1>6, <1>7 DEF r

LEMMA ResizeKeeps ==
  ASSUME ArrayAssumption, NEW x, IsArray(x), NEW num \in Nat
  PROVE  LET r == Array!utarray_resize(x, num)
         IN  /\ IsArray(r) /\ r.i = num
             /\ \A k \in 0 .. num - 1 : r.d[k] = IF k < x.i THEN x.d[k] ELSE Zero
<1> DEFINE r == Array!utarray_resize(x, num)
<1>0. x.i \in Nat
  BY DEF IsArray
<1>1. CASE x.i > num
  <2>1. r = Cut(x, num)
    BY <1>1 DEF Array!utarray_resize, Cut
  <2> HIDE DEF r
  <2>2. IsArray(r) /\ r.i = num /\ \A k \in 0 .. num - 1 : r.d[k] = x.d[k]
    BY <1>0, <1>1, <2>1, CutKeeps
  <2> QED BY <1>0, <1>1, <2>2 DEF r
<1>2. CASE x.i < num
  <2> DEFINE q == Array!utarray_reserve(x, num - x.i)
             slot == [k \in 0 .. q.n - 1 |-> IF k \in x.i .. num - 1 THEN Zero ELSE q.d[k]]
  <2>1. /\ IsArray(q) /\ q.i = x.i /\ q.n >= num
        /\ \A k \in 0 .. x.i - 1 : q.d[k] = x.d[k]
    <3>1. num - x.i \in Int /\ x.i + (num - x.i) = num
      BY <1>0
    <3> QED BY <3>1, ReserveKeeps
  <2>2. r = [q EXCEPT !.d = [k \in DOMAIN @ |-> IF k \in x.i .. num - 1
                                                THEN Array!icd_init(@[k]) ELSE @[k]],
                      !.i = num]
    BY <1>0, <1>2 DEF Array!utarray_resize
  <2> HIDE DEF q, r
  <2>3. q.n \in Nat /\ \A k \in x.i .. num - 1 : k \in 0 .. q.n - 1 /\ q.d[k] = Raw
    BY <1>0, <2>1 DEF IsArray
  <2>4. r = [i |-> num, n |-> q.n, d |-> slot]
    BY <2>1, <2>2, <2>3 DEF IsArray, Array!icd_init, Array!icd_copy
  <2>5. \A k \in 0 .. q.n - 1 : slot[k] = IF k \in x.i .. num - 1 THEN Zero ELSE q.d[k]
    OBVIOUS
  <2>6. slot \in [0 .. q.n - 1 -> Array!Slot]
    BY <2>1, ElementsFacts DEF IsArray
  <2> HIDE DEF slot
  <2>7. \A k \in 0 .. q.n - 1 : IF k < num THEN slot[k] \in Array!Elements ELSE slot[k] = Raw
    BY <1>0, <1>2, <2>1, <2>3, <2>5, ElementsFacts DEF IsArray
  <2>8. IsArray(r) /\ r.i = num /\ r.d = slot
    BY <2>1, <2>3, <2>4, <2>6, <2>7, ArrayOf
  <2>9. \A k \in 0 .. num - 1 : slot[k] = IF k < x.i THEN x.d[k] ELSE Zero
    BY <1>0, <2>1, <2>3, <2>5
  <2> QED BY <2>8, <2>9 DEF r
<1>3. CASE x.i = num
  <2>1. r = x
    BY <1>3 DEF Array!utarray_resize
  <2> QED BY <1>0, <1>3, <2>1
<1> QED BY <1>0, <1>1, <1>2, <1>3

\* Whether the slots from to on are free, or are being moved.
MayMove(D, m, to, from, len) ==
  /\ m \in Nat /\ to \in Nat /\ from \in Nat /\ len \in Nat
  /\ D \in [0 .. m - 1 -> Array!Slot] /\ to + len <= m /\ from + len <= m
  /\ \A k \in to .. to + len - 1 : k \in from .. from + len - 1 \/ D[k] = Raw

LEMMA MemmoveIs ==
  ASSUME ArrayAssumption, NEW D, NEW m, NEW to, NEW from, NEW len, MayMove(D, m, to, from, len)
  PROVE  LET M == Array!Memmove(D, to, from, len)
         IN  /\ M \in [0 .. m - 1 -> Array!Slot]
             /\ \A k \in 0 .. m - 1 :
                  M[k] = IF k \in to .. to + len - 1 THEN D[k - to + from]
                         ELSE IF k \in from .. from + len - 1 THEN Raw ELSE D[k]
<1> USE DEF MayMove
<1> DEFINE M == Array!Memmove(D, to, from, len)
<1>1. DOMAIN D \cup (to .. to + len - 1) = 0 .. m - 1
  OBVIOUS
<1>2. M = [k \in 0 .. m - 1 |->
             IF k \in to .. to + len - 1 THEN D[k - to + from]
             ELSE IF k \in from .. from + len - 1 THEN Raw ELSE D[k]]
  BY <1>1 DEF Array!Memmove
<1> HIDE DEF M
<1>3. \A k \in to .. to + len - 1 : k - to + from \in 0 .. m - 1
  OBVIOUS
<1>4. M \in [0 .. m - 1 -> Array!Slot]
  BY <1>2, <1>3, ElementsFacts
<1> QED BY <1>2, <1>4 DEF M

LongerOf(c, j) == IF c < j THEN j ELSE c

\* The slot k of an array x in which there is a gap from j to j + len.
AroundGap(x, j, len, k) ==
  IF k < j THEN IF k < x.i THEN x.d[k] ELSE Zero ELSE x.d[k - len]

LEMMA OpenedIs ==
  ASSUME ArrayAssumption, NEW x, IsArray(x), NEW j \in Nat, NEW len \in Nat
  PROVE  LET r == Array!Opened(x, j, len)
             L == LongerOf(x.i, j)
         IN  /\ r = [i |-> L, n |-> r.n, d |-> r.d] /\ r.n \in Nat /\ r.n >= L + len
             /\ r.d \in [0 .. r.n - 1 -> Array!Slot]
             /\ \A k \in 0 .. r.n - 1 :
                  r.d[k] = IF k < L + len /\ k \notin j .. j + len - 1
                           THEN AroundGap(x, j, len, k) ELSE Raw
<1> DEFINE L == LongerOf(x.i, j)
           base == IF j > x.i THEN Array!utarray_resize(x, j) ELSE x
           q == Array!utarray_reserve(base, len)
           r == Array!Opened(x, j, len)
<1>0. x.i \in Nat /\ L \in Nat /\ (x.i < j => L = j) /\ (x.i >= j => L = x.i) /\ L >= j
  BY DEF IsArray, LongerOf
<1> HIDE DEF L
<1>1. /\ IsArray(base) /\ base.i = L
      /\ \A k \in 0 .. L - 1 : base.d[k] = IF k < x.i THEN x.d[k] ELSE Zero
  <2>1. CASE j > x.i
    <3>1. base = Array!utarray_resize(x, j)
      BY <2>1
    <3> HIDE DEF base
    <3>2. /\ IsArray(base) /\ base.i = j
          /\ \A k \in 0 .. j - 1 : base.d[k] = IF k < x.i THEN x.d[k] ELSE Zero
      BY <3>1, ResizeKeeps
    <3> QED BY <1>0, <2>1, <3>2
  <2>2. CASE ~ (j > x.i)
    <3>1. base = x
      BY <2>2
    <3> HIDE DEF base
    <3> QED BY <1>0, <2>2, <3>1
  <2> QED BY <1>0, <2>1, <2>2
<1> HIDE DEF base
<1>2. /\ IsArray(q) /\ q.i = L /\ q.n >= L + len
      /\ \A k \in 0 .. L - 1 : q.d[k] = base.d[k]
  <2>1. /\ IsArray(q) /\ q.i = base.i /\ q.n >= base.i + len
        /\ \A k \in 0 .. base.i - 1 : q.d[k] = base.d[k]
    <3>1. len \in Int
      OBVIOUS
    <3> QED BY <1>1, <3>1, ReserveKeeps
  <2> HIDE DEF q
  <2> QED BY <1>1, <2>1
<1>3. r = IF j < q.i THEN [q EXCEPT !.d = Array!Memmove(@, j + len, j, q.i - j)] ELSE q
  BY DEF Array!Opened, base
<1> HIDE DEF q, r
<1>4. /\ q = [i |-> L, n |-> q.n, d |-> q.d] /\ q.n \in Nat
      /\ q.d \in [0 .. q.n - 1 -> Array!Slot]
      /\ \A k \in 0 .. q.n - 1 :
           q.d[k] = IF k < L THEN IF k < x.i THEN x.d[k] ELSE Zero ELSE Raw
  <2>1. /\ q = [i |-> q.i, n |-> q.n, d |-> q.d] /\ q.n \in Nat
        /\ q.d \in [0 .. q.n - 1 -> Array!Slot]
        /\ \A k \in 0 .. q.n - 1 : k >= q.i => q.d[k] = Raw
    BY <1>2 DEF IsArray
  <2>2. \A k \in 0 .. L - 1 : q.d[k] = IF k < x.i THEN x.d[k] ELSE Zero
    BY <1>1, <1>2
  <2> QED BY <1>0, <1>2, <2>1, <2>2
<1>5. CASE j < L
  <2> DEFINE M == Array!Memmove(q.d, j + len, j, L - j)
  <2>1. L = x.i
    BY <1>0, <1>5
  <2>2. r = [q EXCEPT !.d = M]
    BY <1>2, <1>3, <1>5
  <2>3. \A k \in j + len .. j + len + (L - j) - 1 : k \in j .. j + (L - j) - 1 \/ q.d[k] = Raw
    <3> SUFFICES ASSUME NEW k \in j + len .. j + len + (L - j) - 1
                 PROVE  k \in j .. j + (L - j) - 1 \/ q.d[k] = Raw
      OBVIOUS
    <3>1. CASE k < L
      BY <1>0, <1>5, <3>1
    <3>2. CASE ~ (k < L)
      <4>1. k \in 0 .. q.n - 1
        BY <1>0, <1>2, <1>4, <1>5
      <4> QED BY <1>0, <1>4, <3>2, <4>1
    <3> QED BY <3>1, <3>2
  <2>4. /\ L - j \in Nat /\ j + len \in Nat /\ j + len + (L - j) <= q.n
        /\ j + (L - j) <= q.n
    BY <1>0, <1>2, <1>4, <1>5
  <2>5. /\ M \in [0 .. q.n - 1 -> Array!Slot]
        /\ \A k \in 0 .. q.n - 1 :
             M[k] = IF k \in j + len .. j + len + (L - j) - 1 THEN q.d[k - (j + len) + j]
                    ELSE IF k \in j .. j + (L - j) - 1 THEN Raw ELSE q.d[k]
    <3>1. MayMove(q.d, q.n, j + len, j, L - j)
      BY <1>4, <2>3, <2>4 DEF MayMove
    <3> QED BY <3>1, MemmoveIs
  <2> HIDE DEF M
  <2>6. \A k \in 0 .. q.n - 1 :
          M[k] = IF k < L + len /\ k \notin j .. j + len - 1
                 THEN AroundGap(x, j, len, k) ELSE Raw
    <3> SUFFICES ASSUME NEW k \in 0 .. q.n - 1
                 PROVE  M[k] = IF k < L + len /\ k \notin j .. j + len - 1
                               THEN AroundGap(x, j, len, k) ELSE Raw
      OBVIOUS
    <3>1. CASE k < j
      BY <1>0, <1>4, <1>5, <2>1, <2>5, <3>1 DEF AroundGap
    <3>2. CASE k >= j /\ k < j + len
      <4>1. M[k] = IF k \in j .. j + (L - j) - 1 THEN Raw ELSE q.d[k]
        BY <1>0, <2>5, <3>2
      <4>2. k >= L => q.d[k] = Raw
        BY <1>0, <1>4
      <4>3. M[k] = Raw
        BY <1>0, <3>2, <4>1, <4>2
      <4> QED BY <3>2, <4>3
    <3>3. CASE k >= j + len /\ k < L + len
      <4>1. k - len \in 0 .. q.n - 1 /\ k - len < L /\ k - (j + len) + j = k - len
        BY <1>0, <1>2, <1>4, <3>3
      <4>2. M[k] = x.d[k - len]
        <5>1. k \in j + len .. j + len + (L - j) - 1
          BY <1>0, <3>3
        <5>2. M[k] = q.d[k - (j + len) + j]
          BY <2>5, <5>1
        <5> QED BY <1>0, <1>4, <2>1, <4>1, <5>2
      <4> QED BY <1>0, <3>3, <4>2 DEF AroundGap
    <3>4. CASE k >= L + len
      BY <1>0, <1>4, <1>5, <2>1, <2>5, <3>4
    <3> QED BY <1>0, <3>1, <3>2, <3>3, <3>4
  <2>7. r = [i |-> L, n |-> q.n, d |-> M]
    BY <1>4, <2>2
  <2>8. r.n = q.n /\ r.d = M
    BY <2>7
  <2> QED BY <1>2, <1>4, <2>5, <2>6, <2>7, <2>8 DEF r, L
<1>6. CASE ~ (j < L)
  <2>1. L = j /\ r = q
    BY <1>0, <1>2, <1>3, <1>6
  <2>2. \A k \in 0 .. q.n - 1 :
          q.d[k] = IF k < L + len /\ k \notin j .. j + len - 1
                   THEN AroundGap(x, j, len, k) ELSE Raw
    BY <1>0, <1>4, <2>1 DEF AroundGap
  <2> QED BY <1>2, <1>4, <2>1, <2>2 DEF r, L
<1> QED BY <1>5, <1>6

\* The gap takes len elements of v.
Filled(r, j, len, v) ==
  [r EXCEPT !.d = [k \in DOMAIN @ |-> IF k \in j .. j + len - 1 THEN v[k - j] ELSE @[k]],
            !.i = @ + len]

LEMMA FilledKeeps ==
  ASSUME ArrayAssumption, NEW x, IsArray(x), NEW j \in Nat, NEW len \in Nat,
         NEW v, \A k \in 0 .. len - 1 : v[k] \in Array!Elements
  PROVE  LET r == Filled(Array!Opened(x, j, len), j, len, v)
             L == LongerOf(x.i, j)
         IN  /\ IsArray(r) /\ r.i = L + len
             /\ \A k \in 0 .. L + len - 1 :
                  r.d[k] = IF k \in j .. j + len - 1 THEN v[k - j] ELSE AroundGap(x, j, len, k)
<1> DEFINE L == LongerOf(x.i, j)
           q == Array!Opened(x, j, len)
           r == Filled(q, j, len, v)
           slot == [k \in 0 .. q.n - 1 |-> IF k \in j .. j + len - 1 THEN v[k - j] ELSE q.d[k]]
<1>0. x.i \in Nat /\ L \in Nat /\ (x.i < j => L = j) /\ (x.i >= j => L = x.i) /\ L >= j
  BY DEF IsArray, LongerOf
<1>1. /\ q = [i |-> L, n |-> q.n, d |-> q.d] /\ q.n \in Nat /\ q.n >= L + len
      /\ q.d \in [0 .. q.n - 1 -> Array!Slot]
      /\ \A k \in 0 .. q.n - 1 :
           q.d[k] = IF k < L + len /\ k \notin j .. j + len - 1
                    THEN AroundGap(x, j, len, k) ELSE Raw
  BY OpenedIs
<1> HIDE DEF q
<1>2. r = [i |-> L + len, n |-> q.n, d |-> slot]
  <2>1. r = [q EXCEPT !.d = [k \in DOMAIN @ |-> IF k \in j .. j + len - 1
                                                THEN v[k - j] ELSE @[k]],
                      !.i = @ + len]
    BY DEF Filled
  <2> HIDE DEF L, r
  <2>2. q.i = L /\ DOMAIN q.d = 0 .. q.n - 1
    BY <1>1
  <2>3. r = [q EXCEPT !.d = slot, !.i = L + len]
    BY <2>1, <2>2
  <2> HIDE DEF slot
  <2> QED BY <1>1, <2>3
<1>3. \A k \in 0 .. q.n - 1 : slot[k] = IF k \in j .. j + len - 1 THEN v[k - j] ELSE q.d[k]
  OBVIOUS
<1>4. \A k \in 0 .. L + len - 1 : k \notin j .. j + len - 1 =>
        AroundGap(x, j, len, k) \in Array!Elements
  <2> SUFFICES ASSUME NEW k \in 0 .. L + len - 1, k \notin j .. j + len - 1
               PROVE  AroundGap(x, j, len, k) \in Array!Elements
    OBVIOUS
  <2>1. CASE k < j
    BY <1>0, <2>1, ElementsFacts DEF AroundGap, IsArray
  <2>2. CASE k >= j
    <3>1. k >= j + len /\ k - len \in Nat /\ k - len < L /\ k - len >= j
      BY <1>0, <2>2
    <3>2. k - len < x.i
      BY <1>0, <3>1
    <3> QED BY <1>0, <2>2, <3>1, <3>2 DEF AroundGap, IsArray
  <2> QED BY <2>1, <2>2
<1> HIDE DEF slot, r, L
<1>5. \A k \in 0 .. q.n - 1 : IF k < L + len THEN slot[k] \in Array!Elements ELSE slot[k] = Raw
  <2> SUFFICES ASSUME NEW k \in 0 .. q.n - 1
               PROVE  IF k < L + len THEN slot[k] \in Array!Elements ELSE slot[k] = Raw
    OBVIOUS
  <2>1. CASE k \in j .. j + len - 1
    BY <1>0, <1>3, <2>1
  <2>2. CASE k \notin j .. j + len - 1
    BY <1>0, <1>1, <1>3, <1>4, <2>2
  <2> QED BY <2>1, <2>2
<1>6. slot \in [0 .. q.n - 1 -> Array!Slot]
  BY <1>5, ElementsFacts DEF slot
<1>7. L + len \in Nat /\ L + len <= q.n
  BY <1>0, <1>1
<1>8. IsArray(r) /\ r.i = L + len /\ r.d = slot
  BY <1>1, <1>2, <1>5, <1>6, <1>7, ArrayOf
<1>9. \A k \in 0 .. L + len - 1 :
        slot[k] = IF k \in j .. j + len - 1 THEN v[k - j] ELSE AroundGap(x, j, len, k)
  BY <1>0, <1>1, <1>3, <1>7
<1> QED BY <1>8, <1>9 DEF r, q, L

LEMMA InsertKeeps ==
  ASSUME ArrayAssumption, NEW x, IsArray(x), NEW j \in Nat, NEW p \in Array!Elements
  PROVE  Array!utarray_insert(x, p, j)
           = Filled(Array!Opened(x, j, 1), j, 1, [k \in {0} |-> p])
<1> DEFINE q == Array!Opened(x, j, 1)
           L == LongerOf(x.i, j)
           r == Array!utarray_insert(x, p, j)
<1>0. x.i \in Nat /\ L \in Nat /\ L >= j
  BY DEF IsArray, LongerOf
<1>1. /\ q = [i |-> L, n |-> q.n, d |-> q.d] /\ q.n \in Nat /\ q.n >= L + 1
      /\ q.d \in [0 .. q.n - 1 -> Array!Slot]
      /\ \A k \in 0 .. q.n - 1 :
           q.d[k] = IF k < L + 1 /\ k \notin j .. j + 1 - 1
                    THEN AroundGap(x, j, 1, k) ELSE Raw
  BY OpenedIs
<1>2. r = [q EXCEPT !.d[j] = Array!icd_copy(@, p), !.i = @ + 1]
  BY DEF Array!utarray_insert
<1> HIDE DEF q, r, L
<1>3. q.d[j] = Raw
  BY <1>0, <1>1
<1>4. r = [i |-> L + 1, n |-> q.n, d |-> [q.d EXCEPT ![j] = p]]
  <2> DEFINE slot == [q.d EXCEPT ![j] = p]
  <2>1. r = [q EXCEPT !.d = slot, !.i = q.i + 1]
    BY <1>2, <1>3 DEF Array!icd_copy
  <2>2. q = [i |-> q.i, n |-> q.n, d |-> q.d] /\ q.i = L
    BY <1>1
  <2> HIDE DEF slot
  <2>3. r = [i |-> q.i + 1, n |-> q.n, d |-> slot]
    BY <2>1, <2>2, FieldsSet
  <2> QED BY <2>2, <2>3 DEF slot
<1>5. [q.d EXCEPT ![j] = p]
        = [k \in 0 .. q.n - 1 |-> IF k \in j .. j + 1 - 1 THEN [m \in {0} |-> p][k - j] ELSE q.d[k]]
  BY <1>1
<1>6. Filled(q, j, 1, [k \in {0} |-> p])
        = [q EXCEPT !.d = [k \in 0 .. q.n - 1 |-> IF k \in j .. j + 1 - 1
                                                  THEN [m \in {0} |-> p][k - j] ELSE @[k]],
                    !.i = @ + 1]
  BY <1>1 DEF Filled
<1>7. Filled(q, j, 1, [k \in {0} |-> p]) = r
  <2> DEFINE slot == [q.d EXCEPT ![j] = p]
  <2>1. Filled(q, j, 1, [k \in {0} |-> p]) = [q EXCEPT !.d = slot, !.i = @ + 1]
    BY <1>5, <1>6
  <2> HIDE DEF slot
  <2>2. [q EXCEPT !.d = slot, !.i = @ + 1] = [i |-> L + 1, n |-> q.n, d |-> slot]
    <3>1. q = [i |-> q.i, n |-> q.n, d |-> q.d] /\ q.i = L
      BY <1>1
    <3>2. PICK c : c = L + 1
      OBVIOUS
    <3>3. [q EXCEPT !.d = slot, !.i = c] = [i |-> c, n |-> q.n, d |-> slot]
      BY <3>1, FieldsSet
    <3>4. [q EXCEPT !.d = slot, !.i = @ + 1] = [q EXCEPT !.d = slot, !.i = c]
      BY <3>1, <3>2
    <3> QED BY <3>2, <3>3, <3>4
  <2>3. r = [i |-> L + 1, n |-> q.n, d |-> slot]
    BY <1>4 DEF slot
  <2> QED BY <2>1, <2>2, <2>3
<1> QED BY <1>7 DEF q, r

\* An empty array is put into another without opening it.
LEMMA InsertAKeeps ==
  ASSUME ArrayAssumption, NEW x, IsArray(x), NEW y, IsArray(y), NEW j \in Nat
  PROVE  Array!utarray_inserta(x, y, j)
           = IF y.i = 0 THEN x ELSE Filled(Array!Opened(x, j, y.i), j, y.i, y.d)
<1> DEFINE q == Array!Opened(x, j, y.i)
           L == LongerOf(x.i, j)
           r == Array!utarray_inserta(x, y, j)
           len == y.i
<1>0. x.i \in Nat /\ L \in Nat /\ L >= j /\ len \in Nat
  BY DEF IsArray, LongerOf
<1>1. CASE y.i = 0
  BY <1>1 DEF Array!utarray_inserta
<1>2. CASE y.i # 0
  <2>1. r = [q EXCEPT !.d = [k \in DOMAIN @ |-> IF k \in j .. j + y.i - 1
                                                THEN Array!icd_copy(@[k], y.d[k - j]) ELSE @[k]],
                      !.i = @ + y.i]
    BY <1>2 DEF Array!utarray_inserta
  <2>2. /\ q = [i |-> L, n |-> q.n, d |-> q.d] /\ q.n \in Nat /\ q.n >= L + len
        /\ q.d \in [0 .. q.n - 1 -> Array!Slot]
        /\ \A k \in 0 .. q.n - 1 :
             q.d[k] = IF k < L + len /\ k \notin j .. j + len - 1
                      THEN AroundGap(x, j, len, k) ELSE Raw
    BY <1>0, OpenedIs
  <2> HIDE DEF q, r, L
  <2>3. \A k \in j .. j + y.i - 1 : k \in 0 .. q.n - 1 /\ q.d[k] = Raw
    BY <1>0, <2>2
  <2>4. [k \in DOMAIN q.d |-> IF k \in j .. j + y.i - 1
                              THEN Array!icd_copy(q.d[k], y.d[k - j]) ELSE q.d[k]]
          = [k \in DOMAIN q.d |-> IF k \in j .. j + y.i - 1 THEN y.d[k - j] ELSE q.d[k]]
    BY <2>3 DEF Array!icd_copy
  <2>5. r = Filled(q, j, y.i, y.d)
    BY <2>1, <2>4 DEF Filled
  <2> QED BY <1>2, <2>5 DEF q, r
<1> QED BY <1>1, <1>2

Skip(pos, len, k) == IF k < pos THEN k ELSE k + len

\* Erasing len elements from pos on moves the later ones down.
LEMMA EraseKeeps ==
  ASSUME ArrayAssumption, NEW x, IsArray(x), NEW pos \in Nat, NEW len \in Nat, pos + len <= x.i
  PROVE  LET r == Array!utarray_erase(x, pos, len)
         IN  /\ IsArray(r) /\ r.i = x.i - len
             /\ \A k \in 0 .. x.i - len - 1 : r.d[k] = x.d[Skip(pos, len, k)]
<1> DEFINE D == Array!Destroyed(x.d, pos, pos + len)
           E == IF x.i > pos + len
                THEN Array!Memmove(D, pos, pos + len, x.i - (pos + len)) ELSE D
           r == Array!utarray_erase(x, pos, len)
<1>0. x.i \in Nat /\ x.n \in Nat /\ x.i <= x.n /\ x = [i |-> x.i, n |-> x.n, d |-> x.d]
  BY DEF IsArray
<1>1. /\ D \in [0 .. x.n - 1 -> Array!Slot]
      /\ \A k \in 0 .. x.n - 1 : D[k] = IF pos <= k /\ k < pos + len THEN Raw ELSE x.d[k]
  BY <1>0, DestroyedAre
<1>2. r = [x EXCEPT !.d = E, !.i = @ - len]
  BY DEF Array!utarray_erase
<1> HIDE DEF D, r
<1>3. /\ E \in [0 .. x.n - 1 -> Array!Slot]
      /\ \A k \in 0 .. x.n - 1 :
           E[k] = IF k < x.i - len THEN x.d[Skip(pos, len, k)] ELSE Raw
  <2>1. CASE x.i > pos + len
    <3> DEFINE size == x.i - (pos + len)
               from == pos + len
               M == Array!Memmove(D, pos, from, size)
    <3>1. /\ size \in Nat /\ from \in Nat /\ size = x.i - (pos + len) /\ from = pos + len
          /\ pos + size <= x.n /\ from + size <= x.n
      BY <1>0, <2>1
    <3>2. E = M
      BY <2>1
    <3> HIDE DEF E, size, from
    <3>3. \A k \in pos .. pos + size - 1 : k \in from .. from + size - 1 \/ D[k] = Raw
      <4> SUFFICES ASSUME NEW k \in pos .. pos + size - 1
                   PROVE  k \in from .. from + size - 1 \/ D[k] = Raw
        OBVIOUS
      <4>1. k \in 0 .. x.n - 1 /\ pos <= k /\ k < pos + size
        BY <1>0, <3>1
      <4> QED BY <1>1, <3>1, <4>1
    <3>4. /\ M \in [0 .. x.n - 1 -> Array!Slot]
          /\ \A k \in 0 .. x.n - 1 :
               M[k] = IF k \in pos .. pos + size - 1 THEN D[k - pos + from]
                      ELSE IF k \in from .. from + size - 1 THEN Raw ELSE D[k]
      <4>1. /\ x.n \in Nat /\ D \in [0 .. x.n - 1 -> Array!Slot] /\ size \in Nat /\ from \in Nat
            /\ pos + size <= x.n /\ from + size <= x.n
        BY <1>0, <1>1, <3>1
      <4>2. MayMove(D, x.n, pos, from, size)
        BY <3>3, <4>1 DEF MayMove
      <4> QED BY <4>2, MemmoveIs
    <3> HIDE DEF M
    <3>5. /\ E \in [0 .. x.n - 1 -> Array!Slot]
          /\ \A k \in 0 .. x.n - 1 :
               E[k] = IF k \in pos .. pos + size - 1 THEN D[k - pos + from]
                      ELSE IF k \in from .. from + size - 1 THEN Raw ELSE D[k]
      BY <3>2, <3>4
    <3>6. ASSUME NEW k \in 0 .. x.n - 1
          PROVE  E[k] = IF k < x.i - len THEN x.d[Skip(pos, len, k)] ELSE Raw
      <4>1. CASE k < pos
        <5>1. k \notin pos .. pos + size - 1 /\ k \notin from .. from + size - 1
          BY <3>1, <4>1
        <5>2. E[k] = D[k]
          BY <3>5, <5>1
        <5> QED BY <1>0, <1>1, <2>1, <4>1, <5>2 DEF Skip
      <4>2. CASE k >= pos /\ k < x.i - len
        <5>1. k \in pos .. pos + size - 1 /\ k - pos + from = k + len
              /\ k + len \in 0 .. x.n - 1
          BY <1>0, <2>1, <3>1, <4>2
        <5>2. E[k] = D[k + len]
          BY <3>5, <5>1
        <5> QED BY <1>0, <1>1, <4>2, <5>1, <5>2 DEF Skip
      <4>3. CASE k >= x.i - len /\ k < x.i
        <5>1. k \notin pos .. pos + size - 1
          BY <1>0, <3>1, <4>3
        <5>2. CASE k \in from .. from + size - 1
          <6>1. E[k] = Raw
            BY <3>5, <5>1, <5>2
          <6> QED BY <1>0, <4>3, <6>1
        <5>3. CASE k \notin from .. from + size - 1
          <6>1. E[k] = D[k]
            BY <3>5, <5>1, <5>3
          <6>2. pos <= k /\ k < pos + len
            BY <1>0, <2>1, <3>1, <4>3, <5>3
          <6> QED BY <1>0, <1>1, <4>3, <6>1, <6>2
        <5> QED BY <5>2, <5>3
      <4>4. CASE k >= x.i
        <5>1. k \notin pos .. pos + size - 1 /\ k \notin from .. from + size - 1
          BY <1>0, <3>1, <4>4
        <5>2. E[k] = D[k]
          BY <3>5, <5>1
        <5>3. x.d[k] = Raw
          BY <1>0, <4>4 DEF IsArray
        <5> QED BY <1>0, <1>1, <4>4, <5>2, <5>3
      <4> QED BY <1>0, <4>1, <4>2, <4>3, <4>4
    <3> QED BY <3>5, <3>6
  <2>2. CASE x.i = pos + len
    <3>1. E = D
      BY <1>0, <2>2
    <3> HIDE DEF E
    <3>2. \A k \in 0 .. x.n - 1 : k >= x.i => x.d[k] = Raw
      BY <1>0 DEF IsArray
    <3>3. ASSUME NEW k \in 0 .. x.n - 1
          PROVE  D[k] = IF k < x.i - len THEN x.d[Skip(pos, len, k)] ELSE Raw
      <4>1. CASE k < pos
        BY <1>0, <1>1, <2>2, <4>1 DEF Skip
      <4>2. CASE ~ (k < pos)
        BY <1>0, <1>1, <2>2, <3>2, <4>2
      <4> QED BY <4>1, <4>2
    <3> QED BY <1>1, <3>1, <3>3
  <2> QED BY <1>0, <2>1, <2>2
<1> HIDE DEF E
<1>4. r = [i |-> x.i - len, n |-> x.n, d |-> E]
  BY <1>0, <1>2
<1>5. x.i - len \in Nat /\ x.i - len <= x.n
  BY <1>0
<1>6. \A k \in 0 .. x.i - len - 1 : x.d[Skip(pos, len, k)] \in Array!Elements
  BY <1>0 DEF IsArray, Skip
<1>7. \A k \in 0 .. x.n - 1 : IF k < x.i - len THEN E[k] \in Array!Elements ELSE E[k] = Raw
  <2> SUFFICES ASSUME NEW k \in 0 .. x.n - 1
               PROVE  IF k < x.i - len THEN E[k] \in Array!Elements ELSE E[k] = Raw
    OBVIOUS
  <2>1. CASE k < x.i - len
    BY <1>0, <1>3, <1>6, <2>1
  <2>2. CASE ~ (k < x.i - len)
    BY <1>3, <2>2
  <2> QED BY <2>1, <2>2
<1>8. IsArray(r) /\ r.i = x.i - len /\ r.d = E
  BY <1>0, <1>3, <1>4, <1>5, <1>7, ArrayOf
<1>9. \A k \in 0 .. x.i - len - 1 : E[k] = x.d[Skip(pos, len, k)]
  BY <1>0, <1>3, <1>5
<1> QED BY <1>8, <1>9 DEF r

\* Emptying it drops them all.
LEMMA ClearIsCut ==
  ASSUME NEW x
  PROVE  Array!utarray_clear(x) = Cut(x, 0)
BY DEF Array!utarray_clear, Cut

-----------------------------------------------------------------------------
(* Sorting: the elements by their ranks *)

\* Whether the element at j comes before the one at k.
Before(x, j, k) == x.d[j] < x.d[k] \/ (x.d[j] = x.d[k] /\ j < k)

LEMMA SameCardinality ==
  ASSUME NEW S
  PROVE  Array!Cardinality(S) = Cardinality(S)
BY DEF Array!Cardinality, Cardinality, Array!IsFiniteSet, IsFiniteSet

LEMMA BeforeOrders ==
  ASSUME ArrayAssumption, NEW x, IsArray(x),
         NEW j \in 0 .. x.i - 1, NEW k \in 0 .. x.i - 1, NEW m \in 0 .. x.i - 1
  PROVE  /\ ~ Before(x, j, j)
         /\ j # k => Before(x, j, k) \/ Before(x, k, j)
         /\ Before(x, j, k) /\ Before(x, k, m) => Before(x, j, m)
<1>1. x.d[j] \in Int /\ x.d[k] \in Int /\ x.d[m] \in Int
  BY ElementsFacts DEF IsArray
<1> QED BY <1>1 DEF Before

\* Ranks differ, as the elements do, and they are all below the length.
LEMMA Ranks ==
  ASSUME ArrayAssumption, NEW x, IsArray(x)
  PROVE  /\ \A k \in 0 .. x.i - 1 : Array!Rank(x, k) \in 0 .. x.i - 1
         /\ \A j, k \in 0 .. x.i - 1 : Before(x, j, k) => Array!Rank(x, j) < Array!Rank(x, k)
<1> DEFINE S == 0 .. x.i - 1
           Below(k) == { j \in S : Before(x, j, k) }
<1>0. x.i \in Nat
  BY DEF IsArray
<1>1. IsFiniteSet(S) /\ Cardinality(S) = x.i
  <2>1. 0 \in Int /\ x.i - 1 \in Int
    BY <1>0
  <2>2. IsFiniteSet(S) /\ Cardinality(S) = IF 0 > x.i - 1 THEN 0 ELSE x.i - 1 - 0 + 1
    BY <2>1, FS_Interval
  <2> HIDE DEF S
  <2> QED BY <1>0, <2>2
<1>2. ASSUME NEW k PROVE Array!Rank(x, k) = Cardinality(Below(k))
  <2>1. Below(k) = { j \in S : x.d[j] < x.d[k] \/ (x.d[j] = x.d[k] /\ j < k) }
    BY DEF Before
  <2>2. Array!Rank(x, k)
          = Cardinality({ j \in S : x.d[j] < x.d[k] \/ (x.d[j] = x.d[k] /\ j < k) })
    BY SameCardinality DEF Array!Rank
  <2> HIDE DEF Below
  <2> QED BY <2>1, <2>2
<1>3. ASSUME NEW k \in S PROVE Array!Rank(x, k) \in S
  <2>1. Below(k) \subseteq S \ {k}
    BY BeforeOrders
  <2>2. IsFiniteSet(S \ {k}) /\ Cardinality(S \ {k}) = x.i - 1
    <3> HIDE DEF S
    <3> QED BY <1>1, FS_RemoveElement
  <2>3. IsFiniteSet(Below(k)) /\ Cardinality(Below(k)) <= x.i - 1
    <3> HIDE DEF Below, S
    <3> QED BY <2>1, <2>2, FS_Subset
  <2>4. Cardinality(Below(k)) \in Nat
    <3> HIDE DEF Below, S
    <3> QED BY <2>3, FS_CardinalityType
  <2> HIDE DEF Below
  <2> QED BY <1>0, <1>2, <2>3, <2>4
<1>4. ASSUME NEW j \in S, NEW k \in S, Before(x, j, k) PROVE Array!Rank(x, j) < Array!Rank(x, k)
  <2>1. Below(j) \subseteq Below(k)
    <3> SUFFICES ASSUME NEW m \in S, Before(x, m, j) PROVE Before(x, m, k)
      OBVIOUS
    <3> QED BY <1>4, BeforeOrders
  <2>2. j \in Below(k) /\ j \notin Below(j)
    BY <1>4, BeforeOrders
  <2>3. Below(k) \subseteq S
    OBVIOUS
  <2> HIDE DEF Below, S
  <2>4. IsFiniteSet(Below(k))
    BY <1>1, <2>3, FS_Subset
  <2>5. /\ IsFiniteSet(Below(j)) /\ Cardinality(Below(j)) <= Cardinality(Below(k))
        /\ Cardinality(Below(j)) # Cardinality(Below(k))
    BY <2>1, <2>2, <2>4, FS_Subset
  <2>6. Cardinality(Below(j)) \in Nat /\ Cardinality(Below(k)) \in Nat
    BY <2>4, <2>5, FS_CardinalityType
  <2>7. Cardinality(Below(j)) < Cardinality(Below(k))
    BY <2>5, <2>6
  <2> QED BY <1>2, <2>7
<1> QED BY <1>3, <1>4

Ranked(x, k) == CHOOSE j \in 0 .. x.i - 1 : Array!Rank(x, j) = k

\* A permutation puts them in order.
LEMMA SortPermutes ==
  ASSUME ArrayAssumption, NEW x, IsArray(x)
  PROVE  LET r == Array!utarray_sort(x)
         IN  /\ IsArray(r) /\ r.i = x.i
             /\ \A j, k \in 0 .. x.i - 1 : j < k => r.d[j] <= r.d[k]
             /\ \E f \in Bijection(0 .. x.i - 1, 0 .. x.i - 1) :
                  \A k \in 0 .. x.i - 1 : r.d[k] = x.d[f[k]]
<1> DEFINE S == 0 .. x.i - 1
           rank == [k \in S |-> Array!Rank(x, k)]
           f == [k \in S |-> Ranked(x, k)]
           slot == [k \in 0 .. x.n - 1 |-> IF k < x.i THEN x.d[f[k]] ELSE x.d[k]]
           r == Array!utarray_sort(x)
<1>0. /\ x.i \in Nat /\ x.n \in Nat /\ x.i <= x.n /\ x = [i |-> x.i, n |-> x.n, d |-> x.d]
      /\ x.d \in [0 .. x.n - 1 -> Array!Slot]
  BY DEF IsArray
<1>1. IsFiniteSet(S)
  <2>1. 0 \in Int /\ x.i - 1 \in Int
    BY <1>0
  <2> QED BY <2>1, FS_Interval
<1>2. /\ rank \in [S -> S]
      /\ \A j, k \in S : Before(x, j, k) => rank[j] < rank[k]
  BY Ranks
<1>3. rank \in Injection(S, S)
  <2>1. ASSUME NEW j \in S, NEW k \in S, rank[j] = rank[k] PROVE j = k
    <3> HIDE DEF rank
    <3>1. rank[j] \in Int
      BY <1>2
    <3>2. ~ Before(x, j, k) /\ ~ Before(x, k, j)
      BY <1>2, <2>1, <3>1
    <3> QED BY <3>2, BeforeOrders
  <2> HIDE DEF rank, S
  <2> QED BY <1>2, <2>1 DEF Injection, IsInjective
<1>4. rank \in Surjection(S, S)
  <2> HIDE DEF rank, S
  <2> QED BY <1>1, <1>3, FS_Injection
<1>5. \A k \in S : \E j \in S : rank[j] = k
  <2> HIDE DEF rank, S
  <2> QED BY <1>4 DEF Surjection
<1>6. \A k \in S : f[k] \in S /\ rank[f[k]] = k
  BY <1>5 DEF Ranked
<1>7. f \in Bijection(S, S)
  <2>1. f \in [S -> S] /\ \A j, k \in S : f[j] = f[k] => j = k
    BY <1>6
  <2>2. f \in Injection(S, S)
    <3> HIDE DEF f, S
    <3> QED BY <2>1 DEF Injection, IsInjective
  <2>3. f \in Surjection(S, S)
    <3> HIDE DEF f, S
    <3> QED BY <1>1, <2>2, FS_Injection
  <2> HIDE DEF f, S
  <2> QED BY <2>2, <2>3 DEF Bijection
<1>8. r = [i |-> x.i, n |-> x.n, d |-> slot]
  <2>1. r = [x EXCEPT !.d = [k \in DOMAIN @ |-> IF k < x.i THEN x.d[Ranked(x, k)] ELSE @[k]]]
    BY DEF Array!utarray_sort, Ranked
  <2>2. [k \in 0 .. x.n - 1 |-> IF k < x.i THEN x.d[Ranked(x, k)] ELSE x.d[k]] = slot
    <3>1. \A k \in 0 .. x.n - 1 : k < x.i => f[k] = Ranked(x, k)
      BY <1>0
    <3> HIDE DEF f
    <3> QED BY <3>1
  <2>3. r = [x EXCEPT !.d = slot]
    <3> HIDE DEF slot, r
    <3> QED BY <1>0, <2>1, <2>2
  <2> HIDE DEF slot, r
  <2> QED BY <1>0, <2>3
<1> HIDE DEF f, r, rank
<1>9. \A k \in S : slot[k] = x.d[f[k]] /\ slot[k] \in Array!Elements
  BY <1>0, <1>6 DEF IsArray
<1>10. \A k \in 0 .. x.n - 1 : IF k < x.i THEN slot[k] \in Array!Elements ELSE slot[k] = Raw
  <2> SUFFICES ASSUME NEW k \in 0 .. x.n - 1
               PROVE  IF k < x.i THEN slot[k] \in Array!Elements ELSE slot[k] = Raw
    OBVIOUS
  <2>1. CASE k < x.i
    <3>1. k \in S
      BY <1>0, <2>1
    <3> HIDE DEF slot
    <3> QED BY <1>9, <2>1, <3>1
  <2>2. CASE ~ (k < x.i)
    <3>1. slot[k] = x.d[k]
      BY <2>2
    <3> HIDE DEF slot
    <3> QED BY <1>0, <2>2, <3>1 DEF IsArray
  <2> QED BY <2>1, <2>2
<1>11. slot \in [0 .. x.n - 1 -> Array!Slot]
  BY <1>10, ElementsFacts
<1> HIDE DEF slot
<1>12. IsArray(r) /\ r.i = x.i /\ r.d = slot
  BY <1>0, <1>8, <1>10, <1>11, ArrayOf
<1>13. ASSUME NEW j \in S, NEW k \in S, j < k PROVE slot[j] <= slot[k]
  <2>1. ~ Before(x, f[k], f[j])
    BY <1>2, <1>6, <1>13
  <2>2. f[j] # f[k]
    BY <1>6, <1>13
  <2>3. Before(x, f[j], f[k])
    BY <1>6, <2>1, <2>2, BeforeOrders
  <2>4. /\ slot[j] = x.d[f[j]] /\ slot[j] \in Array!Elements
        /\ slot[k] = x.d[f[k]] /\ slot[k] \in Array!Elements
    BY <1>9
  <2>5. x.d[f[j]] \in Int /\ x.d[f[k]] \in Int
    BY <2>4, ElementsFacts
  <2>6. x.d[f[j]] <= x.d[f[k]]
    BY <2>3, <2>5 DEF Before
  <2> QED BY <2>4, <2>6
<1> QED BY <1>7, <1>9, <1>12, <1>13 DEF r

-----------------------------------------------------------------------------
(* The array's slots *)

ArrayInv ==
  /\ IsArray(a) /\ a.i <= MaxLen
  /\ IsArray(w) /\ \A k \in 0 .. w.i - 1 : w.d[k] \in Values

LEMMA NoArrayIs ==
  ASSUME ArrayAssumption
  PROVE  IsArray(Array!NoArray) /\ Array!NoArray.i = 0
BY DEF IsArray, Array!NoArray

\* What putting the elements of v at j does, and to which length.
LEMMA PutKeeps ==
  ASSUME ArrayAssumption, ArrayInv, NEW j \in Nat, NEW len \in Nat, NEW v,
         \A k \in 0 .. len - 1 : v[k] \in Array!Elements,
         a.i + len <= MaxLen, j + len <= MaxLen,
         a' = Filled(Array!Opened(a, j, len), j, len, v)
  PROVE  IsArray(a') /\ a'.i <= MaxLen
<1>1. IsArray(a') /\ a'.i = LongerOf(a.i, j) + len
  BY FilledKeeps DEF ArrayInv
<1>2. a.i \in Nat
  BY DEF ArrayInv, IsArray
<1> QED BY <1>1, <1>2 DEF LongerOf

LEMMA HeldElements ==
  ASSUME NEW x, IsArray(x)
  PROVE  \A k \in 0 .. x.i - 1 : x.d[k] \in Array!Elements
<1> SUFFICES ASSUME NEW k \in 0 .. x.i - 1 PROVE x.d[k] \in Array!Elements
  OBVIOUS
<1>1. x.i \in Nat /\ x.n \in Nat /\ x.i <= x.n
  BY DEF IsArray
<1>2. k \in 0 .. x.n - 1 /\ k < x.i
  BY <1>1
<1> QED BY <1>2 DEF IsArray

LEMMA ArrayNext ==
  ASSUME ArrayAssumption, ArrayInv, [Array!Next]_(Array!vars)
  PROVE  ArrayInv'
<1> USE DEF ArrayInv
<1>0. /\ a.i \in Nat /\ w.i \in Nat /\ MaxLen \in Nat
      /\ \A k \in 0 .. a.i - 1 : a.d[k] \in Array!Elements
      /\ \A k \in 0 .. w.i - 1 : w.d[k] \in Array!Elements
  <2>1. a.i \in Nat /\ w.i \in Nat /\ MaxLen \in Nat
    BY DEF IsArray, ArrayAssumption
  <2>2. IsArray(a) /\ IsArray(w)
    OBVIOUS
  <2> QED BY <2>1, <2>2, HeldElements
<1>1. CASE UNCHANGED Array!vars
  BY <1>1 DEF Array!vars
<1>2. CASE w' = w /\ IsArray(a') /\ a'.i <= MaxLen
  BY <1>2
<1>3. ASSUME NEW p \in Values, Array!PushBack(p) PROVE IsArray(a') /\ a'.i <= MaxLen
  <2>1. p \in Array!Elements /\ a' = Array!utarray_push_back(a, p) /\ a.i < MaxLen
    BY <1>3, ElementsFacts DEF Array!PushBack
  <2> QED BY <1>0, <2>1, PushKeeps
<1>4. ASSUME NEW p \in Values, Array!Insert(p) PROVE IsArray(a') /\ a'.i <= MaxLen
  <2>1. PICK j \in 0 .. MaxLen - 1 : a.i < MaxLen /\ a' = Array!utarray_insert(a, p, j)
    BY <1>4 DEF Array!Insert
  <2> DEFINE v == [k \in {0} |-> p]
  <2>2. p \in Array!Elements /\ \A k \in 0 .. 1 - 1 : v[k] \in Array!Elements
    BY ElementsFacts
  <2>3. a' = Filled(Array!Opened(a, j, 1), j, 1, v)
    <3>1. j \in Nat
      BY <1>0
    <3>2. Array!utarray_insert(a, p, j) = Filled(Array!Opened(a, j, 1), j, 1, v)
      BY <2>2, <3>1, InsertKeeps
    <3> HIDE DEF v
    <3> QED BY <2>1, <3>2
  <2>4. a.i + 1 <= MaxLen /\ j + 1 <= MaxLen /\ j \in Nat
    BY <1>0, <2>1
  <2> HIDE DEF v, ArrayInv
  <2> QED BY <2>2, <2>3, <2>4, PutKeeps
<1>5. ASSUME Array!ExtendBack PROVE IsArray(a') /\ a'.i <= MaxLen
  <2>1. Zero \in Array!Elements /\ a' = Array!utarray_push_back(a, Zero) /\ a.i < MaxLen
    BY <1>5, ElementsFacts, ExtendIsPush DEF Array!ExtendBack
  <2>2. IsArray(a') /\ a'.i <= MaxLen
    BY <1>0, <2>1, PushKeeps
  <2> QED BY <2>2
<1>6. ASSUME Array!PopBack PROVE IsArray(a') /\ a'.i <= MaxLen
  BY <1>0, <1>6, PopKeeps DEF Array!PopBack
<1>7. ASSUME Array!Resize PROVE IsArray(a') /\ a'.i <= MaxLen
  <2>1. PICK num \in 0 .. MaxLen : a' = Array!utarray_resize(a, num)
    BY <1>7 DEF Array!Resize
  <2>2. num \in Nat /\ num <= MaxLen
    BY <1>0
  <2> QED BY <2>1, <2>2, ResizeKeeps
<1>8. ASSUME NEW y, y = a \/ y = w, NEW j \in Nat, a.i + y.i <= MaxLen, j + y.i <= MaxLen,
             a' = Array!utarray_inserta(a, y, j)
      PROVE  IsArray(a') /\ a'.i <= MaxLen
  <2>1. IsArray(y) /\ y.i \in Nat /\ \A k \in 0 .. y.i - 1 : y.d[k] \in Array!Elements
    BY <1>0, <1>8
  <2>2. CASE y.i = 0
    BY <1>8, <2>1, <2>2, InsertAKeeps
  <2>3. CASE y.i # 0
    <3>1. a' = Filled(Array!Opened(a, j, y.i), j, y.i, y.d)
      BY <1>8, <2>1, <2>3, InsertAKeeps
    <3> HIDE DEF ArrayInv
    <3> QED BY <1>8, <2>1, <3>1, PutKeeps
  <2> QED BY <2>2, <2>3
<1>9. ASSUME Array!InsertA PROVE IsArray(a') /\ a'.i <= MaxLen
  <2>1. PICK j \in 0 .. MaxLen - w.i : a.i + w.i <= MaxLen /\ a' = Array!utarray_inserta(a, w, j)
    BY <1>9 DEF Array!InsertA
  <2>2. j \in Nat /\ j + w.i <= MaxLen
    BY <1>0
  <2> QED BY <1>8, <2>1, <2>2
<1>10. ASSUME Array!Concat PROVE IsArray(a') /\ a'.i <= MaxLen
  <2>1. PICK y \in {a, w} : a.i + y.i <= MaxLen /\ a' = Array!utarray_inserta(a, y, a.i)
    BY <1>10 DEF Array!Concat, Array!utarray_concat
  <2> QED BY <1>0, <1>8, <2>1
<1>11. ASSUME Array!Erase PROVE IsArray(a') /\ a'.i <= MaxLen
  <2>0. PICK pos \in 0 .. a.i - 1 : \E k \in 1 .. a.i - pos : a' = Array!utarray_erase(a, pos, k)
    BY <1>11 DEF Array!Erase
  <2>1. PICK len \in 1 .. a.i - pos : a' = Array!utarray_erase(a, pos, len)
    BY <2>0
  <2>2. pos \in Nat /\ len \in Nat /\ pos + len <= a.i
    BY <1>0
  <2>3. IsArray(a') /\ a'.i = a.i - len
    BY <2>1, <2>2, EraseKeeps
  <2> QED BY <1>0, <2>2, <2>3
<1>12. ASSUME Array!Clear PROVE IsArray(a') /\ a'.i <= MaxLen
  <2>1. a' = Cut(a, 0)
    BY <1>12, ClearIsCut DEF Array!Clear
  <2> QED BY <1>0, <2>1, CutKeeps
<1>13. ASSUME Array!Sort PROVE IsArray(a') /\ a'.i <= MaxLen
  BY <1>0, <1>13, SortPermutes DEF Array!Sort
<1>14. ASSUME Array!Recreate PROVE IsArray(a') /\ a'.i <= MaxLen
  BY <1>0, <1>14, NoArrayIs DEF Array!Recreate
<1>15. CASE Array!FillW /\ UNCHANGED a
  <2>1. PICK p \in Values : w' = Array!utarray_push_back(w, p)
    BY <1>15 DEF Array!FillW
  <2>2. p \in Array!Elements
    BY ElementsFacts
  <2>3. /\ IsArray(w') /\ w'.i = w.i + 1
        /\ \A k \in 0 .. w.i : w'.d[k] = IF k < w.i THEN w.d[k] ELSE p
    BY <2>1, <2>2, PushKeeps
  <2>4. \A k \in 0 .. w'.i - 1 : w'.d[k] \in Values
    BY <1>0, <2>3
  <2> QED BY <1>15, <2>3, <2>4
<1>16. CASE /\ \/ \E p \in Values : Array!PushBack(p) \/ Array!Insert(p)
               \/ Array!ExtendBack \/ Array!PopBack \/ Array!Resize \/ Array!InsertA \/ Array!Concat
               \/ Array!Erase \/ Array!Clear \/ Array!Sort \/ Array!Recreate
            /\ UNCHANGED w
  <2>1. IsArray(a') /\ a'.i <= MaxLen
    BY <1>3, <1>4, <1>5, <1>6, <1>7, <1>9, <1>10, <1>11, <1>12, <1>13, <1>14, <1>16
  <2> QED BY <1>2, <1>16, <2>1
<1> QED BY <1>1, <1>15, <1>16 DEF Array!Next

\* An element is constructed and destroyed exactly once, and nothing is
\* written past what utarray_reserve allocated, whatever the operations.
THEOREM SlotsAreExact == Array!Spec => []ArraySlotsExact
<1> ArrayAssumption
  BY ContainersAssumption
<1>1. Array!Init => ArrayInv
  BY NoArrayIs DEF Array!Init, ArrayInv, ArrayAssumption
<1>2. ArrayInv /\ [Array!Next]_(Array!vars) => ArrayInv'
  BY ArrayNext
<1>3. ArrayInv => ArraySlotsExact
  BY DEF ArrayInv, IsArray, ArraySlotsExact, Array!SlotsExact
<1> QED BY <1>1, <1>2, <1>3, PTL DEF Array!Spec

-----------------------------------------------------------------------------
(* The array is the sequence of its values *)

ValuesOf(x) == Array!ValuesOf(x)

LEMMA ValuesAre ==
  ASSUME ArrayAssumption, NEW x, IsArray(x)
  PROVE  /\ ValuesOf(x) \in Seq(Array!Elements) /\ Len(ValuesOf(x)) = x.i
         /\ \A k \in 1 .. x.i : ValuesOf(x)[k] = x.d[k - 1]
<1>1. x.i \in Nat /\ \A k \in 1 .. x.i : k - 1 \in 0 .. x.i - 1
  BY DEF IsArray
<1>2. \A k \in 1 .. x.i : x.d[k - 1] \in Array!Elements
  BY <1>1 DEF IsArray
<1>3. ValuesOf(x) = [k \in 1 .. x.i |-> x.d[k - 1]]
  BY DEF ValuesOf, Array!ValuesOf
<1> QED BY <1>1, <1>2, <1>3

\* An array with these values.
LEMMA SameValues ==
  ASSUME ArrayAssumption, NEW x, IsArray(x), NEW t \in Seq(Array!Elements), Len(t) = x.i,
         \A k \in 1 .. x.i : t[k] = x.d[k - 1]
  PROVE  ValuesOf(x) = t
<1>1. /\ ValuesOf(x) \in Seq(Array!Elements) /\ Len(ValuesOf(x)) = x.i
      /\ \A k \in 1 .. x.i : ValuesOf(x)[k] = x.d[k - 1]
  BY ValuesAre
<1> QED BY <1>1, SeqEqual

LEMMA ZerosAre ==
  ASSUME NEW R, Zero \in R, NEW m \in Int
  PROVE  LET z == Array!Vector!Zeros(m)
         IN  /\ z \in Seq(R) /\ Len(z) = (IF m > 0 THEN m ELSE 0)
             /\ \A k \in 1 .. m : z[k] = Zero
<1> DEFINE z == Array!Vector!Zeros(m)
           len == IF m > 0 THEN m ELSE 0
<1>1. len \in Nat /\ 1 .. m = 1 .. len
  OBVIOUS
<1>2. z = [k \in 1 .. len |-> Zero]
  BY <1>1 DEF Array!Vector!Zeros
<1> HIDE DEF len, z
<1>3. z \in Seq(R) /\ Len(z) = len /\ \A k \in 1 .. len : z[k] = Zero
  BY <1>1, <1>2
<1> QED BY <1>1, <1>3 DEF len, z

LEMMA PaddedIs ==
  ASSUME NEW R, Zero \in R, NEW t \in Seq(R), NEW j \in Nat
  PROVE  LET p == t \o Array!Vector!Zeros(j - Len(t))
         IN  /\ p \in Seq(R) /\ Len(p) = LongerOf(Len(t), j)
             /\ \A k \in 1 .. Len(p) : p[k] = IF k <= Len(t) THEN t[k] ELSE Zero
<1> DEFINE z == Array!Vector!Zeros(j - Len(t))
           p == t \o z
<1>1. Len(t) \in Nat /\ j - Len(t) \in Int
  OBVIOUS
<1>2. /\ z \in Seq(R) /\ Len(z) = (IF j - Len(t) > 0 THEN j - Len(t) ELSE 0)
      /\ \A k \in 1 .. j - Len(t) : z[k] = Zero
  BY <1>1, ZerosAre
<1> HIDE DEF z
<1>3. /\ p \in Seq(R) /\ Len(p) = Len(t) + Len(z)
      /\ \A k \in 1 .. Len(t) + Len(z) : p[k] = IF k <= Len(t) THEN t[k] ELSE z[k - Len(t)]
  BY <1>2, ConcatProperties
<1> HIDE DEF p
<1>4. Len(p) = LongerOf(Len(t), j)
  BY <1>1, <1>2, <1>3 DEF LongerOf
<1>5. ASSUME NEW k \in 1 .. Len(p), ~ (k <= Len(t)) PROVE p[k] = Zero
  <2>1. k - Len(t) \in 1 .. j - Len(t) /\ k \in 1 .. Len(t) + Len(z)
    BY <1>1, <1>2, <1>3, <1>5
  <2> QED BY <1>2, <1>3, <1>5, <2>1
<1> QED BY <1>3, <1>4, <1>5 DEF p, z

LEMMA EnterIs ==
  ASSUME NEW R, Zero \in R, NEW t \in Seq(R), NEW v \in Seq(R), NEW j \in Nat
  PROVE  LET e == Array!Vector!Enter(t, v, j)
         IN  /\ e \in Seq(R) /\ Len(e) = LongerOf(Len(t), j) + Len(v)
             /\ \A k \in 1 .. Len(e) :
                  e[k] = IF k <= j THEN IF k <= Len(t) THEN t[k] ELSE Zero
                         ELSE IF k <= j + Len(v) THEN v[k - j] ELSE t[k - Len(v)]
<1> DEFINE p == t \o Array!Vector!Zeros(j - Len(t))
           L == LongerOf(Len(t), j)
           left == SubSeq(p, 1, j)
           right == SubSeq(p, j + 1, Len(p))
           e == Array!Vector!Enter(t, v, j)
<1>0. Len(t) \in Nat /\ L \in Nat /\ L >= j /\ (L > j => L = Len(t)) /\ Len(v) \in Nat
  BY DEF LongerOf
<1>1. e = left \o v \o right
  BY DEF Array!Vector!Enter
<1>2. /\ p \in Seq(R) /\ Len(p) = L
      /\ \A k \in 1 .. L : p[k] = IF k <= Len(t) THEN t[k] ELSE Zero
  BY PaddedIs
<1> HIDE DEF p, L, e
<1>3. \A k \in 1 .. L : p[k] \in R
  BY <1>2
<1>4. left \in Seq(R) /\ Len(left) = j /\ \A k \in 1 .. j : left[k] = p[k]
  <2>1. \A k \in 1 .. j : p[k] \in R
    BY <1>0, <1>3
  <2>2. 1 \in Int /\ j \in Int
    OBVIOUS
  <2>3. /\ left \in Seq(R) /\ Len(left) = IF 1 <= j THEN j - 1 + 1 ELSE 0
        /\ \A k \in 1 .. j - 1 + 1 : left[k] = p[1 + k - 1]
    BY <2>1, <2>2, SubSeqProperties
  <2> HIDE DEF left
  <2> QED BY <2>3
<1>5. /\ right \in Seq(R) /\ Len(right) = L - j
      /\ \A k \in 1 .. L - j : right[k] = p[j + k]
  <2>1. \A k \in j + 1 .. L : p[k] \in R
    BY <1>0, <1>3
  <2>2. j + 1 \in Int /\ L \in Int /\ Len(p) = L
    BY <1>0, <1>2
  <2>3. /\ right \in Seq(R) /\ Len(right) = IF j + 1 <= L THEN L - (j + 1) + 1 ELSE 0
        /\ \A k \in 1 .. L - (j + 1) + 1 : right[k] = p[j + 1 + k - 1]
    BY <2>1, <2>2, SubSeqProperties
  <2> HIDE DEF right
  <2> QED BY <1>0, <2>3
<1> HIDE DEF left, right
<1> DEFINE lv == left \o v
<1>6. /\ lv \in Seq(R) /\ Len(lv) = j + Len(v)
      /\ \A k \in 1 .. j + Len(v) : lv[k] = IF k <= j THEN left[k] ELSE v[k - j]
  BY <1>4, ConcatProperties
<1>7. e = lv \o right
  BY <1>1
<1> HIDE DEF lv
<1>8. /\ e \in Seq(R) /\ Len(e) = L + Len(v)
      /\ \A k \in 1 .. L + Len(v) :
           e[k] = IF k <= j + Len(v) THEN lv[k] ELSE right[k - (j + Len(v))]
  <2>1. /\ e \in Seq(R) /\ Len(e) = Len(lv) + Len(right)
        /\ \A k \in 1 .. Len(lv) + Len(right) :
             e[k] = IF k <= Len(lv) THEN lv[k] ELSE right[k - Len(lv)]
    BY <1>5, <1>6, <1>7, ConcatProperties
  <2> QED BY <1>0, <1>5, <1>6, <2>1
<1>9. ASSUME NEW k \in 1 .. L + Len(v)
      PROVE  e[k] = IF k <= j THEN IF k <= Len(t) THEN t[k] ELSE Zero
                    ELSE IF k <= j + Len(v) THEN v[k - j] ELSE t[k - Len(v)]
  <2>1. CASE k <= j
    BY <1>0, <1>2, <1>4, <1>6, <1>8, <2>1
  <2>2. CASE ~ (k <= j) /\ k <= j + Len(v)
    BY <1>0, <1>6, <1>8, <2>2
  <2>3. CASE ~ (k <= j + Len(v))
    <3>1. k - (j + Len(v)) \in 1 .. L - j /\ j + (k - (j + Len(v))) = k - Len(v)
      BY <1>0, <2>3
    <3>2. e[k] = p[k - Len(v)]
      BY <1>5, <1>8, <2>3, <3>1
    <3>3. k - Len(v) \in 1 .. L /\ k - Len(v) <= Len(t)
      BY <1>0, <2>3
    <3> QED BY <1>0, <1>2, <2>3, <3>2, <3>3
  <2> QED BY <1>0, <2>1, <2>2, <2>3
<1> QED BY <1>8, <1>9 DEF e, L

LEMMA FilledEnters ==
  ASSUME ArrayAssumption, NEW x, IsArray(x), NEW j \in Nat, NEW v, NEW t \in Seq(Array!Elements),
         \A k \in 0 .. Len(t) - 1 : v[k] = t[k + 1]
  PROVE  ValuesOf(Filled(Array!Opened(x, j, Len(t)), j, Len(t), v))
           = Array!Vector!Enter(ValuesOf(x), t, j)
<1> DEFINE len == Len(t)
           L == LongerOf(x.i, j)
           r == Filled(Array!Opened(x, j, len), j, len, v)
           e == Array!Vector!Enter(ValuesOf(x), t, j)
<1>0. /\ len \in Nat /\ x.i \in Nat /\ L \in Nat /\ L >= j /\ (L > j => L = x.i)
      /\ Zero \in Array!Elements
  BY ElementsFacts DEF LongerOf, IsArray
<1>1. \A k \in 0 .. len - 1 : v[k] \in Array!Elements
  <2> SUFFICES ASSUME NEW k \in 0 .. len - 1 PROVE v[k] \in Array!Elements
    OBVIOUS
  <2>1. k + 1 \in 1 .. Len(t)
    BY <1>0
  <2> QED BY <2>1, ElementOfSeq
<1>2. /\ IsArray(r) /\ r.i = L + len
      /\ \A k \in 0 .. L + len - 1 :
           r.d[k] = IF k \in j .. j + len - 1 THEN v[k - j] ELSE AroundGap(x, j, len, k)
  BY <1>0, <1>1, FilledKeeps
<1>3. /\ ValuesOf(x) \in Seq(Array!Elements) /\ Len(ValuesOf(x)) = x.i
      /\ \A k \in 1 .. x.i : ValuesOf(x)[k] = x.d[k - 1]
  BY ValuesAre
<1>4. /\ e \in Seq(Array!Elements) /\ Len(e) = L + len
      /\ \A k \in 1 .. Len(e) :
           e[k] = IF k <= j THEN IF k <= x.i THEN ValuesOf(x)[k] ELSE Zero
                  ELSE IF k <= j + len THEN t[k - j] ELSE ValuesOf(x)[k - len]
  BY <1>0, <1>3, EnterIs
<1> HIDE DEF r, e, L
<1>5. ASSUME NEW k \in 1 .. L + len PROVE e[k] = r.d[k - 1]
  <2>1. CASE k <= j
    <3>1. r.d[k - 1] = AroundGap(x, j, len, k - 1) /\ k - 1 < j
      BY <1>0, <1>2, <2>1
    <3> QED BY <1>0, <1>3, <1>4, <2>1, <3>1 DEF AroundGap
  <2>2. CASE ~ (k <= j) /\ k <= j + len
    <3>1. k - 1 \in j .. j + len - 1 /\ k - 1 - j \in 0 .. len - 1 /\ k - 1 - j + 1 = k - j
      BY <1>0, <2>2
    <3>2. r.d[k - 1] = v[k - 1 - j]
      BY <1>0, <1>2, <3>1
    <3> QED BY <1>4, <2>2, <3>1, <3>2
  <2>3. CASE ~ (k <= j + len)
    <3>1. k - 1 \notin j .. j + len - 1 /\ ~ (k - 1 < j) /\ k - len \in 1 .. x.i
          /\ k - 1 - len = k - len - 1
      BY <1>0, <2>3
    <3>2. r.d[k - 1] = x.d[k - 1 - len]
      BY <1>0, <1>2, <3>1 DEF AroundGap
    <3>3. ValuesOf(x)[k - len] = x.d[k - len - 1]
      BY <1>3, <3>1
    <3>4. e[k] = ValuesOf(x)[k - len]
      BY <1>0, <1>4, <2>3
    <3> QED BY <3>1, <3>2, <3>3, <3>4
  <2> QED BY <1>0, <2>1, <2>2, <2>3
<1>6. ValuesOf(r) = e
  BY <1>2, <1>4, <1>5, SameValues
<1> QED BY <1>6 DEF r, e

LEMMA PushEnters ==
  ASSUME ArrayAssumption, NEW x, IsArray(x), NEW p \in Array!Elements
  PROVE  ValuesOf(Array!utarray_push_back(x, p)) = Array!Vector!Enter(ValuesOf(x), <<p>>, x.i)
<1> DEFINE r == Array!utarray_push_back(x, p)
           one == <<p>>
           t == ValuesOf(x)
           e == Array!Vector!Enter(t, one, x.i)
<1>0. /\ x.i \in Nat /\ Zero \in Array!Elements
      /\ one \in Seq(Array!Elements) /\ Len(one) = 1 /\ one[1] = p
  BY ElementsFacts DEF IsArray
<1>1. /\ IsArray(r) /\ r.i = x.i + 1
      /\ \A k \in 0 .. x.i : r.d[k] = IF k < x.i THEN x.d[k] ELSE p
  BY PushKeeps
<1>2. /\ t \in Seq(Array!Elements) /\ Len(t) = x.i
      /\ \A k \in 1 .. x.i : t[k] = x.d[k - 1]
  BY ValuesAre
<1> HIDE DEF one, t
<1>3. /\ e \in Seq(Array!Elements) /\ Len(e) = x.i + 1
      /\ \A k \in 1 .. x.i + 1 : e[k] = IF k <= x.i THEN t[k] ELSE one[k - x.i]
  <2>1. /\ e \in Seq(Array!Elements) /\ Len(e) = LongerOf(Len(t), x.i) + Len(one)
        /\ \A k \in 1 .. Len(e) :
             e[k] = IF k <= x.i THEN IF k <= Len(t) THEN t[k] ELSE Zero
                    ELSE IF k <= x.i + Len(one) THEN one[k - x.i] ELSE t[k - Len(one)]
    <3>1. /\ Zero \in Array!Elements /\ t \in Seq(Array!Elements)
          /\ one \in Seq(Array!Elements) /\ x.i \in Nat
      BY <1>0, <1>2
    <3> QED BY <3>1, EnterIs
  <2> HIDE DEF e
  <2>2. Len(e) = x.i + 1
    BY <1>0, <1>2, <2>1 DEF LongerOf
  <2> QED BY <1>0, <1>2, <2>1, <2>2
<1> HIDE DEF r, e
<1>4. Len(e) = r.i
  BY <1>1, <1>3
<1>5. ASSUME NEW k \in 1 .. r.i PROVE e[k] = r.d[k - 1]
  <2>0. k \in 1 .. x.i + 1 /\ k - 1 \in 0 .. x.i
    BY <1>0, <1>1
  <2>1. CASE k <= x.i
    <3>1. e[k] = t[k] /\ k \in 1 .. x.i
      BY <1>0, <1>3, <2>0, <2>1
    <3>2. r.d[k - 1] = x.d[k - 1]
      BY <1>0, <1>1, <2>0, <2>1
    <3> QED BY <1>2, <3>1, <3>2
  <2>2. CASE k = x.i + 1
    <3>1. e[k] = one[1]
      <4>1. ~ (k <= x.i) /\ k - x.i = 1
        BY <1>0, <2>2
      <4> QED BY <1>3, <2>0, <4>1
    <3>2. r.d[k - 1] = p
      BY <1>0, <1>1, <2>0, <2>2
    <3> QED BY <1>0, <3>1, <3>2
  <2> QED BY <1>0, <2>0, <2>1, <2>2
<1>6. ValuesOf(r) = e
  BY <1>1, <1>3, <1>4, <1>5, SameValues
<1> QED BY <1>6 DEF r, e, one, t

LEMMA ResizeTakes ==
  ASSUME ArrayAssumption, NEW x, IsArray(x), NEW num \in Nat, NEW r, IsArray(r), r.i = num,
         \A k \in 0 .. num - 1 : r.d[k] = IF k < x.i THEN x.d[k] ELSE Zero
  PROVE  ValuesOf(r) = SubSeq(ValuesOf(x) \o Array!Vector!Zeros(num - Len(ValuesOf(x))), 1, num)
<1> DEFINE t == ValuesOf(x)
           p == t \o Array!Vector!Zeros(num - Len(t))
           e == SubSeq(p, 1, num)
<1>0. x.i \in Nat /\ Zero \in Array!Elements
  BY ElementsFacts DEF IsArray
<1>1. /\ t \in Seq(Array!Elements) /\ Len(t) = x.i
      /\ \A k \in 1 .. x.i : t[k] = x.d[k - 1]
  BY ValuesAre
<1> HIDE DEF t
<1>2. /\ p \in Seq(Array!Elements) /\ Len(p) = LongerOf(x.i, num)
      /\ \A k \in 1 .. Len(p) : p[k] = IF k <= x.i THEN t[k] ELSE Zero
  <2>1. /\ p \in Seq(Array!Elements) /\ Len(p) = LongerOf(Len(t), num)
        /\ \A k \in 1 .. Len(p) : p[k] = IF k <= Len(t) THEN t[k] ELSE Zero
    BY <1>0, <1>1, PaddedIs
  <2> HIDE DEF p
  <2> QED BY <1>1, <2>1
<1> HIDE DEF p
<1>3. Len(p) \in Nat /\ num <= Len(p)
  BY <1>0, <1>2 DEF LongerOf
<1>4. \A k \in 1 .. num : p[k] \in Array!Elements
  BY <1>2, <1>3, ElementOfSeq
<1>5. /\ e \in Seq(Array!Elements) /\ Len(e) = (IF 1 <= num THEN num - 1 + 1 ELSE 0)
      /\ \A k \in 1 .. num - 1 + 1 : e[k] = p[1 + k - 1]
  <2>1. 1 \in Int /\ num \in Int
    OBVIOUS
  <2> QED BY <1>4, <2>1, SubSeqProperties
<1> HIDE DEF e
<1>6. Len(e) = num /\ \A k \in 1 .. num : e[k] = p[k]
  BY <1>5
<1>7. ASSUME NEW k \in 1 .. num PROVE e[k] = r.d[k - 1]
  <2>1. k - 1 \in 0 .. num - 1 /\ k \in 1 .. Len(p)
    BY <1>3
  <2> QED BY <1>0, <1>1, <1>2, <1>6, <2>1
<1>8. ValuesOf(r) = e
  BY <1>5, <1>6, <1>7, SameValues
<1> QED BY <1>8 DEF e, p, t

\* The values less those from lo on, k of them.
Without(t, lo, k) == SubSeq(t, 1, lo - 1) \o SubSeq(t, lo + k, Len(t))

LEMMA EraseRemoves ==
  ASSUME ArrayAssumption, NEW x, IsArray(x), NEW lo \in 1 .. x.i, NEW k \in Nat, lo + k - 1 <= x.i,
         NEW r, IsArray(r), r.i = x.i - k,
         \A m \in 0 .. x.i - k - 1 : r.d[m] = x.d[Skip(lo - 1, k, m)]
  PROVE  ValuesOf(r) = Without(ValuesOf(x), lo, k)
<1> DEFINE t == ValuesOf(x)
           left == SubSeq(t, 1, lo - 1)
           right == SubSeq(t, lo + k, Len(t))
           e == Without(t, lo, k)
<1>0. x.i \in Nat /\ lo \in Nat /\ 1 <= lo /\ lo <= x.i
  BY DEF IsArray
<1>1. /\ t \in Seq(Array!Elements) /\ Len(t) = x.i
      /\ \A m \in 1 .. x.i : t[m] = x.d[m - 1] /\ t[m] \in Array!Elements
  BY ValuesAre, ElementOfSeq
<1> HIDE DEF t
<1>2. left \in Seq(Array!Elements) /\ Len(left) = lo - 1 /\ \A m \in 1 .. lo - 1 : left[m] = t[m]
  <2>1. \A m \in 1 .. lo - 1 : t[m] \in Array!Elements
    BY <1>0, <1>1
  <2>2. 1 \in Int /\ lo - 1 \in Int
    BY <1>0
  <2>3. /\ left \in Seq(Array!Elements)
        /\ Len(left) = (IF 1 <= lo - 1 THEN lo - 1 - 1 + 1 ELSE 0)
        /\ \A m \in 1 .. lo - 1 - 1 + 1 : left[m] = t[1 + m - 1]
    BY <2>1, <2>2, SubSeqProperties
  <2> HIDE DEF left
  <2> QED BY <1>0, <2>3
<1>3. /\ right \in Seq(Array!Elements) /\ Len(right) = x.i - (lo + k) + 1
      /\ \A m \in 1 .. x.i - (lo + k) + 1 : right[m] = t[lo + k + m - 1]
  <2>1. \A m \in lo + k .. x.i : t[m] \in Array!Elements
    BY <1>0, <1>1
  <2>2. lo + k \in Int /\ Len(t) \in Int /\ Len(t) = x.i
    BY <1>0, <1>1
  <2>3. /\ right \in Seq(Array!Elements)
        /\ Len(right) = (IF lo + k <= x.i THEN x.i - (lo + k) + 1 ELSE 0)
        /\ \A m \in 1 .. x.i - (lo + k) + 1 : right[m] = t[lo + k + m - 1]
    BY <2>1, <2>2, SubSeqProperties
  <2> HIDE DEF right
  <2> QED BY <1>0, <2>3
<1>4. e = left \o right
  BY DEF Without
<1> HIDE DEF left, right, e
<1>5. /\ e \in Seq(Array!Elements) /\ Len(e) = Len(left) + Len(right)
      /\ \A m \in 1 .. Len(left) + Len(right) :
           e[m] = IF m <= Len(left) THEN left[m] ELSE right[m - Len(left)]
  BY <1>2, <1>3, <1>4, ConcatProperties
<1>6. Len(e) = x.i - k
  BY <1>0, <1>2, <1>3, <1>5
<1>7. ASSUME NEW m \in 1 .. x.i - k PROVE e[m] = r.d[m - 1]
  <2>0. m - 1 \in 0 .. x.i - k - 1 /\ m \in 1 .. Len(left) + Len(right)
    BY <1>0, <1>5, <1>6
  <2>1. CASE m <= lo - 1
    <3>1. e[m] = t[m]
      BY <1>0, <1>2, <1>5, <2>0, <2>1
    <3>2. r.d[m - 1] = x.d[m - 1]
      BY <1>0, <2>0, <2>1 DEF Skip
    <3> QED BY <1>0, <1>1, <3>1, <3>2
  <2>2. CASE ~ (m <= lo - 1)
    <3>0. m \in Int /\ m <= x.i - k /\ m >= lo
      BY <1>0, <2>2
    <3>1. /\ m - (lo - 1) \in 1 .. x.i - (lo + k) + 1 /\ lo + k + (m - (lo - 1)) - 1 = m + k
          /\ m + k \in 1 .. x.i /\ m + k - 1 = m - 1 + k
      BY <1>0, <3>0
    <3>2. e[m] = right[m - (lo - 1)]
      BY <1>2, <1>5, <2>0, <2>2
    <3>3. e[m] = t[m + k]
      BY <1>3, <3>1, <3>2
    <3>4. r.d[m - 1] = x.d[m - 1 + k]
      BY <1>0, <2>0, <2>2 DEF Skip
    <3> QED BY <1>1, <3>1, <3>3, <3>4
  <2> QED BY <2>1, <2>2
<1>8. ValuesOf(r) = e
  BY <1>5, <1>6, <1>7, SameValues
<1> QED BY <1>8 DEF e, t

Where(t, v) == { k \in DOMAIN t : t[k] = v }

LEMMA SortCounts ==
  ASSUME ArrayAssumption, NEW x, IsArray(x), NEW r, IsArray(r), r.i = x.i,
         NEW f \in Bijection(0 .. x.i - 1, 0 .. x.i - 1),
         \A k \in 0 .. x.i - 1 : r.d[k] = x.d[f[k]], NEW v
  PROVE  Cardinality(Where(ValuesOf(r), v)) = Cardinality(Where(ValuesOf(x), v))
<1> DEFINE S == 0 .. x.i - 1
           A == Where(ValuesOf(r), v)
           B == Where(ValuesOf(x), v)
           g == [k \in A |-> f[k - 1] + 1]
<1>0. x.i \in Nat
  BY DEF IsArray
<1>1. A = { k \in 1 .. x.i : r.d[k - 1] = v } /\ B = { k \in 1 .. x.i : x.d[k - 1] = v }
  <2>1. /\ DOMAIN ValuesOf(r) = 1 .. x.i /\ DOMAIN ValuesOf(x) = 1 .. x.i
        /\ \A k \in 1 .. x.i : ValuesOf(r)[k] = r.d[k - 1] /\ ValuesOf(x)[k] = x.d[k - 1]
    BY ValuesAre, LenProperties
  <2> QED BY <2>1 DEF Where
<1>2. /\ f \in [S -> S] /\ \A j, k \in S : f[j] = f[k] => j = k
      /\ \A k \in S : \E j \in S : f[j] = k
  <2> HIDE DEF S
  <2> QED BY DEF Bijection, Injection, Surjection, IsInjective, S
<1> HIDE DEF A, B
<1>3. ASSUME NEW k \in A PROVE k \in 1 .. x.i /\ k - 1 \in S /\ f[k - 1] \in S
                               /\ g[k] = f[k - 1] + 1 /\ g[k] \in B
  <2>1. k \in 1 .. x.i /\ k - 1 \in S /\ r.d[k - 1] = v
    BY <1>0, <1>1
  <2>2. f[k - 1] \in S /\ x.d[f[k - 1]] = v
    BY <1>2, <2>1
  <2>3. f[k - 1] + 1 \in 1 .. x.i /\ f[k - 1] + 1 - 1 = f[k - 1]
    BY <1>0, <2>2
  <2>4. f[k - 1] + 1 \in B
    BY <1>1, <2>2, <2>3
  <2> QED BY <2>1, <2>2, <2>4
<1>4. ASSUME NEW j \in A, NEW k \in A, g[j] = g[k] PROVE j = k
  <2>1. f[j - 1] = f[k - 1]
    <3> HIDE DEF g
    <3> QED BY <1>0, <1>3, <1>4
  <2>2. j - 1 = k - 1
    BY <1>2, <1>3, <2>1
  <2> QED BY <1>0, <1>3, <2>2
<1>5. ASSUME NEW m \in B PROVE \E k \in A : g[k] = m
  <2>1. m \in 1 .. x.i /\ m - 1 \in S /\ x.d[m - 1] = v
    BY <1>0, <1>1
  <2>2. PICK j \in S : f[j] = m - 1
    BY <1>2, <2>1
  <2>3. j + 1 \in 1 .. x.i /\ j + 1 - 1 = j /\ r.d[j] = v
    BY <1>0, <2>1, <2>2
  <2>4. j + 1 \in A
    BY <1>1, <2>3
  <2>5. g[j + 1] = m
    BY <2>1, <2>2, <2>3, <2>4
  <2> QED BY <2>4, <2>5
<1>6. g \in [A -> B]
  BY <1>3
<1> HIDE DEF g
<1>7. g \in Bijection(A, B)
  BY <1>4, <1>5, <1>6 DEF Bijection, Injection, Surjection, IsInjective
<1>8. IsFiniteSet(A)
  <2>1. A \in SUBSET Nat /\ \A k \in A : k <= x.i
    BY <1>0, <1>1
  <2> QED BY <1>0, <2>1, FS_BoundedSetOfNaturals
<1>9. Cardinality(B) = Cardinality(A)
  <2>1. ExistsBijection(A, B)
    BY <1>7 DEF ExistsBijection
  <2> QED BY <1>8, <2>1, FS_Bijection
<1> QED BY <1>9 DEF A, B

LEMMA VectorCardinality ==
  ASSUME NEW S
  PROVE  Array!Vector!Cardinality(S) = Cardinality(S)
BY DEF Array!Vector!Cardinality, Cardinality, Array!Vector!IsFiniteSet, IsFiniteSet

\* Every step of the array is the vector's, or changes no value.
LEMMA VectorNext ==
  ASSUME ArrayAssumption, ArrayInv, ArrayInv', [Array!Next]_(Array!vars)
  PROVE  [Array!Vector!Next]_<<ValuesOf(a), ValuesOf(w)>>
<1> DEFINE t == ValuesOf(a)
           u == ValuesOf(w)
<1>0. /\ a.i \in Nat /\ w.i \in Nat /\ MaxLen \in Nat /\ IsArray(a) /\ IsArray(w)
      /\ a.i <= MaxLen /\ IsArray(a') /\ IsArray(w')
  BY DEF IsArray, ArrayAssumption, ArrayInv
<1>1. /\ t \in Seq(Array!Elements) /\ Len(t) = a.i
      /\ u \in Seq(Array!Elements) /\ Len(u) = w.i
  BY <1>0, ValuesAre
<1>2. CASE UNCHANGED Array!vars
  BY <1>2 DEF Array!vars
<1>3. ASSUME NEW p \in Array!Elements, NEW j \in 0 .. MaxLen, t' = Array!Vector!Enter(t, <<p>>, j)
      PROVE  Array!Vector!Put
  BY <1>3 DEF Array!Vector!Put, Array!Elements, ValuesOf
<1>4. ASSUME NEW p \in Values, Array!PushBack(p) PROVE Array!Vector!Put
  <2>1. p \in Array!Elements /\ a' = Array!utarray_push_back(a, p) /\ a.i \in 0 .. MaxLen
    BY <1>0, <1>4, ElementsFacts DEF Array!PushBack
  <2>2. t' = Array!Vector!Enter(t, <<p>>, a.i)
    BY <1>0, <2>1, PushEnters
  <2> QED BY <1>3, <2>1, <2>2
<1>5. ASSUME Array!ExtendBack PROVE Array!Vector!Put
  <2>1. Zero \in Array!Elements /\ a' = Array!utarray_push_back(a, Zero) /\ a.i \in 0 .. MaxLen
    BY <1>0, <1>5, ElementsFacts, ExtendIsPush DEF Array!ExtendBack
  <2>2. t' = Array!Vector!Enter(t, <<Zero>>, a.i)
    BY <1>0, <2>1, PushEnters
  <2> QED BY <1>3, <2>1, <2>2
<1>6. ASSUME NEW p \in Values, Array!Insert(p) PROVE Array!Vector!Put
  <2>1. PICK j \in 0 .. MaxLen - 1 : a' = Array!utarray_insert(a, p, j)
    BY <1>6 DEF Array!Insert
  <2>2. p \in Array!Elements /\ j \in Nat /\ j \in 0 .. MaxLen
    BY <1>0, ElementsFacts
  <2> DEFINE v == [k \in {0} |-> p]
             one == <<p>>
  <2>3. a' = Filled(Array!Opened(a, j, 1), j, 1, v)
    <3>1. Array!utarray_insert(a, p, j) = Filled(Array!Opened(a, j, 1), j, 1, v)
      BY <1>0, <2>2, InsertKeeps
    <3> HIDE DEF v
    <3> QED BY <2>1, <3>1
  <2>4. one \in Seq(Array!Elements) /\ Len(one) = 1 /\ \A k \in 0 .. 1 - 1 : v[k] = one[k + 1]
    BY <2>2
  <2> HIDE DEF v, one
  <2>5. ValuesOf(Filled(Array!Opened(a, j, Len(one)), j, Len(one), v)) = Array!Vector!Enter(t, one, j)
    BY <1>0, <2>2, <2>4, FilledEnters
  <2>6. t' = Array!Vector!Enter(t, one, j)
    BY <2>3, <2>4, <2>5
  <2> QED BY <1>3, <2>2, <2>6 DEF one
<1>7. ASSUME NEW y, IsArray(y), y.i # 0, NEW j \in Nat, a' = Array!utarray_inserta(a, y, j)
      PROVE  t' = Array!Vector!Enter(t, ValuesOf(y), j)
  <2> DEFINE z == ValuesOf(y)
  <2>1. /\ z \in Seq(Array!Elements) /\ Len(z) = y.i /\ y.i \in Nat
        /\ \A k \in 1 .. y.i : z[k] = y.d[k - 1]
    BY <1>7, ValuesAre DEF IsArray
  <2> HIDE DEF z
  <2>2. a' = Filled(Array!Opened(a, j, Len(z)), j, Len(z), y.d)
    BY <1>0, <1>7, <2>1, InsertAKeeps
  <2>3. \A k \in 0 .. Len(z) - 1 : y.d[k] = z[k + 1]
    <3> SUFFICES ASSUME NEW k \in 0 .. Len(z) - 1 PROVE y.d[k] = z[k + 1]
      OBVIOUS
    <3>1. k + 1 \in 1 .. y.i /\ k + 1 - 1 = k
      BY <2>1
    <3> QED BY <2>1, <3>1
  <2>4. ValuesOf(Filled(Array!Opened(a, j, Len(z)), j, Len(z), y.d)) = Array!Vector!Enter(t, z, j)
    BY <1>0, <2>1, <2>3, FilledEnters
  <2> QED BY <2>2, <2>4 DEF z
<1>8. ASSUME NEW j \in 0 .. MaxLen, a' = Array!utarray_inserta(a, w, j)
      PROVE  Array!Vector!PutAll \/ t' = t
  <2>1. CASE w.i = 0
    <3>1. a' = a
      BY <1>0, <1>8, <2>1, InsertAKeeps
    <3> QED BY <3>1
  <2>2. CASE w.i # 0
    <3>1. t' = Array!Vector!Enter(t, u, j)
      BY <1>0, <1>7, <1>8, <2>2
    <3>2. u # <<>>
      BY <1>1, <2>2
    <3> QED BY <3>1, <3>2 DEF Array!Vector!PutAll, ValuesOf
  <2> QED BY <2>1, <2>2
<1>9. ASSUME Array!InsertA PROVE Array!Vector!PutAll \/ t' = t
  <2>1. PICK j \in 0 .. MaxLen - w.i : a' = Array!utarray_inserta(a, w, j)
    BY <1>9 DEF Array!InsertA
  <2>2. j \in 0 .. MaxLen
    BY <1>0
  <2> QED BY <1>8, <2>1, <2>2
<1>10. ASSUME a' = Array!utarray_inserta(a, a, a.i) PROVE Array!Vector!Double \/ t' = t
  <2>1. CASE a.i = 0
    <3>1. a' = a
      BY <1>0, <1>10, <2>1, InsertAKeeps
    <3> QED BY <3>1
  <2>2. CASE a.i # 0
    <3> DEFINE e == Array!Vector!Enter(t, t, a.i)
               d == t \o t
    <3>1. t' = e
      BY <1>0, <1>7, <1>10, <2>2
    <3>2. /\ e \in Seq(Array!Elements) /\ Len(e) = LongerOf(a.i, a.i) + a.i
          /\ \A k \in 1 .. Len(e) :
               e[k] = IF k <= a.i THEN IF k <= a.i THEN t[k] ELSE Zero
                      ELSE IF k <= a.i + a.i THEN t[k - a.i] ELSE t[k - a.i]
      <4> HIDE DEF t
      <4>1. Zero \in Array!Elements /\ t \in Seq(Array!Elements) /\ a.i \in Nat
        BY <1>0, <1>1, ElementsFacts
      <4>2. /\ e \in Seq(Array!Elements) /\ Len(e) = LongerOf(Len(t), a.i) + Len(t)
            /\ \A k \in 1 .. Len(e) :
                 e[k] = IF k <= a.i THEN IF k <= Len(t) THEN t[k] ELSE Zero
                        ELSE IF k <= a.i + Len(t) THEN t[k - a.i] ELSE t[k - Len(t)]
        BY <4>1, EnterIs
      <4> HIDE DEF e
      <4> QED BY <1>1, <4>2
    <3>3. /\ d \in Seq(Array!Elements) /\ Len(d) = a.i + a.i
          /\ \A k \in 1 .. a.i + a.i : d[k] = IF k <= a.i THEN t[k] ELSE t[k - a.i]
      <4> HIDE DEF t
      <4>1. /\ d \in Seq(Array!Elements) /\ Len(d) = Len(t) + Len(t)
            /\ \A k \in 1 .. Len(t) + Len(t) : d[k] = IF k <= Len(t) THEN t[k] ELSE t[k - Len(t)]
        BY <1>1, ConcatProperties
      <4> HIDE DEF d
      <4> QED BY <1>1, <4>1
    <3>4. e = d
      <4> HIDE DEF e, d, t
      <4>1. Len(e) = a.i + a.i
        BY <1>0, <3>2 DEF LongerOf
      <4>2. \A k \in 1 .. Len(e) : e[k] = d[k]
        BY <1>0, <3>2, <3>3, <4>1
      <4> QED BY <3>2, <3>3, <4>1, <4>2, SeqEqual
    <3> QED BY <3>1, <3>4 DEF Array!Vector!Double, ValuesOf
  <2> QED BY <2>1, <2>2
<1>11. ASSUME Array!Concat PROVE Array!Vector!PutAll \/ Array!Vector!Double \/ t' = t
  <2>1. PICK y \in {a, w} : a' = Array!utarray_inserta(a, y, a.i)
    BY <1>11 DEF Array!Concat, Array!utarray_concat
  <2>2. a.i \in 0 .. MaxLen
    BY <1>0
  <2>3. CASE y = a
    BY <1>10, <2>1, <2>3
  <2>4. CASE y = w
    BY <1>8, <2>1, <2>2, <2>4
  <2> QED BY <2>3, <2>4
<1>12. ASSUME NEW lo \in 1 .. a.i, NEW k \in 1 .. MaxLen, lo + k - 1 <= a.i,
              t' = Without(t, lo, k)
       PROVE  Array!Vector!Remove
  BY <1>1, <1>12 DEF Array!Vector!Remove, Without, ValuesOf
<1>13. ASSUME Array!PopBack PROVE Array!Vector!Remove
  <2>1. a.i > 0 /\ a' = Array!utarray_pop_back(a)
    BY <1>13 DEF Array!PopBack
  <2>2. a'.i = a.i - 1 /\ \A k \in 0 .. a.i - 2 : a'.d[k] = a.d[k]
    BY <1>0, <2>1, PopKeeps
  <2>3. a.i \in 1 .. a.i /\ a.i + 1 - 1 <= a.i /\ 1 \in Nat /\ 1 \in 1 .. MaxLen
    BY <1>0, <2>1
  <2>4. \A m \in 0 .. a.i - 1 - 1 : a'.d[m] = a.d[Skip(a.i - 1, 1, m)]
    BY <1>0, <2>2 DEF Skip
  <2>5. t' = Without(t, a.i, 1)
    BY <1>0, <2>2, <2>3, <2>4, EraseRemoves
  <2> QED BY <1>12, <2>3, <2>5
<1>14. ASSUME Array!Erase PROVE Array!Vector!Remove
  <2>1. PICK pos \in 0 .. a.i - 1 : \E k \in 1 .. a.i - pos : a' = Array!utarray_erase(a, pos, k)
    BY <1>14 DEF Array!Erase
  <2>2. PICK len \in 1 .. a.i - pos : a' = Array!utarray_erase(a, pos, len)
    BY <2>1
  <2>3. /\ pos \in Nat /\ len \in Nat /\ pos + len <= a.i /\ pos + 1 \in 1 .. a.i
        /\ pos + 1 + len - 1 <= a.i /\ len \in 1 .. MaxLen /\ pos + 1 - 1 = pos
    BY <1>0
  <2>4. a'.i = a.i - len /\ \A m \in 0 .. a.i - len - 1 : a'.d[m] = a.d[Skip(pos, len, m)]
    BY <1>0, <2>2, <2>3, EraseKeeps
  <2>5. t' = Without(t, pos + 1, len)
    BY <1>0, <2>3, <2>4, EraseRemoves
  <2> QED BY <1>12, <2>3, <2>5
<1>15. ASSUME NEW num \in 0 .. MaxLen, a'.i = num,
              \A k \in 0 .. num - 1 : a'.d[k] = IF k < a.i THEN a.d[k] ELSE Zero
       PROVE  Array!Vector!Resize
  <2>1. t' = SubSeq(t \o Array!Vector!Zeros(num - Len(t)), 1, num)
    <3>1. num \in Nat
      BY <1>0
    <3> QED BY <1>0, <1>15, <3>1, ResizeTakes
  <2> QED BY <2>1 DEF Array!Vector!Resize, ValuesOf
<1>16. ASSUME Array!Resize PROVE Array!Vector!Resize
  <2>1. PICK num \in 0 .. MaxLen : a' = Array!utarray_resize(a, num)
    BY <1>16 DEF Array!Resize
  <2>2. num \in Nat
    BY <1>0
  <2>3. a'.i = num /\ \A k \in 0 .. num - 1 : a'.d[k] = IF k < a.i THEN a.d[k] ELSE Zero
    BY <1>0, <2>1, <2>2, ResizeKeeps
  <2> QED BY <1>15, <2>3
<1>17. ASSUME a'.i = 0 PROVE Array!Vector!Resize
  <2>1. 0 \in 0 .. MaxLen /\ \A k \in 0 .. 0 - 1 : a'.d[k] = IF k < a.i THEN a.d[k] ELSE Zero
    BY <1>0
  <2> QED BY <1>15, <1>17, <2>1
<1>18. ASSUME Array!Clear PROVE Array!Vector!Resize
  <2>1. a' = Cut(a, 0)
    BY <1>18, ClearIsCut DEF Array!Clear
  <2>2. a'.i = 0
    BY <1>0, <2>1, CutKeeps
  <2> QED BY <1>17, <2>2
<1>19. ASSUME Array!Recreate PROVE Array!Vector!Resize
  BY <1>17, <1>19, NoArrayIs DEF Array!Recreate
<1>20. ASSUME Array!Sort PROVE Array!Vector!Sort
  <2>1. /\ a'.i = a.i
        /\ \A j, k \in 0 .. a.i - 1 : j < k => a'.d[j] <= a'.d[k]
        /\ \E f \in Bijection(0 .. a.i - 1, 0 .. a.i - 1) :
             \A k \in 0 .. a.i - 1 : a'.d[k] = a.d[f[k]]
    BY <1>0, <1>20, SortPermutes DEF Array!Sort
  <2>2. ASSUME NEW v
        PROVE  Array!Vector!Cardinality(Where(t', v)) = Array!Vector!Cardinality(Where(t, v))
    BY <1>0, <2>1, SortCounts, VectorCardinality
  <2>3. /\ Len(t') = a.i /\ DOMAIN t' = 1 .. a.i /\ Len(t) = a.i
        /\ \A k \in 1 .. a.i : t'[k] = a'.d[k - 1]
    BY <1>0, <1>1, <2>1, ValuesAre, LenProperties
  <2>4. ASSUME NEW j \in DOMAIN t', NEW k \in DOMAIN t', j < k PROVE t'[j] <= t'[k]
    <3>1. j - 1 \in 0 .. a.i - 1 /\ k - 1 \in 0 .. a.i - 1 /\ j - 1 < k - 1
      BY <1>0, <2>3, <2>4
    <3> QED BY <2>1, <2>3, <3>1
  <2> QED BY <2>2, <2>3, <2>4 DEF Array!Vector!Sort, Where, ValuesOf
<1>21. ASSUME Array!FillW, UNCHANGED a PROVE Array!Vector!Next
  <2>1. u' \in Seq(Values)
    <3>1. /\ w'.i \in Nat /\ \A k \in 1 .. w'.i : w'.d[k - 1] \in Values
      <4>1. w'.i \in Nat /\ \A k \in 0 .. w'.i - 1 : w'.d[k] \in Values
        BY <1>0 DEF IsArray, ArrayInv
      <4> QED BY <4>1
    <3>2. u' = [k \in 1 .. w'.i |-> w'.d[k - 1]]
      BY DEF ValuesOf, Array!ValuesOf
    <3> QED BY <3>1, <3>2
  <2>2. t' = t
    BY <1>21
  <2> QED BY <2>1, <2>2 DEF Array!Vector!Next, ValuesOf
<1>22. ASSUME \/ \E p \in Values : Array!PushBack(p) \/ Array!Insert(p)
              \/ Array!ExtendBack \/ Array!PopBack \/ Array!Resize \/ Array!InsertA \/ Array!Concat
              \/ Array!Erase \/ Array!Clear \/ Array!Sort \/ Array!Recreate,
              UNCHANGED w
       PROVE  Array!Vector!Next \/ UNCHANGED <<t, u>>
  <2>1. u' = u
    BY <1>22
  <2>2. \/ Array!Vector!Put \/ Array!Vector!PutAll \/ Array!Vector!Double \/ Array!Vector!Remove
        \/ Array!Vector!Resize \/ Array!Vector!Sort \/ t' = t
    BY <1>4, <1>5, <1>6, <1>9, <1>11, <1>13, <1>14, <1>16, <1>18, <1>19, <1>20, <1>22
  <2> QED BY <2>1, <2>2 DEF Array!Vector!Next, ValuesOf
<1> QED BY <1>2, <1>21, <1>22 DEF Array!Next

\* An array is the sequence of the copies of what was put in, and nothing of
\* what the slots hold besides, or of where they are, shows.
THEOREM ArrayIsVector == Array!Spec => ArrayImplementsVector
<1> ArrayAssumption
  BY ContainersAssumption
<1>1. Array!Init => ArrayInv /\ Array!Vector!Init
  <2>1. ASSUME Array!Init PROVE ValuesOf(a) = <<>> /\ ValuesOf(w) = <<>>
    <3>1. /\ ValuesOf(a) \in Seq(Array!Elements) /\ Len(ValuesOf(a)) = 0
          /\ ValuesOf(w) \in Seq(Array!Elements) /\ Len(ValuesOf(w)) = 0
      BY <2>1, NoArrayIs, ValuesAre DEF Array!Init
    <3> QED BY <3>1
  <2> QED BY <2>1, NoArrayIs DEF Array!Init, ArrayInv, ArrayAssumption, Array!Vector!Init, ValuesOf
<1>2. ArrayInv /\ [Array!Next]_(Array!vars) => ArrayInv'
  BY ArrayNext
<1>3. ArrayInv /\ ArrayInv' /\ [Array!Next]_(Array!vars)
        => [Array!Vector!Next]_<<ValuesOf(a), ValuesOf(w)>>
  BY VectorNext
<1>4. ArrayInv /\ ArrayInv' /\ [Array!Next]_(Array!vars)
        => [Array!Vector!Next]_<<Array!ValuesOf(a), Array!ValuesOf(w)>>
  BY <1>3 DEF ValuesOf
<1> QED BY <1>1, <1>2, <1>4, PTL DEF Array!Spec, ArrayImplementsVector, Array!ImplementsVector,
                                     Array!Vector!Spec

-----------------------------------------------------------------------------
(* The ring: its index is that of a slot, and the slots before it, or all  *)
(* if the ring is full, are the elements                                   *)

IndexInv == IF rn = 0 THEN ri = 0 /\ ~ rf ELSE ri < rn

RingInv == Ring!TypeOK /\ IndexInv /\ Ring!DestroyedOnce

LEMMA InitRing == Ring!Init => RingInv
<1> SUFFICES ASSUME Ring!Init PROVE RingInv
  OBVIOUS
<1>1. ri = 0 /\ rn = 0 /\ rf = FALSE /\ rd = [j \in 0 .. rn - 1 |-> Raw]
  BY DEF Ring!Init
<1>2. \A j \in 0 .. rn - 1 : FALSE
  BY <1>1
<1>3. rd \in [0 .. rn - 1 -> Ring!Slot]
  BY <1>1, <1>2
<1>4. rn \in 0 .. MaxSlots /\ ri \in 0 .. MaxSlots
  BY <1>1, ContainersAssumption DEF RingAssumption
<1>5. Ring!TypeOK
  <2>1. rf \in BOOLEAN
    BY <1>1
  <2> QED BY <1>3, <1>4, <2>1 DEF Ring!TypeOK
<1>6. IndexInv
  BY <1>1 DEF IndexInv
<1>7. Ring!DestroyedOnce
  BY <1>2 DEF Ring!DestroyedOnce
<1> QED BY <1>5, <1>6, <1>7 DEF RingInv

\* A ring whose slots are all raw, with the index at the first.
LEMMA RawRing ==
  ASSUME rn' \in 0 .. MaxSlots, ri' = 0, rf' = FALSE, rd' = [j \in 0 .. rn' - 1 |-> Raw]
  PROVE  RingInv'
<1>1. Ring!TypeOK'
  <2>1. rd' \in [0 .. rn' - 1 -> Ring!Slot]
    BY DEF Ring!Slot
  <2>2. ri' \in 0 .. MaxSlots
    BY ContainersAssumption DEF RingAssumption
  <2> QED BY <2>1, <2>2 DEF Ring!TypeOK
<1>2. IndexInv'
  BY DEF IndexInv
<1>3. Ring!DestroyedOnce'
  BY DEF Ring!DestroyedOnce
<1> QED BY <1>1, <1>2, <1>3 DEF RingInv

LEMMA NewRing ==
  ASSUME RingInv, NEW m \in 1 .. MaxSlots, Ring!utringbuffer_init(m)
  PROVE  RingInv'
<1>1. /\ rn' = m /\ ri' = 0 /\ rf' = FALSE
      /\ rd' = [j \in 0 .. m - 1 |-> Raw]
  BY DEF Ring!utringbuffer_init
<1>2. m \in 0 .. MaxSlots
  BY ContainersAssumption DEF RingAssumption
<1> QED BY <1>1, <1>2, RawRing

LEMMA ClearedRing ==
  ASSUME RingInv, Ring!utringbuffer_clear
  PROVE  RingInv'
<1>1. Ring!Cleared = [j \in 0 .. rn - 1 |-> Raw]
  BY DEF Ring!Cleared, Ring!icd_dtor, RingInv, Ring!DestroyedOnce
<1>2. rn' = rn /\ ri' = 0 /\ rf' = FALSE /\ rd' = Ring!Cleared
  BY DEF Ring!utringbuffer_clear
<1>3. rn \in 0 .. MaxSlots
  BY DEF RingInv, Ring!TypeOK
<1> QED BY <1>1, <1>2, <1>3, RawRing

LEMMA DoneRing ==
  ASSUME RingInv, Ring!utringbuffer_done
  PROVE  RingInv'
<1>1. rn' = 0 /\ ri' = 0 /\ rf' = FALSE /\ rd' = [j \in 0 .. -1 |-> Raw]
  BY DEF Ring!utringbuffer_done
<1>2. 0 \in 0 .. MaxSlots /\ 0 - 1 = -1
  BY ContainersAssumption DEF RingAssumption
<1> QED BY <1>1, <1>2, RawRing

\* The slot that is pushed to is raw by then.
LEMMA PushedSlot ==
  ASSUME RingInv, NEW p \in Values, Ring!utringbuffer_push_back(p)
  PROVE  rd' = [rd EXCEPT ![ri] = p]
<1>1. ri \in 0 .. rn - 1
  BY DEF RingInv, Ring!TypeOK, IndexInv, Ring!utringbuffer_push_back
<1>2. (IF rf THEN Ring!icd_dtor(rd[ri]) ELSE rd[ri]) = Raw
  BY <1>1 DEF RingInv, Ring!DestroyedOnce, Ring!icd_dtor, Ring!TypeOK
<1>3. Ring!icd_copy(IF rf THEN Ring!icd_dtor(rd[ri]) ELSE rd[ri], p) = p
  BY <1>2 DEF Ring!icd_copy
<1> QED BY <1>1, <1>3 DEF Ring!utringbuffer_push_back, RingInv, Ring!TypeOK

LEMMA PushedRing ==
  ASSUME RingInv, NEW p \in Values, Ring!utringbuffer_push_back(p)
  PROVE  RingInv'
<1>1. /\ rn \in 1 .. MaxSlots /\ ri \in 0 .. rn - 1 /\ rn' = rn
      /\ rd \in [0 .. rn - 1 -> Ring!Slot] /\ rf \in BOOLEAN
  BY ContainersAssumption DEF RingAssumption, RingInv, Ring!TypeOK, IndexInv, Ring!utringbuffer_push_back
<1>2. ri' \in 0 .. rn - 1 /\ ri' = (IF ri + 1 = rn THEN 0 ELSE ri + 1)
  BY <1>1 DEF Ring!utringbuffer_push_back, Ring!NextSlot
<1>3. rd' = [rd EXCEPT ![ri] = p]
  BY PushedSlot
<1>4. rf' \in BOOLEAN /\ (rf' <=> rf \/ ri + 1 = rn)
  BY <1>1 DEF Ring!utringbuffer_push_back
<1>5. Ring!TypeOK'
  BY <1>1, <1>2, <1>3, <1>4, ContainersAssumption DEF RingAssumption, Ring!TypeOK, Ring!Slot, Ring!Elements
<1>6. Ring!DestroyedOnce'
  <2> SUFFICES ASSUME NEW j \in 0 .. rn - 1
               PROVE  IF rf' \/ j < ri' THEN rd'[j] \in Ring!Elements ELSE rd'[j] = Raw
    BY <1>1 DEF Ring!DestroyedOnce
  <2>1. IF rf \/ j < ri THEN rd[j] \in Ring!Elements ELSE rd[j] = Raw
    BY DEF RingInv, Ring!DestroyedOnce
  <2>2. rd'[j] = IF j = ri THEN p ELSE rd[j]
    BY <1>1, <1>3
  <2> QED BY <1>1, <1>2, <1>4, <2>1, <2>2 DEF Ring!Elements
<1> QED BY <1>1, <1>2, <1>5, <1>6 DEF RingInv, IndexInv

LEMMA RingStep == RingInv /\ [Ring!Next]_(Ring!vars) => RingInv'
<1> SUFFICES ASSUME RingInv, [Ring!Next]_(Ring!vars) PROVE RingInv'
  OBVIOUS
<1>1. ASSUME NEW m \in 1 .. MaxSlots, Ring!utringbuffer_init(m) PROVE RingInv'
  BY <1>1, NewRing
<1>2. ASSUME NEW p \in Values, Ring!utringbuffer_push_back(p) PROVE RingInv'
  BY <1>2, PushedRing
<1>3. CASE Ring!utringbuffer_clear
  BY <1>3, ClearedRing
<1>4. CASE Ring!utringbuffer_done
  BY <1>4, DoneRing
<1>5. CASE UNCHANGED Ring!vars
  BY <1>5 DEF Ring!vars, RingInv, Ring!TypeOK, IndexInv, Ring!DestroyedOnce
<1> QED BY <1>1, <1>2, <1>3, <1>4, <1>5 DEF Ring!Next

\* Every step of utringbuffer.h keeps the index inside the ring and the slots
\* in use apart from the raw ones.
THEOREM RingInvariant == Ring!Spec => []RingInv
BY InitRing, RingStep, PTL DEF Ring!Spec

\* The fields of the struct keep their ranges: the index wraps in time.
THEOREM RingTypeCorrect == Ring!Spec => []Ring!TypeOK
BY RingInvariant, PTL DEF RingInv

\* No element is destroyed twice and none is lost, whatever is pushed, cleared
\* and made again.
THEOREM RingIsDestroyedOnce == Ring!Spec => []RingDestroyedOnce
BY RingInvariant, PTL DEF RingInv, RingDestroyedOnce

-----------------------------------------------------------------------------
(* The history.  RingSeen is Items as a function of the fields, so that    *)
(* what is proved of it holds before and after a step.                     *)

LEMMA Wrap ==
  ASSUME NEW m \in Nat \ {0}, NEW x \in 0 .. 2 * m - 1
  PROVE  x % m = IF x < m THEN x ELSE x - m
BY SMT

SlotOf(k, m, full, at) == IF full THEN (k - 1 + at) % m ELSE k - 1
RingSeen(m, full, at, slots) ==
  [k \in 1 .. IF full THEN m ELSE at |-> slots[SlotOf(k, m, full, at)]]

LEMMA SlotOfWraps ==
  ASSUME NEW m \in Nat \ {0}, NEW full \in BOOLEAN, NEW at \in 0 .. m - 1,
         NEW k \in 1 .. IF full THEN m ELSE at
  PROVE  /\ SlotOf(k, m, full, at) =
              IF full THEN IF k - 1 + at < m THEN k - 1 + at ELSE k - 1 + at - m
              ELSE k - 1
         /\ SlotOf(k, m, full, at) \in 0 .. m - 1
<1>1. CASE full
  <2>1. k - 1 + at \in 0 .. 2 * m - 1
    BY <1>1
  <2>2. (k - 1 + at) % m = IF k - 1 + at < m THEN k - 1 + at ELSE k - 1 + at - m
    <3> DEFINE x == k - 1 + at
    <3>1. x \in 0 .. 2 * m - 1
      BY <2>1
    <3> HIDE DEF x
    <3>2. x % m = IF x < m THEN x ELSE x - m
      BY <3>1, Wrap
    <3> QED BY <3>2 DEF x
  <2> QED BY <1>1, <2>2 DEF SlotOf
<1>2. CASE ~ full
  BY <1>2 DEF SlotOf
<1> QED BY <1>1, <1>2

LEMMA RingSeenIsSeq ==
  ASSUME NEW m \in Nat, NEW full \in BOOLEAN, NEW at \in Nat, NEW slots \in [0 .. m - 1 -> Ring!Slot],
         IF m = 0 THEN at = 0 /\ ~ full ELSE at < m
  PROVE  /\ RingSeen(m, full, at, slots) \in Seq(Ring!Slot)
         /\ Len(RingSeen(m, full, at, slots)) = IF full THEN m ELSE at
         /\ \A k \in 1 .. IF full THEN m ELSE at :
              RingSeen(m, full, at, slots)[k] = slots[SlotOf(k, m, full, at)]
<1> DEFINE len == IF full THEN m ELSE at
<1>1. len \in Nat
  OBVIOUS
<1>2. ASSUME NEW k \in 1 .. len PROVE slots[SlotOf(k, m, full, at)] \in Ring!Slot
  <2>1. m \in Nat \ {0} /\ at \in 0 .. m - 1
    BY <1>2
  <2>2. SlotOf(k, m, full, at) \in 0 .. m - 1
    BY <2>1, SlotOfWraps
  <2> QED BY <2>2
<1>3. RingSeen(m, full, at, slots) \in [1 .. len -> Ring!Slot]
  BY <1>2 DEF RingSeen
<1>4. RingSeen(m, full, at, slots) \in Seq(Ring!Slot)
  BY <1>1, <1>3, SeqDef
<1>5. Len(RingSeen(m, full, at, slots)) = len
  BY <1>1, <1>3, <1>4, LenProperties
<1>6. \A k \in 1 .. len : RingSeen(m, full, at, slots)[k] = slots[SlotOf(k, m, full, at)]
  BY DEF RingSeen
<1> QED BY <1>4, <1>5, <1>6

LEMMA SeenIsItems == Ring!Items = RingSeen(rn, rf, ri, rd)
BY DEF Ring!Items, Ring!utringbuffer_len, Ring!_utringbuffer_real_idx, RingSeen, SlotOf

LEMMA NothingSeen ==
  ASSUME NEW m, NEW slots
  PROVE  RingSeen(m, FALSE, 0, slots) = <<>>
BY DEF RingSeen

\* What a push does to what is seen.
LEMMA SeenAfterPush ==
  ASSUME RingInv, NEW p \in Values, Ring!utringbuffer_push_back(p)
  PROVE  Ring!Items' = IF Len(Ring!Items) < rn THEN Append(Ring!Items, p) ELSE Append(Tail(Ring!Items), p)
<1>1. /\ rn \in Nat \ {0} /\ ri \in 0 .. rn - 1 /\ rn' = rn
      /\ rd \in [0 .. rn - 1 -> Ring!Slot] /\ rf \in BOOLEAN
  BY ContainersAssumption DEF RingAssumption, RingInv, Ring!TypeOK, IndexInv, Ring!utringbuffer_push_back
<1>2. ri' \in 0 .. rn - 1 /\ ri' = (IF ri + 1 = rn THEN 0 ELSE ri + 1)
  BY <1>1 DEF Ring!utringbuffer_push_back, Ring!NextSlot
<1>3. rd' = [rd EXCEPT ![ri] = p]
  BY PushedSlot
<1>4. rf' \in BOOLEAN /\ (rf' <=> rf \/ ri + 1 = rn)
  BY <1>1 DEF Ring!utringbuffer_push_back
<1>5. p \in Ring!Slot
  BY DEF Ring!Slot, Ring!Elements
<1>6. rd' \in [0 .. rn - 1 -> Ring!Slot] /\ \A j \in 0 .. rn - 1 : rd'[j] = IF j = ri THEN p ELSE rd[j]
  BY <1>1, <1>3, <1>5
<1> DEFINE old == RingSeen(rn, rf, ri, rd)
           new == RingSeen(rn, rf', ri', rd')
           len == IF rf THEN rn ELSE ri
           len2 == IF rf' THEN rn ELSE ri'
<1>7. Ring!Items = old /\ Ring!Items' = new
  BY <1>1, SeenIsItems DEF Ring!Items, Ring!utringbuffer_len, Ring!_utringbuffer_real_idx, RingSeen, SlotOf
<1>8. /\ old \in Seq(Ring!Slot) /\ Len(old) = len
      /\ \A k \in 1 .. len : old[k] = rd[SlotOf(k, rn, rf, ri)]
  <2>1. rn \in Nat /\ rf \in BOOLEAN /\ ri \in Nat /\ rd \in [0 .. rn - 1 -> Ring!Slot]
    BY <1>1
  <2>2. IF rn = 0 THEN ri = 0 /\ ~ rf ELSE ri < rn
    BY <1>1
  <2> QED BY <2>1, <2>2, RingSeenIsSeq
<1>9. /\ new \in Seq(Ring!Slot) /\ Len(new) = len2
      /\ \A k \in 1 .. len2 : new[k] = rd'[SlotOf(k, rn, rf', ri')]
  <2>1. rn \in Nat /\ rf' \in BOOLEAN /\ ri' \in Nat /\ rd' \in [0 .. rn - 1 -> Ring!Slot]
    BY <1>1, <1>2, <1>4, <1>6
  <2>2. IF rn = 0 THEN ri' = 0 /\ ~ rf' ELSE ri' < rn
    BY <1>1, <1>2
  <2> QED BY <2>1, <2>2, RingSeenIsSeq
<1>10. \A k \in 1 .. len : /\ SlotOf(k, rn, rf, ri) \in 0 .. rn - 1
                           /\ SlotOf(k, rn, rf, ri) =
                                IF rf THEN IF k - 1 + ri < rn THEN k - 1 + ri ELSE k - 1 + ri - rn
                                ELSE k - 1
  <2> SUFFICES ASSUME NEW k \in 1 .. len
               PROVE  /\ SlotOf(k, rn, rf, ri) \in 0 .. rn - 1
                      /\ SlotOf(k, rn, rf, ri) =
                           IF rf THEN IF k - 1 + ri < rn THEN k - 1 + ri ELSE k - 1 + ri - rn
                           ELSE k - 1
    OBVIOUS
  <2>1. rn \in Nat \ {0} /\ rf \in BOOLEAN /\ ri \in 0 .. rn - 1 /\ k \in 1 .. IF rf THEN rn ELSE ri
    BY <1>1
  <2> QED BY <2>1, SlotOfWraps
<1>11. \A k \in 1 .. len2 : /\ SlotOf(k, rn, rf', ri') \in 0 .. rn - 1
                            /\ SlotOf(k, rn, rf', ri') =
                                 IF rf' THEN IF k - 1 + ri' < rn THEN k - 1 + ri' ELSE k - 1 + ri' - rn
                                 ELSE k - 1
  <2> SUFFICES ASSUME NEW k \in 1 .. len2
               PROVE  /\ SlotOf(k, rn, rf', ri') \in 0 .. rn - 1
                      /\ SlotOf(k, rn, rf', ri') =
                           IF rf' THEN IF k - 1 + ri' < rn THEN k - 1 + ri' ELSE k - 1 + ri' - rn
                           ELSE k - 1
    OBVIOUS
  <2>1. rn \in Nat \ {0} /\ rf' \in BOOLEAN /\ ri' \in 0 .. rn - 1 /\ k \in 1 .. IF rf' THEN rn ELSE ri'
    BY <1>1, <1>2, <1>4
  <2> QED BY <2>1, SlotOfWraps
<1> HIDE DEF old, new
<1>12. CASE ~ rf
  <2>1. rf = FALSE /\ len = ri /\ len2 = ri + 1
    BY <1>1, <1>2, <1>4, <1>12
  <2>a. \A k \in 1 .. ri : SlotOf(k, rn, rf, ri) = k - 1
    BY <2>1 DEF SlotOf
  <2>b. \A k \in 1 .. ri + 1 : SlotOf(k, rn, rf', ri') = k - 1
    <3>1. CASE rf'
      <4>1. ri' = 0 /\ ri + 1 = rn
        BY <1>2, <1>4, <2>1, <3>1
      <4>2. \A k \in 1 .. rn : SlotOf(k, rn, rf', ri') = IF k - 1 + ri' < rn THEN k - 1 + ri' ELSE k - 1 + ri' - rn
        BY <1>11, <3>1
      <4> HIDE DEF len, len2
      <4> QED BY <1>1, <4>1, <4>2
    <3>2. CASE ~ rf'
      BY <3>2 DEF SlotOf
    <3> QED BY <3>1, <3>2
  <2> HIDE DEF len, len2
  <2>2. \A k \in 1 .. ri : new[k] = old[k]
    <3> TAKE k \in 1 .. ri
    <3>1. k - 1 \in 0 .. rn - 1 /\ k - 1 # ri /\ k \in 1 .. len2 /\ k \in 1 .. ri + 1
      BY <1>1, <2>1
    <3>2. new[k] = rd'[k - 1] /\ old[k] = rd[k - 1]
      BY <1>8, <1>9, <2>1, <2>a, <2>b, <3>1
    <3> QED BY <1>6, <3>1, <3>2
  <2>3. new[ri + 1] = p
    <3>1. ri + 1 \in 1 .. ri + 1 /\ ri + 1 - 1 = ri
      BY <1>1
    <3> QED BY <1>1, <1>6, <1>9, <2>1, <2>b, <3>1
  <2>4. /\ Append(old, p) \in Seq(Ring!Slot) /\ Len(Append(old, p)) = ri + 1
        /\ \A k \in 1 .. ri : Append(old, p)[k] = old[k]
        /\ Append(old, p)[ri + 1] = p
    BY <1>1, <1>5, <1>8, <2>1, AppendProperties
  <2>5. \A k \in 1 .. ri + 1 : new[k] = Append(old, p)[k]
    BY <1>1, <2>2, <2>3, <2>4
  <2>6. new = Append(old, p)
    BY <1>9, <2>1, <2>4, <2>5, SeqEqual
  <2> QED BY <1>1, <1>7, <1>8, <2>1, <2>6
<1>13. CASE rf
  <2>1. rf = TRUE /\ rf' = TRUE /\ len = rn /\ len2 = rn
    BY <1>1, <1>4, <1>13
  <2>a. \A k \in 1 .. rn : SlotOf(k, rn, rf, ri) = IF k - 1 + ri < rn THEN k - 1 + ri ELSE k - 1 + ri - rn
    BY <1>10, <2>1
  <2>b. \A k \in 1 .. rn : SlotOf(k, rn, rf', ri') = IF k + ri < rn THEN k + ri ELSE k + ri - rn
    <3> TAKE k \in 1 .. rn
    <3>1. SlotOf(k, rn, rf', ri') = IF k - 1 + ri' < rn THEN k - 1 + ri' ELSE k - 1 + ri' - rn
      BY <1>11, <2>1
    <3> HIDE DEF len, len2
    <3> QED BY <1>1, <1>2, <3>1
  <2>c. \A k \in 1 .. rn : SlotOf(k, rn, rf, ri) \in 0 .. rn - 1
    BY <1>10, <2>1
  <2> HIDE DEF len, len2
  <2>2. \A k \in 1 .. rn - 1 : new[k] = old[k + 1]
    <3> TAKE k \in 1 .. rn - 1
    <3>1. k \in 1 .. rn /\ k + 1 \in 1 .. rn
      BY <1>1
    <3>2. SlotOf(k, rn, rf', ri') = SlotOf(k + 1, rn, rf, ri)
      BY <1>1, <2>a, <2>b, <3>1
    <3>3. SlotOf(k + 1, rn, rf, ri) # ri
      BY <1>1, <2>a, <3>1
    <3>4. new[k] = rd'[SlotOf(k, rn, rf', ri')] /\ old[k + 1] = rd[SlotOf(k + 1, rn, rf, ri)]
      BY <1>8, <1>9, <2>1, <3>1
    <3> QED BY <1>6, <2>c, <3>1, <3>2, <3>3, <3>4
  <2>3. new[rn] = p
    <3>1. rn \in 1 .. rn
      BY <1>1
    <3>2. SlotOf(rn, rn, rf', ri') = ri
      BY <1>1, <2>b, <3>1
    <3> QED BY <1>1, <1>6, <1>9, <2>1, <3>1, <3>2
  <2>4. /\ Tail(old) \in Seq(Ring!Slot) /\ Len(Tail(old)) = rn - 1
        /\ \A k \in 1 .. rn - 1 : Tail(old)[k] = old[k + 1]
    <3>1. old # <<>>
      BY <1>1, <1>8, <2>1, EmptySeq
    <3> QED BY <1>8, <2>1, <3>1, HeadTailProperties
  <2>5. /\ Append(Tail(old), p) \in Seq(Ring!Slot) /\ Len(Append(Tail(old), p)) = rn
        /\ \A k \in 1 .. rn - 1 : Append(Tail(old), p)[k] = old[k + 1]
        /\ Append(Tail(old), p)[rn] = p
    BY <1>1, <1>5, <2>4, AppendProperties
  <2>6. \A k \in 1 .. rn : new[k] = Append(Tail(old), p)[k]
    BY <1>1, <2>2, <2>3, <2>5
  <2>7. new = Append(Tail(old), p)
    BY <1>9, <2>1, <2>5, <2>6, SeqEqual
  <2> QED BY <1>1, <1>7, <1>8, <2>1, <2>7
<1> QED BY <1>1, <1>12, <1>13

LEMMA HistoryStep == RingInv /\ RingInv' /\ [Ring!Next]_(Ring!vars) => [Ring!History!Next]_<<rn, Ring!Items>>
<1> SUFFICES ASSUME RingInv, RingInv', [Ring!Next]_(Ring!vars) PROVE [Ring!History!Next]_<<rn, Ring!Items>>
  OBVIOUS
<1>1. ri' = 0 /\ rf' = FALSE => Ring!Items' = <<>>
  BY NothingSeen DEF Ring!Items, Ring!utringbuffer_len, Ring!_utringbuffer_real_idx, RingSeen, SlotOf
<1>2. ASSUME NEW m \in 1 .. MaxSlots, Ring!utringbuffer_init(m) PROVE Ring!History!Resize
  BY <1>1, <1>2, ContainersAssumption DEF RingAssumption, Ring!utringbuffer_init, Ring!History!Resize
<1>3. ASSUME NEW p \in Values, Ring!utringbuffer_push_back(p) PROVE Ring!History!Push(p)
  BY <1>3, SeenAfterPush DEF Ring!History!Push, Ring!utringbuffer_push_back
<1>4. ASSUME Ring!utringbuffer_clear PROVE Ring!History!Clear
  BY <1>1, <1>4 DEF Ring!utringbuffer_clear, Ring!History!Clear
<1>5. ASSUME Ring!utringbuffer_done PROVE Ring!History!Resize
  BY <1>1, <1>5, ContainersAssumption DEF RingAssumption, Ring!utringbuffer_done, Ring!History!Resize
<1>6. CASE UNCHANGED Ring!vars
  BY <1>6 DEF Ring!vars, Ring!Items, Ring!utringbuffer_len, Ring!_utringbuffer_real_idx
<1> QED BY <1>2, <1>3, <1>4, <1>5, <1>6 DEF Ring!Next, Ring!History!Next

\* The ring of utringbuffer.h is a history: a reader finds the last n values
\* pushed since it was made or cleared, oldest first, and nothing else.
THEOREM RingIsHistory == Ring!Spec => RingRemembersLast
<1>1. Ring!Init => Ring!History!Init
  BY NothingSeen DEF Ring!Init, Ring!History!Init, Ring!Items, Ring!utringbuffer_len, Ring!_utringbuffer_real_idx,
                     RingSeen, SlotOf
<1> QED BY <1>1, HistoryStep, RingInvariant, PTL DEF Ring!Spec, RingRemembersLast, Ring!RemembersLast, Ring!History!Spec

-----------------------------------------------------------------------------
(* The stacks: following the links *)

Nodes == Elts \cup {NULL}
WalkFrom(f, link, q, k) == IF q = NULL \/ k = 0 THEN <<>> ELSE <<q>> \o f[k - 1][link[q]]
Walks(f, link, N) == f = [k \in 0 .. N |-> [q \in Nodes |-> WalkFrom(f, link, q, k)]]

LEMMA WalkDefined ==
  ASSUME NEW link, \A q \in Elts : link[q] \in Nodes, NEW N \in Nat
  PROVE  \E f : Walks(f, link, N)
<1> DEFINE Right(f, b) == \A q \in Nodes, k \in 0 .. N :
                            k <= b => f[k][q] = WalkFrom(f, link, q, k)
           P == { b \in Nat : \E f : f = [k \in 0 .. N |-> [q \in Nodes |-> f[k][q]]] /\ Right(f, b) }
<1>1. 0 \in P
  <2> DEFINE g == [k \in 0 .. N |-> [q \in Nodes |-> <<>>]]
  <2>1. g = [k \in 0 .. N |-> [q \in Nodes |-> g[k][q]]] /\ Right(g, 0)
    BY DEF WalkFrom
  <2> HIDE DEF g, Right
  <2> QED BY <2>1
<1>2. ASSUME NEW b \in Nat, b \in P PROVE b + 1 \in P
  <2>1. PICK f : f = [k \in 0 .. N |-> [q \in Nodes |-> f[k][q]]] /\ Right(f, b)
    BY <1>2
  <2> DEFINE g == [k \in 0 .. N |-> [q \in Nodes |-> WalkFrom(f, link, q, k)]]
  <2>2. \A q \in Nodes, k \in 0 .. N : g[k][q] = WalkFrom(f, link, q, k)
    OBVIOUS
  <2>3. g = [k \in 0 .. N |-> [q \in Nodes |-> g[k][q]]]
    OBVIOUS
  <2> HIDE DEF g
  <2>4. ASSUME NEW q \in Nodes, NEW k \in 0 .. N, k <= b + 1
        PROVE  WalkFrom(g, link, q, k) = WalkFrom(f, link, q, k)
    <3>1. CASE q = NULL \/ k = 0
      BY <3>1 DEF WalkFrom
    <3>2. CASE ~ (q = NULL \/ k = 0)
      <4>1. link[q] \in Nodes /\ k - 1 \in 0 .. N /\ k - 1 <= b
        BY <2>4, <3>2 DEF Nodes
      <4>2. f[k - 1][link[q]] = WalkFrom(f, link, link[q], k - 1)
        BY <2>1, <4>1
      <4>3. g[k - 1][link[q]] = f[k - 1][link[q]]
        BY <2>2, <4>1, <4>2
      <4> QED BY <3>2, <4>3 DEF WalkFrom
    <3> QED BY <3>1, <3>2
  <2>5. Right(g, b + 1)
    BY <2>2, <2>4
  <2> HIDE DEF Right
  <2> QED BY <2>3, <2>5
<1>3. \A b \in Nat : b \in P
  <2> HIDE DEF P
  <2> QED BY <1>1, <1>2, Induction
<1>4. PICK f : f = [k \in 0 .. N |-> [q \in Nodes |-> f[k][q]]] /\ Right(f, N)
  BY <1>3
<1>5. \A q \in Nodes, k \in 0 .. N : f[k][q] = WalkFrom(f, link, q, k)
  BY <1>4
<1>6. f = [k \in 0 .. N |-> [q \in Nodes |-> WalkFrom(f, link, q, k)]]
  BY <1>4, <1>5
<1> QED BY <1>6 DEF Walks

\* The element at j, or NULL past the end.
At(t, j) == IF j <= Len(t) THEN t[j] ELSE NULL

Linked(t, link) == \A j \in 1 .. Len(t) : link[t[j]] = At(t, j + 1)

LEMMA WalkFollows ==
  ASSUME StackAssumption, NEW link, NEW N \in Nat, NEW f, Walks(f, link, N),
         NEW t \in Seq(Elts), Linked(t, link), Len(t) <= N
  PROVE  f[N][At(t, 1)] = t
<1> DEFINE n == Len(t)
           P == { m \in Nat : m <= n => \A k \in 0 .. N : k >= m =>
                    f[k][At(t, n - m + 1)] = SubSeq(t, n - m + 1, n) }
<1>0. n \in Nat /\ \A j \in 1 .. n : t[j] \in Elts
  BY ElementOfSeq
<1>1. \A q \in Nodes, k \in 0 .. N : f[k][q] = WalkFrom(f, link, q, k)
  <2> DEFINE g == [k \in 0 .. N |-> [q \in Nodes |-> WalkFrom(f, link, q, k)]]
  <2>1. f = g
    BY DEF Walks
  <2>2. \A q \in Nodes, k \in 0 .. N : g[k][q] = WalkFrom(f, link, q, k)
    OBVIOUS
  <2> HIDE DEF g
  <2> QED BY <2>1, <2>2
<1>2. 0 \in P
  <2>1. At(t, n + 1) = NULL /\ NULL \in Nodes
    BY <1>0 DEF At, Nodes
  <2>2. SubSeq(t, n + 1, n) = <<>>
    BY <1>0, SubSeqEmpty
  <2>3. \A k \in 0 .. N : f[k][NULL] = <<>>
    BY <1>1, <2>1 DEF WalkFrom
  <2>4. n - 0 + 1 = n + 1
    BY <1>0
  <2> HIDE DEF n
  <2> QED BY <2>1, <2>2, <2>3, <2>4
<1>3. ASSUME NEW m \in Nat, m \in P PROVE m + 1 \in P
  <2> SUFFICES ASSUME m + 1 <= n, NEW k \in 0 .. N, k >= m + 1
               PROVE  f[k][At(t, n - m)] = SubSeq(t, n - m, n)
    <3>1. n - (m + 1) + 1 = n - m
      BY <1>0
    <3> HIDE DEF n
    <3> QED BY <3>1
  <2> DEFINE j == n - m
  <2>1. j \in 1 .. n /\ At(t, j) = t[j] /\ t[j] \in Nodes /\ t[j] # NULL
    BY <1>0 DEF At, Nodes, StackAssumption
  <2>2. k - 1 \in 0 .. N /\ k - 1 >= m /\ k # 0 /\ m <= n /\ n - m + 1 = j + 1
    BY <1>0
  <2>3. f[k - 1][At(t, j + 1)] = SubSeq(t, j + 1, n)
    <3> HIDE DEF n
    <3> QED BY <1>3, <2>2
  <2>4. link[t[j]] = At(t, j + 1)
    BY <2>1 DEF Linked
  <2>5. f[k][t[j]] = <<t[j]>> \o SubSeq(t, j + 1, n)
    <3>1. f[k][t[j]] = WalkFrom(f, link, t[j], k)
      BY <1>1, <2>1
    <3>2. f[k][t[j]] = <<t[j]>> \o f[k - 1][link[t[j]]]
      BY <2>1, <2>2, <3>1 DEF WalkFrom
    <3> HIDE DEF j, n
    <3> QED BY <2>3, <2>4, <3>2
  <2>6. SubSeq(t, j, n) = <<t[j]>> \o SubSeq(t, j + 1, n)
    <3>1. n \in j .. Len(t)
      BY <1>0, <2>1
    <3> QED BY <2>1, <3>1, SubSeqRecursiveFirst
  <2> QED BY <2>1, <2>5, <2>6
<1>4. n \in P
  <2> HIDE DEF P
  <2> QED BY <1>0, <1>2, <1>3, Induction
<1>5. f[N][At(t, n - n + 1)] = SubSeq(t, n - n + 1, n)
  <2>1. N \in 0 .. N /\ N >= n /\ n <= n
    BY <1>0
  <2> HIDE DEF n
  <2> QED BY <1>4, <2>1
<1>6. n - n + 1 = 1
  BY <1>0
<1> QED BY <1>5, <1>6, SubSeqFull

LEMMA StackCardinality ==
  ASSUME NEW S
  PROVE  Stack!Cardinality(S) = Cardinality(S)
BY DEF Stack!Cardinality, Cardinality, Stack!IsFiniteSet, IsFiniteSet

LEMMA LinksAre ==
  ASSUME StackAssumption, NEW st \in Stacks, NEW t \in Seq(Elts),
         head \in [Stacks -> Nodes], next \in [Elts -> Nodes],
         head[st] = At(t, 1), Linked(t, next), Len(t) <= Cardinality(Elts)
  PROVE  Stack!Links(next)[st] = t
<1> DEFINE N == Stack!Cardinality(Elts) + 1
           f0 == CHOOSE f : f = [k \in 0 .. N |-> [q \in Elts \cup {NULL} |->
                   IF q = NULL \/ k = 0 THEN <<>> ELSE <<q>> \o f[k - 1][next[q]]]]
           f1 == CHOOSE f : Walks(f, next, N)
<1>1. N \in Nat /\ Len(t) <= N /\ Len(t) \in Nat
  <2>1. Cardinality(Elts) \in Nat /\ Stack!Cardinality(Elts) = Cardinality(Elts) /\ Len(t) \in Nat
    BY FS_CardinalityType, StackCardinality DEF StackAssumption
  <2> QED BY <2>1
<1>2. f0 = f1
  BY DEF Walks, WalkFrom, Nodes
<1>3. \E f : Walks(f, next, N)
  BY <1>1, WalkDefined
<1>4. Walks(f1, next, N)
  BY <1>3
<1>5. Stack!Links(next)[st] = f0[N][head[st]]
  BY DEF Stack!Links
<1>6. f1[N][head[st]] = t
  <2> HIDE DEF f1, N
  <2> QED BY <1>1, <1>4, WalkFollows
<1> HIDE DEF f0, f1
<1> QED BY <1>2, <1>5, <1>6

\* No element is on two stacks, or twice on one.
Apart(stacks) ==
  \A st, u \in Stacks : \A j \in 1 .. Len(stacks[st]), k \in 1 .. Len(stacks[u]) :
    stacks[st][j] = stacks[u][k] => st = u /\ j = k

StackInv ==
  /\ head \in [Stacks -> Nodes] /\ next \in [Elts -> Nodes] /\ pushed \in [Stacks -> Seq(Elts)]
  /\ \A st \in Stacks : head[st] = At(pushed[st], 1) /\ Linked(pushed[st], next)
  /\ Apart(pushed)

LEMMA PushedIs ==
  ASSUME NEW t \in Seq(Elts), NEW add \in Elts
  PROVE  LET v == <<add>> \o t
         IN  /\ v \in Seq(Elts) /\ Len(v) = Len(t) + 1 /\ v[1] = add
             /\ \A j \in 2 .. Len(v) : v[j] = t[j - 1]
             /\ \A j \in 1 .. Len(t) + 1 : At(v, j + 1) = At(t, j)
<1> DEFINE v == <<add>> \o t
           one == <<add>>
<1>0. Len(t) \in Nat /\ one \in Seq(Elts) /\ Len(one) = 1 /\ one[1] = add
  OBVIOUS
<1>1. /\ v \in Seq(Elts) /\ Len(v) = Len(one) + Len(t)
      /\ \A j \in 1 .. Len(one) + Len(t) : v[j] = IF j <= Len(one) THEN one[j] ELSE t[j - Len(one)]
  <2> HIDE DEF one
  <2> QED BY <1>0, ConcatProperties DEF one
<1> HIDE DEF v, one
<1>2. Len(v) = Len(t) + 1 /\ v[1] = add /\ \A j \in 2 .. Len(v) : v[j] = t[j - 1]
  BY <1>0, <1>1
<1>3. ASSUME NEW j \in 1 .. Len(t) + 1 PROVE At(v, j + 1) = At(t, j)
  BY <1>0, <1>2 DEF At
<1> QED BY <1>1, <1>2, <1>3 DEF v

LEMMA TailIs ==
  ASSUME NEW t \in Seq(Elts), t # <<>>
  PROVE  /\ Tail(t) \in Seq(Elts) /\ Len(Tail(t)) = Len(t) - 1 /\ Len(t) >= 1
         /\ \A j \in 1 .. Len(t) - 1 : Tail(t)[j] = t[j + 1]
         /\ \A j \in 1 .. Len(t) : At(Tail(t), j) = At(t, j + 1)
<1>1. /\ Tail(t) \in Seq(Elts) /\ Len(Tail(t)) = Len(t) - 1
      /\ \A j \in 1 .. Len(Tail(t)) : Tail(t)[j] = t[j + 1]
  BY HeadTailProperties
<1>2. Len(t) \in Nat /\ Len(t) >= 1
  BY EmptySeq
<1>3. ASSUME NEW j \in 1 .. Len(t) PROVE At(Tail(t), j) = At(t, j + 1)
  BY <1>1, <1>2 DEF At
<1> QED BY <1>1, <1>2, <1>3

LEMMA PushKeepsStacks ==
  ASSUME StackAssumption, StackInv, NEW st \in Stacks, NEW add \in Elts, Stack!Push(st, add)
  PROVE  StackInv'
<1> DEFINE t == pushed[st]
           v == <<add>> \o t
<1>0. /\ t \in Seq(Elts) /\ add # NULL /\ add \in Nodes /\ Len(t) \in Nat
      /\ \A u \in Stacks : \A k \in 1 .. Len(pushed[u]) : pushed[u][k] # add
  BY LenProperties DEF StackInv, Stack!Push, StackAssumption, Nodes
<1>1. /\ next' = [next EXCEPT ![add] = head[st]]
      /\ head' = [head EXCEPT ![st] = add]
      /\ pushed' = [pushed EXCEPT ![st] = v]
  BY DEF Stack!Push, Stack!LinkOf
<1>2. /\ v \in Seq(Elts) /\ Len(v) = Len(t) + 1 /\ v[1] = add
      /\ \A j \in 2 .. Len(v) : v[j] = t[j - 1]
      /\ \A j \in 1 .. Len(t) + 1 : At(v, j + 1) = At(t, j)
  BY <1>0, PushedIs
<1> HIDE DEF v
<1>3. /\ head' \in [Stacks -> Nodes] /\ next' \in [Elts -> Nodes]
      /\ pushed' \in [Stacks -> Seq(Elts)]
      /\ pushed'[st] = v /\ \A u \in Stacks \ {st} : pushed'[u] = pushed[u]
      /\ head'[st] = add /\ \A u \in Stacks \ {st} : head'[u] = head[u]
      /\ next'[add] = head[st] /\ \A q \in Elts \ {add} : next'[q] = next[q]
  BY <1>0, <1>1, <1>2 DEF StackInv
<1>4. ASSUME NEW u \in Stacks, u # st
      PROVE  head'[u] = At(pushed'[u], 1) /\ Linked(pushed'[u], next')
  <2>1. pushed[u] \in Seq(Elts) /\ head[u] = At(pushed[u], 1) /\ Linked(pushed[u], next)
    BY DEF StackInv
  <2>2. ASSUME NEW j \in 1 .. Len(pushed[u]) PROVE next'[pushed[u][j]] = At(pushed[u], j + 1)
    <3>1. pushed[u][j] \in Elts \ {add}
      BY <1>0, <2>1, ElementOfSeq
    <3> QED BY <1>3, <2>1, <3>1 DEF Linked
  <2> QED BY <1>3, <1>4, <2>1, <2>2 DEF Linked
<1>5. head'[st] = At(v, 1) /\ Linked(v, next')
  <2>1. head'[st] = At(v, 1)
    BY <1>0, <1>2, <1>3 DEF At
  <2>2. ASSUME NEW j \in 1 .. Len(v) PROVE next'[v[j]] = At(v, j + 1)
    <3>1. CASE j = 1
      <4>1. head[st] = At(t, 1) /\ At(v, 1 + 1) = At(t, 1)
        BY <1>0, <1>2 DEF StackInv
      <4> QED BY <1>2, <1>3, <3>1, <4>1
    <3>2. CASE j # 1
      <4>1. j - 1 \in 1 .. Len(t) /\ v[j] = t[j - 1] /\ j \in 1 .. Len(t) + 1 /\ j - 1 + 1 = j
        BY <1>0, <1>2, <3>2
      <4>2. t[j - 1] \in Elts \ {add}
        BY <1>0, <4>1, ElementOfSeq
      <4>3. next[t[j - 1]] = At(t, j)
        BY <4>1 DEF StackInv, Linked
      <4> QED BY <1>2, <1>3, <4>1, <4>2, <4>3
    <3> QED BY <3>1, <3>2
  <2> QED BY <2>1, <2>2 DEF Linked
<1>6. ASSUME NEW u \in Stacks, NEW x \in Stacks, NEW j \in 1 .. Len(pushed'[u]),
             NEW k \in 1 .. Len(pushed'[x]), pushed'[u][j] = pushed'[x][k]
      PROVE  u = x /\ j = k
  <2>1. ASSUME NEW y \in Stacks, NEW m \in 1 .. Len(pushed'[y])
        PROVE  \/ y = st /\ m = 1 /\ pushed'[y][m] = add
               \/ y = st /\ m - 1 \in 1 .. Len(pushed[y]) /\ pushed'[y][m] = pushed[y][m - 1]
               \/ y # st /\ m \in 1 .. Len(pushed[y]) /\ pushed'[y][m] = pushed[y][m]
    <3>1. CASE y # st
      BY <1>3, <3>1
    <3>2. CASE y = st
      <4>1. pushed'[y] = v /\ m \in 1 .. Len(v) /\ m \in Int
        BY <1>3, <3>2
      <4>2. m = 1 \/ (m \in 2 .. Len(v) /\ m - 1 \in 1 .. Len(t))
        BY <1>0, <1>2, <4>1
      <4>3. m = 1 => pushed'[y][m] = add
        BY <1>2, <4>1
      <4>4. m \in 2 .. Len(v) => pushed'[y][m] = pushed[y][m - 1]
        BY <1>2, <3>2, <4>1
      <4> QED BY <3>2, <4>2, <4>3, <4>4
    <3> QED BY <3>1, <3>2
  <2>2. \A y, z \in Stacks : \A m \in 1 .. Len(pushed[y]), n \in 1 .. Len(pushed[z]) :
          pushed[y][m] = pushed[z][n] => y = z /\ m = n
    BY DEF StackInv, Apart
  <2>3. \/ u = st /\ j = 1 /\ pushed'[u][j] = add
        \/ u = st /\ j - 1 \in 1 .. Len(pushed[u]) /\ pushed'[u][j] = pushed[u][j - 1]
        \/ u # st /\ j \in 1 .. Len(pushed[u]) /\ pushed'[u][j] = pushed[u][j]
    BY <2>1
  <2>4. \/ x = st /\ k = 1 /\ pushed'[x][k] = add
        \/ x = st /\ k - 1 \in 1 .. Len(pushed[x]) /\ pushed'[x][k] = pushed[x][k - 1]
        \/ x # st /\ k \in 1 .. Len(pushed[x]) /\ pushed'[x][k] = pushed[x][k]
    BY <2>1
  <2>5. j \in Int /\ k \in Int
    OBVIOUS
  <2>6. CASE u = st /\ j = 1 /\ pushed'[u][j] = add
    <3>1. x = st /\ k = 1
      BY <1>0, <1>6, <2>4, <2>6
    <3> QED BY <2>6, <3>1
  <2>7. CASE u = st /\ j - 1 \in 1 .. Len(pushed[u]) /\ pushed'[u][j] = pushed[u][j - 1]
    <3>1. ~ (x = st /\ k = 1 /\ pushed'[x][k] = add)
      BY <1>0, <1>6, <2>7
    <3> QED BY <1>6, <2>2, <2>4, <2>5, <2>7, <3>1
  <2>8. CASE u # st /\ j \in 1 .. Len(pushed[u]) /\ pushed'[u][j] = pushed[u][j]
    <3>1. ~ (x = st /\ k = 1 /\ pushed'[x][k] = add)
      BY <1>0, <1>6, <2>8
    <3> QED BY <1>6, <2>2, <2>4, <2>5, <2>8, <3>1
  <2> QED BY <2>3, <2>6, <2>7, <2>8
<1>7. Apart(pushed')
  BY <1>6 DEF Apart
<1> QED BY <1>3, <1>4, <1>5, <1>7 DEF StackInv

LEMMA PopKeepsStacks ==
  ASSUME StackAssumption, StackInv, NEW st \in Stacks, Stack!Pop(st)
  PROVE  StackInv'
<1> DEFINE t == pushed[st]
           v == Tail(t)
<1>0. t \in Seq(Elts) /\ Len(t) \in Nat /\ head[st] # NULL /\ head[st] = At(t, 1)
  BY LenProperties DEF StackInv, Stack!Pop, Stack!STACK_EMPTY
<1>1. /\ t # <<>> /\ head[st] = t[1] /\ t[1] \in Elts
  <2>1. 1 <= Len(t) /\ head[st] = t[1]
    BY <1>0 DEF At
  <2> QED BY <1>0, <2>1, ElementOfSeq
<1>2. /\ v \in Seq(Elts) /\ Len(v) = Len(t) - 1 /\ Len(t) >= 1
      /\ \A j \in 1 .. Len(t) - 1 : v[j] = t[j + 1]
      /\ \A j \in 1 .. Len(t) : At(v, j) = At(t, j + 1)
  BY <1>0, <1>1, TailIs
<1>3. /\ next' = next /\ head' = [head EXCEPT ![st] = next[head[st]]]
      /\ pushed' = [pushed EXCEPT ![st] = v]
  BY DEF Stack!Pop
<1> HIDE DEF v
<1>4. /\ head' \in [Stacks -> Nodes] /\ pushed' \in [Stacks -> Seq(Elts)]
      /\ pushed'[st] = v /\ \A u \in Stacks \ {st} : pushed'[u] = pushed[u]
      /\ head'[st] = next[t[1]] /\ \A u \in Stacks \ {st} : head'[u] = head[u]
  BY <1>1, <1>2, <1>3 DEF StackInv
<1>5. next[t[1]] = At(t, 1 + 1) /\ \A j \in 1 .. Len(t) : next[t[j]] = At(t, j + 1)
  <2>1. 1 \in 1 .. Len(t)
    BY <1>0, <1>2
  <2> QED BY <2>1 DEF StackInv, Linked
<1>6. head'[st] = At(v, 1) /\ Linked(v, next)
  <2>1. head'[st] = At(v, 1)
    BY <1>0, <1>2, <1>4, <1>5
  <2>2. ASSUME NEW j \in 1 .. Len(v) PROVE next[v[j]] = At(v, j + 1)
    <3>1. j \in 1 .. Len(t) - 1 /\ j + 1 \in 1 .. Len(t)
      BY <1>0, <1>2
    <3> QED BY <1>2, <1>5, <3>1
  <2> QED BY <2>1, <2>2 DEF Linked
<1>7. ASSUME NEW u \in Stacks, NEW x \in Stacks, NEW j \in 1 .. Len(pushed'[u]),
             NEW k \in 1 .. Len(pushed'[x]), pushed'[u][j] = pushed'[x][k]
      PROVE  u = x /\ j = k
  <2>1. ASSUME NEW y \in Stacks, NEW m \in 1 .. Len(pushed'[y])
        PROVE  \/ y = st /\ m + 1 \in 1 .. Len(pushed[y]) /\ pushed'[y][m] = pushed[y][m + 1]
               \/ y # st /\ m \in 1 .. Len(pushed[y]) /\ pushed'[y][m] = pushed[y][m]
    <3>1. CASE y = st
      <4>1. pushed'[y] = v /\ pushed[y] = t /\ m \in 1 .. Len(t) - 1
        BY <1>2, <1>4, <2>1, <3>1
      <4>2. m + 1 \in 1 .. Len(t) /\ v[m] = t[m + 1]
        BY <1>0, <1>2, <4>1
      <4> QED BY <3>1, <4>1, <4>2
    <3>2. CASE y # st
      <4>1. pushed'[y] = pushed[y]
        BY <1>4, <3>2
      <4> QED BY <3>2, <4>1
    <3> QED BY <3>1, <3>2
  <2>2. \A y, z \in Stacks : \A m \in 1 .. Len(pushed[y]), n \in 1 .. Len(pushed[z]) :
          pushed[y][m] = pushed[z][n] => y = z /\ m = n
    BY DEF StackInv, Apart
  <2>3. \/ u = st /\ j + 1 \in 1 .. Len(pushed[u]) /\ pushed'[u][j] = pushed[u][j + 1]
        \/ u # st /\ j \in 1 .. Len(pushed[u]) /\ pushed'[u][j] = pushed[u][j]
    BY <2>1
  <2>4. \/ x = st /\ k + 1 \in 1 .. Len(pushed[x]) /\ pushed'[x][k] = pushed[x][k + 1]
        \/ x # st /\ k \in 1 .. Len(pushed[x]) /\ pushed'[x][k] = pushed[x][k]
    BY <2>1
  <2>5. j \in Int /\ k \in Int
    OBVIOUS
  <2> QED BY <1>7, <2>2, <2>3, <2>4, <2>5
<1>8. Apart(pushed')
  BY <1>7 DEF Apart
<1> QED BY <1>3, <1>4, <1>6, <1>8 DEF StackInv

LEMMA StackHolds ==
  ASSUME StackAssumption, StackInv
  PROVE  StackLastInFirstOut
<1> SUFFICES ASSUME NEW st \in Stacks
             PROVE  /\ Stack!Links(next)[st] = pushed[st]
                    /\ Stack!STACK_COUNT(st) = Len(pushed[st])
                    /\ Stack!STACK_EMPTY(st) <=> pushed[st] = <<>>
                    /\ pushed[st] # <<>> => Stack!STACK_TOP(st) = pushed[st][1]
  BY DEF StackLastInFirstOut, Stack!LastInFirstOut
<1> DEFINE t == pushed[st]
           n == Len(t)
<1>1. t \in Seq(Elts) /\ n \in Nat /\ t \in [1 .. n -> Elts] /\ head[st] = At(t, 1)
  BY LenProperties DEF StackInv
<1>2. n <= Cardinality(Elts)
  <2>1. t \in Injection(1 .. n, Elts)
    <3>1. \A j, k \in 1 .. n : t[j] = t[k] => j = k
      BY DEF StackInv, Apart
    <3> HIDE DEF t, n
    <3> QED BY <1>1, <3>1 DEF Injection, IsInjective
  <2>2. Cardinality(1 .. n) <= Cardinality(Elts)
    <3> HIDE DEF t, n
    <3> QED BY <2>1, FS_Injection DEF StackAssumption
  <2>3. Cardinality(1 .. n) = n
    <3>1. 1 \in Int /\ n \in Int
      BY <1>1
    <3>2. Cardinality(1 .. n) = IF 1 > n THEN 0 ELSE n - 1 + 1
      BY <3>1, FS_Interval
    <3> HIDE DEF n
    <3> QED BY <1>1, <3>2
  <2> QED BY <2>2, <2>3
<1>3. Stack!Links(next)[st] = t
  BY <1>1, <1>2, LinksAre DEF StackInv
<1>4. (t = <<>> => n = 0) /\ (t # <<>> => n >= 1 /\ t[1] \in Elts)
  <2>1. t # <<>> => n >= 1
    BY <1>1, EmptySeq
  <2> QED BY <1>1, <2>1
<1>5. t = <<>> <=> head[st] = NULL
  BY <1>1, <1>4 DEF At, StackAssumption
<1>6. t # <<>> => head[st] = t[1]
  BY <1>1, <1>4 DEF At
<1> QED BY <1>3, <1>5, <1>6 DEF Stack!STACK_COUNT, Stack!STACK_EMPTY, Stack!STACK_TOP

\* However the stacks share their elements, what is popped is what was pushed
\* last, and what the links lead to is the rest.
THEOREM StacksAreLastInFirstOut == Stack!Spec => []StackLastInFirstOut
<1> StackAssumption
  BY ContainersAssumption
<1>1. Stack!Init => StackInv
  <2> SUFFICES ASSUME Stack!Init PROVE StackInv
    OBVIOUS
  <2>1. <<>> \in Seq(Elts) /\ Len(<<>>) = 0
    OBVIOUS
  <2>2. \A st \in Stacks : pushed[st] = <<>> /\ head[st] = NULL
    BY DEF Stack!Init
  <2>3. /\ head \in [Stacks -> Nodes] /\ next \in [Elts -> Nodes]
        /\ pushed \in [Stacks -> Seq(Elts)]
    BY <2>1 DEF Stack!Init, Nodes
  <2> QED BY <2>1, <2>2, <2>3 DEF StackInv, At, Linked, Apart
<1>2. StackInv /\ [Stack!Next]_(Stack!vars) => StackInv'
  <2> SUFFICES ASSUME StackInv, [Stack!Next]_(Stack!vars) PROVE StackInv'
    OBVIOUS
  <2>1. CASE UNCHANGED Stack!vars
    BY <2>1 DEF Stack!vars, StackInv
  <2>2. CASE Stack!Next
    BY <2>2, PushKeepsStacks, PopKeepsStacks DEF Stack!Next
  <2> QED BY <2>1, <2>2
<1>3. StackInv => StackLastInFirstOut
  BY StackHolds
<1> QED BY <1>1, <1>2, <1>3, PTL DEF Stack!Spec

-----------------------------------------------------------------------------
(* The strings *)

Codes == Chars \cup {NUL, Garbage}

\* The characters are within what is allocated,
Holds(x) ==
  /\ x = [i |-> x.i, n |-> x.n, d |-> x.d]
  /\ x.i \in Nat /\ x.n \in Nat /\ x.i <= x.n
  /\ x.d \in [0 .. x.n - 1 -> Codes]
  /\ \A k \in 0 .. x.i - 1 : x.d[k] \in Chars

\* and so is a NUL.
IsString(x) == Holds(x) /\ x.i < x.n /\ x.d[x.i] = NUL

BodyOf(x) == String!utstring_body(x)

LEMMA BodyIs ==
  ASSUME NEW x, Holds(x)
  PROVE  /\ BodyOf(x) \in Seq(Chars) /\ Len(BodyOf(x)) = x.i
         /\ \A k \in 1 .. x.i : BodyOf(x)[k] = x.d[k - 1]
<1>1. x.i \in Nat /\ \A k \in 1 .. x.i : k - 1 \in 0 .. x.i - 1
  BY DEF Holds
<1>2. \A k \in 1 .. x.i : x.d[k - 1] \in Chars
  BY <1>1 DEF Holds
<1>3. BodyOf(x) = [k \in 1 .. x.i |-> x.d[k - 1]]
  BY DEF BodyOf, String!utstring_body
<1> QED BY <1>1, <1>2, <1>3

LEMMA ReallocatedHolds ==
  ASSUME NEW x, Holds(x), NEW m \in Nat, m >= x.n
  PROVE  LET r == String!Reallocated(x, m)
         IN  /\ Holds(r) /\ r.i = x.i /\ r.n = m
             /\ \A k \in 0 .. x.i - 1 : r.d[k] = x.d[k]
<1> DEFINE slot == [k \in 0 .. m - 1 |-> IF k < x.n THEN x.d[k] ELSE Garbage]
           r == String!Reallocated(x, m)
<1>0. x.i \in Nat /\ x.n \in Nat /\ x.i <= x.n
  BY DEF Holds
<1>1. r = [i |-> x.i, n |-> m, d |-> slot]
  <2>1. r = [x EXCEPT !.n = m, !.d = slot]
    BY DEF String!Reallocated
  <2> HIDE DEF slot, r
  <2> QED BY <2>1 DEF Holds
<1>2. /\ slot \in [0 .. m - 1 -> Codes]
      /\ \A k \in 0 .. x.i - 1 : slot[k] = x.d[k] /\ slot[k] \in Chars
  BY <1>0 DEF Holds, Codes
<1> HIDE DEF slot, r
<1>3. r.i = x.i /\ r.n = m /\ r.d = slot
  BY <1>1
<1>4. Holds(r)
  BY <1>0, <1>1, <1>2, <1>3 DEF Holds
<1> QED BY <1>2, <1>3, <1>4 DEF r

LEMMA ReserveHolds ==
  ASSUME NEW x, Holds(x), NEW amt \in Nat
  PROVE  LET r == String!utstring_reserve(x, amt)
         IN  /\ Holds(r) /\ r.i = x.i /\ r.n - r.i >= amt
             /\ \A k \in 0 .. x.i - 1 : r.d[k] = x.d[k]
<1> DEFINE r == String!utstring_reserve(x, amt)
<1>0. x.i \in Nat /\ x.n \in Nat /\ x.i <= x.n
  BY DEF Holds
<1>1. CASE x.n - x.i >= amt
  <2>1. r = x
    BY <1>1 DEF String!utstring_reserve
  <2> QED BY <1>1, <2>1
<1>2. CASE ~ (x.n - x.i >= amt)
  <2>1. r = String!Reallocated(x, x.n + amt)
    BY <1>2 DEF String!utstring_reserve
  <2> HIDE DEF r
  <2>2. x.n + amt \in Nat /\ x.n + amt >= x.n
    BY <1>0
  <2>3. /\ Holds(r) /\ r.i = x.i /\ r.n = x.n + amt
        /\ \A k \in 0 .. x.i - 1 : r.d[k] = x.d[k]
    BY <2>1, <2>2, ReallocatedHolds
  <2> QED BY <1>0, <2>3 DEF r
<1> QED BY <1>1, <1>2

\* With room for it and a NUL, text is appended.
LEMMA PutAppends ==
  ASSUME NEW x, Holds(x), NEW text \in Seq(Chars), x.n - x.i > Len(text)
  PROVE  LET r == String!Put(x, text)
         IN  IsString(r) /\ BodyOf(r) = BodyOf(x) \o text
<1> DEFINE len == Len(text)
           c == x.i + len
           slot == [k \in 0 .. x.n - 1 |->
                      IF k < x.i THEN x.d[k] ELSE IF k < c THEN text[k - x.i + 1]
                      ELSE IF k = c THEN NUL ELSE x.d[k]]
           r == String!Put(x, text)
<1>0. /\ x.i \in Nat /\ x.n \in Nat /\ len \in Nat /\ c \in Nat /\ c < x.n
      /\ DOMAIN x.d = 0 .. x.n - 1
  BY DEF Holds
<1>1. DOMAIN x.d \cup x.i .. c = 0 .. x.n - 1
  BY <1>0
<1>2. r = [i |-> c, n |-> x.n, d |-> slot]
  <2>1. r = [x EXCEPT !.i = c, !.d = slot]
    BY <1>1 DEF String!Put
  <2> HIDE DEF slot, r, c
  <2> QED BY <2>1 DEF Holds
<1>3. /\ \A k \in 0 .. x.i - 1 : slot[k] = x.d[k]
      /\ \A k \in x.i .. c - 1 : slot[k] = text[k - x.i + 1]
      /\ slot[c] = NUL
      /\ \A k \in c + 1 .. x.n - 1 : slot[k] = x.d[k]
      /\ DOMAIN slot = 0 .. x.n - 1
  <2> HIDE DEF c
  <2>1. c >= x.i
    BY <1>0 DEF c
  <2> QED BY <1>0, <2>1
<1>4. slot = [k \in 0 .. x.n - 1 |-> slot[k]]
  OBVIOUS
<1> HIDE DEF slot, r
<1>5. ASSUME NEW k \in 0 .. c - 1 PROVE slot[k] \in Chars
  <2>1. CASE k < x.i
    <3>1. k \in 0 .. x.i - 1
      BY <1>0, <2>1
    <3> QED BY <1>3, <3>1 DEF Holds
  <2>2. CASE ~ (k < x.i)
    <3>1. k - x.i + 1 \in 1 .. Len(text) /\ k \in x.i .. c - 1
      BY <1>0, <2>2
    <3> QED BY <1>3, <3>1, ElementOfSeq
  <2> QED BY <2>1, <2>2
<1>6. r.i = c /\ r.n = x.n /\ r.d = slot
  BY <1>2
<1>7. slot \in [0 .. x.n - 1 -> Codes]
  <2>1. ASSUME NEW k \in 0 .. x.n - 1 PROVE slot[k] \in Codes
    <3>1. CASE k < c
      <4>1. k \in 0 .. c - 1
        BY <1>0, <3>1
      <4> QED BY <1>5, <4>1 DEF Codes
    <3>2. CASE k = c
      BY <1>3, <3>2 DEF Codes
    <3>3. CASE k > c
      <4>1. k \in c + 1 .. x.n - 1
        BY <1>0, <3>3
      <4> QED BY <1>3, <4>1 DEF Holds
    <3> QED BY <1>0, <3>1, <3>2, <3>3
  <2> HIDE DEF c
  <2> QED BY <1>4, <2>1
<1>8. Holds(r) /\ IsString(r)
  <2>1. r = [i |-> r.i, n |-> r.n, d |-> r.d]
    BY <1>2, <1>6
  <2> QED BY <1>0, <1>3, <1>5, <1>6, <1>7, <2>1 DEF Holds, IsString
<1>9. /\ BodyOf(x) \in Seq(Chars) /\ Len(BodyOf(x)) = x.i
      /\ \A k \in 1 .. x.i : BodyOf(x)[k] = x.d[k - 1]
  BY BodyIs
<1>10. /\ BodyOf(r) \in Seq(Chars) /\ Len(BodyOf(r)) = c
      /\ \A k \in 1 .. c : BodyOf(r)[k] = slot[k - 1]
  BY <1>6, <1>8, BodyIs
<1> DEFINE both == BodyOf(x) \o text
<1>11. /\ both \in Seq(Chars) /\ Len(both) = c
      /\ \A k \in 1 .. c : both[k] = IF k <= x.i THEN BodyOf(x)[k] ELSE text[k - x.i]
  <2>1. /\ both \in Seq(Chars) /\ Len(both) = Len(BodyOf(x)) + Len(text)
        /\ \A k \in 1 .. Len(BodyOf(x)) + Len(text) :
             both[k] = IF k <= Len(BodyOf(x)) THEN BodyOf(x)[k] ELSE text[k - Len(BodyOf(x))]
    BY <1>9, ConcatProperties
  <2> HIDE DEF both
  <2> QED BY <1>9, <2>1
<1> HIDE DEF both
<1>12. ASSUME NEW k \in 1 .. c PROVE BodyOf(r)[k] = both[k]
  <2>1. CASE k <= x.i
    <3>1. k \in 1 .. x.i /\ k - 1 \in 0 .. x.i - 1
      BY <1>0, <2>1
    <3>2. slot[k - 1] = x.d[k - 1] /\ BodyOf(x)[k] = x.d[k - 1]
      BY <1>3, <1>9, <3>1
    <3>3. BodyOf(r)[k] = slot[k - 1] /\ both[k] = BodyOf(x)[k]
      BY <1>10, <1>11, <2>1
    <3> QED BY <3>2, <3>3
  <2>2. CASE ~ (k <= x.i)
    <3>1. k - 1 \in x.i .. c - 1 /\ k - 1 - x.i + 1 = k - x.i
      BY <1>0, <2>2
    <3>2. slot[k - 1] = text[k - 1 - x.i + 1]
      BY <1>3, <3>1
    <3> QED BY <1>10, <1>11, <2>2, <3>1, <3>2
  <2> QED BY <2>1, <2>2
<1>13. BodyOf(r) = both
  BY <1>10, <1>11, <1>12, SeqEqual
<1> QED BY <1>8, <1>13 DEF r, both

LEMMA SameBody ==
  ASSUME NEW x, Holds(x), NEW q, Holds(q), q.i = x.i, \A k \in 0 .. x.i - 1 : q.d[k] = x.d[k]
  PROVE  BodyOf(q) = BodyOf(x)
<1>1. /\ BodyOf(q) \in Seq(Chars) /\ Len(BodyOf(q)) = x.i
      /\ \A k \in 1 .. x.i : BodyOf(q)[k] = q.d[k - 1]
  BY BodyIs
<1>2. /\ BodyOf(x) \in Seq(Chars) /\ Len(BodyOf(x)) = x.i
      /\ \A k \in 1 .. x.i : BodyOf(x)[k] = x.d[k - 1]
  BY BodyIs
<1>3. \A k \in 1 .. x.i : k - 1 \in 0 .. x.i - 1
  BY DEF Holds
<1> QED BY <1>1, <1>2, <1>3, SeqEqual

\* What bincpy and concat do.
LEMMA ReservedAppends ==
  ASSUME NEW x, Holds(x), NEW text \in Seq(Chars)
  PROVE  LET r == String!Put(String!utstring_reserve(x, Len(text) + 1), text)
         IN  IsString(r) /\ BodyOf(r) = BodyOf(x) \o text
<1> DEFINE q == String!utstring_reserve(x, Len(text) + 1)
<1>0. Len(text) + 1 \in Nat /\ Len(text) \in Nat
  OBVIOUS
<1>1. /\ Holds(q) /\ q.i = x.i /\ q.n - q.i >= Len(text) + 1
      /\ \A k \in 0 .. x.i - 1 : q.d[k] = x.d[k]
  BY <1>0, ReserveHolds
<1> HIDE DEF q
<1>2. q.n - q.i > Len(text)
  BY <1>0, <1>1 DEF Holds
<1>3. BodyOf(q) = BodyOf(x)
  BY <1>1, SameBody
<1>4. IsString(String!Put(q, text)) /\ BodyOf(String!Put(q, text)) = BodyOf(q) \o text
  BY <1>1, <1>2, PutAppends
<1> QED BY <1>3, <1>4 DEF q

LEMMA InitIsString ==
  ASSUME StringAssumption
  PROVE  IsString(String!utstring_init) /\ BodyOf(String!utstring_init) = <<>>
<1> DEFINE x == [i |-> 0, n |-> 0, d |-> [k \in 0 .. -1 |-> NUL]]
           q == String!utstring_reserve(x, InitialSize)
           none == <<>>
<1>0. none \in Seq(Chars) /\ Len(none) = 0 /\ InitialSize \in Nat /\ InitialSize > 0
  BY DEF StringAssumption
<1>1. Holds(x) /\ x.i = 0
  BY DEF Holds
<1>2. Holds(q) /\ q.i = 0 /\ q.n - q.i >= InitialSize
  <2> HIDE DEF x
  <2> QED BY <1>0, <1>1, ReserveHolds
<1>3. String!utstring_init = String!Put(q, none)
  BY DEF String!utstring_init
<1> HIDE DEF q, none
<1>4. q.n - q.i > Len(none)
  BY <1>0, <1>2 DEF Holds
<1>5. IsString(String!Put(q, none)) /\ BodyOf(String!Put(q, none)) = BodyOf(q) \o none
  BY <1>0, <1>2, <1>4, PutAppends
<1>6. BodyOf(q) \in Seq(Chars) /\ Len(BodyOf(q)) = 0
  BY <1>2, BodyIs
<1>7. BodyOf(q) = <<>> /\ BodyOf(q) \o none = BodyOf(q)
  BY <1>6, ConcatEmptySeq DEF none
<1> QED BY <1>3, <1>5, <1>7

LEMMA ClearEmpties ==
  ASSUME NEW x, IsString(x)
  PROVE  LET r == String!utstring_clear(x)
         IN  IsString(r) /\ BodyOf(r) = <<>>
<1> DEFINE slot == [x.d EXCEPT ![0] = NUL]
           r == String!utstring_clear(x)
<1>0. /\ x = [i |-> x.i, n |-> x.n, d |-> x.d] /\ x.i \in Nat /\ x.n \in Nat /\ x.i < x.n
      /\ x.d \in [0 .. x.n - 1 -> Codes]
  BY DEF IsString, Holds
<1>1. r = [i |-> 0, n |-> x.n, d |-> slot]
  <2>1. r = [x EXCEPT !.i = 0, !.d = slot]
    BY DEF String!utstring_clear
  <2> HIDE DEF slot, r
  <2> QED BY <1>0, <2>1
<1>2. slot \in [0 .. x.n - 1 -> Codes] /\ slot[0] = NUL
  BY <1>0 DEF Codes
<1> HIDE DEF slot, r
<1>3. r.i = 0 /\ r.n = x.n /\ r.d = slot
  BY <1>1
<1>4. IsString(r)
  BY <1>0, <1>1, <1>2, <1>3 DEF IsString, Holds
<1>5. BodyOf(r) \in Seq(Chars) /\ Len(BodyOf(r)) = 0
  BY <1>3, <1>4, BodyIs DEF IsString
<1> QED BY <1>4, <1>5 DEF r

\* One turn of utstring_printf_va's loop, with size characters allocated.
Fits(x, text, size) == Len(text) < String!Reallocated(x, size).n - String!Reallocated(x, size).i
NextSize(x, text, reports, size) ==
  String!utstring_reserve(String!Reallocated(x, size),
                          IF reports THEN Len(text) + 1 ELSE 2 * String!Reallocated(x, size).n).n

LEMMA OneTurn ==
  ASSUME NEW x, Holds(x), NEW text \in Seq(Chars), NEW reports \in BOOLEAN, NEW size \in Nat
  PROVE  /\ Fits(x, text, size) <=> Len(text) < size - x.i
         /\ NextSize(x, text, reports, size) \in Nat
         /\ NextSize(x, text, reports, size) >= size
         /\ size >= 1 /\ ~ Fits(x, text, size) => NextSize(x, text, reports, size) > size
<1> DEFINE t == String!Reallocated(x, size)
           amt == IF reports THEN Len(text) + 1 ELSE 2 * t.n
<1>0. x.i \in Nat /\ x = [i |-> x.i, n |-> x.n, d |-> x.d] /\ Len(text) \in Nat
  BY DEF Holds
<1>1. t = [i |-> x.i, n |-> size, d |-> t.d]
  <2> DEFINE slot == [k \in 0 .. size - 1 |-> IF k < x.n THEN x.d[k] ELSE Garbage]
  <2>1. t = [x EXCEPT !.n = size, !.d = slot]
    BY DEF String!Reallocated
  <2> HIDE DEF slot, t
  <2> QED BY <1>0, <2>1
<1>2. /\ NextSize(x, text, reports, size) = String!utstring_reserve(t, amt).n
      /\ Fits(x, text, size) <=> Len(text) < t.n - t.i
  BY DEF NextSize, Fits
<1> HIDE DEF t
<1>3. t.i = x.i /\ t.n = size
  BY <1>1
<1>4. amt \in Nat /\ (size >= 1 => amt > size - x.i \/ amt = Len(text) + 1) /\ (size >= 1 => amt > 0)
  BY <1>0, <1>3
<1> HIDE DEF amt
<1>5. String!utstring_reserve(t, amt).n = IF size - x.i >= amt THEN size ELSE size + amt
  <2>1. CASE size - x.i >= amt
    BY <1>3, <2>1 DEF String!utstring_reserve
  <2>2. CASE ~ (size - x.i >= amt)
    <3>0. PICK m : m = size + amt
      OBVIOUS
    <3>1. String!utstring_reserve(t, amt) = String!Reallocated(t, m)
      BY <1>3, <2>2, <3>0 DEF String!utstring_reserve
    <3> DEFINE slot == [k \in 0 .. m - 1 |-> IF k < t.n THEN t.d[k] ELSE Garbage]
    <3>2. String!Reallocated(t, m) = [t EXCEPT !.n = m, !.d = slot]
      BY DEF String!Reallocated
    <3> HIDE DEF slot
    <3>3. String!Reallocated(t, m).n = m
      BY <1>1, <3>2
    <3> QED BY <2>2, <3>0, <3>1, <3>3
  <2> QED BY <2>1, <2>2
<1> QED BY <1>0, <1>2, <1>3, <1>4, <1>5

\* Its loop ends when the text and its NUL fit.
LEMMA PrintfAppends ==
  ASSUME NEW x, IsString(x), NEW text \in Seq(Chars), NEW reports \in BOOLEAN
  PROVE  LET r == String!utstring_printf_va(x, text, reports)
         IN  IsString(r) /\ BodyOf(r) = BodyOf(x) \o text
<1> DEFINE T(m) == String!Reallocated(x, m)
           G == { m \in Nat : Fits(x, text, m) }
           up == [m \in Nat |-> NextSize(x, text, reports, m)]
           val == [m \in Nat |-> T(m)]
           top == Len(text) + x.i + 1
           R == { T(m) : m \in Nat }
           Body(f) == [m \in Nat |-> IF Fits(x, text, m) THEN T(m)
                                     ELSE f[NextSize(x, text, reports, m)]]
           f0 == CHOOSE f : f = Body(f)
           r == String!utstring_printf_va(x, text, reports)
<1>0. /\ Holds(x) /\ x.i \in Nat /\ x.n \in Nat /\ x.n >= 1 /\ Len(text) \in Nat
      /\ top \in Nat
  BY DEF IsString, Holds
<1>1. /\ up \in [Nat -> Nat] /\ \A m \in Nat : up[m] >= m
      /\ \A m \in Nat : m \notin G /\ m >= 1 => up[m] > m
  BY <1>0, OneTurn
<1>2. \A m \in Nat : m \notin G => m < top
  <2>1. \A m \in Nat : Fits(x, text, m) <=> Len(text) < m - x.i
    BY <1>0, OneTurn
  <2> QED BY <1>0, <2>1
<1>3. Loop(G, up, top) /\ Rises(G, up, 1) /\ val \in [Nat -> R]
  BY <1>0, <1>1, <1>2 DEF Loop, Rises
<1>4. PICK g \in [Nat -> R] : Computes(g, G, up, val)
  <2> HIDE DEF up, G, val, top, R
  <2> QED BY <1>3, LoopDefined
<1>5. g = Body(g)
  BY <1>4 DEF Computes
<1>6. f0 = Body(f0)
  <2> HIDE DEF Body
  <2> QED BY <1>5
<1>7. r = String!Put(f0[x.n], text)
  BY DEF String!utstring_printf_va, Fits, NextSize
<1> HIDE DEF f0, r
<1>8. Computes(f0, G, up, val)
  BY <1>6 DEF Computes
<1>9. PICK m \in Nat : m >= x.n /\ m \in G /\ f0[x.n] = val[m]
  <2>1. PICK low \in Nat, start \in Nat : low = 1 /\ start = x.n
    BY <1>0
  <2>2. start >= low /\ Loop(G, up, top) /\ Rises(G, up, low)
    BY <1>0, <1>3, <2>1
  <2> HIDE DEF up, G, val, top
  <2>3. Runs(f0, G, up, val, top, low, start)
    BY <1>8, <2>2 DEF Runs
  <2>4. \E m \in Nat : m >= start /\ m \in G /\ f0[start] = val[m]
    BY <2>3, LoopStops
  <2> QED BY <2>1, <2>4
<1> DEFINE q == T(m)
<1>10. f0[x.n] = q
  BY <1>9
<1>11. Len(text) < m - x.i
  BY <1>0, <1>9, OneTurn
<1>12. Holds(q) /\ q.i = x.i /\ q.n = m /\ \A k \in 0 .. x.i - 1 : q.d[k] = x.d[k]
  BY <1>0, <1>9, ReallocatedHolds
<1> HIDE DEF q
<1>13. IsString(String!Put(q, text)) /\ BodyOf(String!Put(q, text)) = BodyOf(q) \o text
  BY <1>0, <1>11, <1>12, PutAppends
<1>14. BodyOf(q) = BodyOf(x)
  BY <1>0, <1>12, SameBody
<1> QED BY <1>7, <1>10, <1>13, <1>14 DEF r

StringInv == IsString(s) /\ IsString(other)

LEMMA TextsAre ==
  ASSUME NEW k \in Nat, NEW text \in String!Texts(k)
  PROVE  text \in Seq(Chars)
BY DEF String!Texts

\* What each operation leaves, whatever it is given.
LEMMA StringOperations ==
  ASSUME StringAssumption, StringInv
  PROVE  /\ \A text \in String!Texts(2), reports \in BOOLEAN : String!Printf(text, reports) =>
              IsString(s') /\ BodyOf(s') = BodyOf(s) \o text
         /\ \A b \in String!Texts(2) : String!Bincpy(b) =>
              IsString(s') /\ BodyOf(s') = BodyOf(s) \o b
         /\ \A src \in {s, other} : String!Concat(src) =>
              IsString(s') /\ BodyOf(s') = BodyOf(s) \o BodyOf(src)
         /\ String!Clear \/ String!Renew => IsString(s') /\ BodyOf(s') = <<>>
         /\ \A b \in String!Texts(1) : String!FillOther(b) =>
              IsString(other') /\ BodyOf(other') = BodyOf(other) \o b
<1> USE DEF StringInv
<1>0. Holds(s) /\ Holds(other) /\ BodyOf(s) \in Seq(Chars) /\ BodyOf(other) \in Seq(Chars)
  BY BodyIs DEF IsString
<1>1. ASSUME NEW text \in String!Texts(2), NEW reports \in BOOLEAN, String!Printf(text, reports)
      PROVE  IsString(s') /\ BodyOf(s') = BodyOf(s) \o text
  <2>1. s' = String!utstring_printf_va(s, text, reports) /\ text \in Seq(Chars)
    BY <1>1, TextsAre DEF String!Printf
  <2> QED BY <2>1, PrintfAppends
<1>2. ASSUME NEW b \in String!Texts(2), String!Bincpy(b)
      PROVE  IsString(s') /\ BodyOf(s') = BodyOf(s) \o b
  <2>1. s' = String!Put(String!utstring_reserve(s, Len(b) + 1), b) /\ b \in Seq(Chars)
    BY <1>2, TextsAre DEF String!Bincpy, String!utstring_bincpy
  <2> QED BY <1>0, <2>1, ReservedAppends
<1>3. ASSUME NEW src \in {s, other}, String!Concat(src)
      PROVE  IsString(s') /\ BodyOf(s') = BodyOf(s) \o BodyOf(src)
  <2>1. s' = String!Put(String!utstring_reserve(s, src.i + 1), BodyOf(src))
    BY <1>3 DEF String!Concat, String!utstring_concat, BodyOf
  <2>2. BodyOf(src) \in Seq(Chars) /\ Len(BodyOf(src)) = src.i
    BY <1>0, BodyIs
  <2> QED BY <1>0, <2>1, <2>2, ReservedAppends
<1>4. ASSUME String!Clear PROVE IsString(s') /\ BodyOf(s') = <<>>
  BY <1>4, ClearEmpties DEF String!Clear
<1>5. ASSUME String!Renew PROVE IsString(s') /\ BodyOf(s') = <<>>
  BY <1>5, InitIsString DEF String!Renew
<1>6. ASSUME NEW b \in String!Texts(1), String!FillOther(b)
      PROVE  IsString(other') /\ BodyOf(other') = BodyOf(other) \o b
  <2>1. other' = String!Put(String!utstring_reserve(other, Len(b) + 1), b) /\ b \in Seq(Chars)
    BY <1>6, TextsAre DEF String!FillOther, String!utstring_bincpy
  <2> QED BY <1>0, <2>1, ReservedAppends
<1> QED BY <1>1, <1>2, <1>3, <1>4, <1>5, <1>6

LEMMA StringNext ==
  ASSUME StringAssumption, StringInv, [String!Next]_(String!vars)
  PROVE  StringInv'
<1>1. CASE UNCHANGED String!vars
  BY <1>1 DEF String!vars, StringInv
<1>2. CASE String!Next
  BY <1>2, StringOperations DEF String!Next, StringInv
<1> QED BY <1>1, <1>2

LEMMA StringStarts ==
  ASSUME StringAssumption, String!Init
  PROVE  StringInv
BY InitIsString DEF String!Init, StringInv

\* The body is a string however often the buffer was reallocated, and none of
\* the operations writes past it.
THEOREM StringIsTerminated == String!Spec => []StringTerminated
<1> StringAssumption
  BY ContainersAssumption
<1>1. StringInv => StringTerminated
  BY DEF StringInv, IsString, Holds, StringTerminated, String!Terminated
<1>2. StringInv /\ [String!Next]_(String!vars) => StringInv'
  BY StringNext
<1>3. String!Init => StringInv
  BY StringStarts
<1> QED BY <1>1, <1>2, <1>3, PTL DEF String!Spec

\* Each of printf, bincpy and concat appends what it was given, all of it and
\* once, however often the buffer moves, the string itself appended to itself
\* included; clear and init leave nothing.
THEOREM StringAppends == String!Spec => StringAppendsExactly
<1> StringAssumption
  BY ContainersAssumption
<1>1. StringInv /\ [String!Next]_(String!vars) => StringInv'
  BY StringNext
<1>2. StringInv => String!GainsItsText
  BY StringOperations DEF String!GainsItsText, String!Gains, BodyOf
<1>3. String!Init => StringInv
  BY StringStarts
<1> QED BY <1>1, <1>2, <1>3, PTL DEF String!Spec, StringAppendsExactly, String!AppendsExactly

-----------------------------------------------------------------------------
(* Walking an array and a ring, from NULL to NULL *)

\* What g is at k is where k steps lead.
Strolls(g, st, N) == g = [k \in 0 .. N |-> IF k = 0 THEN NULL ELSE st[g[k - 1]]]

LEMMA StrollDefined ==
  ASSUME NEW D, NULL \in D, NEW st \in [D -> D], NEW N \in Nat
  PROVE  \E g \in [0 .. N -> D] : Strolls(g, st, N)
<1> DEFINE Right(g, b) == \A k \in 0 .. N : k <= b => g[k] = IF k = 0 THEN NULL ELSE st[g[k - 1]]
           P == { b \in Nat : \E g \in [0 .. N -> D] : Right(g, b) }
<1>1. 0 \in P
  <2>1. Right([k \in 0 .. N |-> NULL], 0) /\ [k \in 0 .. N |-> NULL] \in [0 .. N -> D]
    OBVIOUS
  <2> QED BY <2>1
<1>2. ASSUME NEW b \in Nat, b \in P PROVE b + 1 \in P
  <2>1. PICK g \in [0 .. N -> D] : Right(g, b)
    BY <1>2
  <2> DEFINE h == [k \in 0 .. N |-> IF k = 0 THEN NULL ELSE st[g[k - 1]]]
  <2>2. ASSUME NEW k \in 0 .. N, k # 0 PROVE k - 1 \in 0 .. N /\ st[g[k - 1]] \in D
    BY <2>2
  <2>3. h \in [0 .. N -> D]
    BY <2>2
  <2>4. ASSUME NEW k \in 0 .. N, k <= b PROVE h[k] = g[k]
    BY <2>1, <2>4
  <2>5. ASSUME NEW k \in 0 .. N, k <= b + 1, k # 0 PROVE h[k] = st[h[k - 1]]
    <3>1. k - 1 \in 0 .. N /\ k - 1 <= b
      BY <2>5
    <3>2. h[k - 1] = g[k - 1]
      BY <2>4, <3>1
    <3> QED BY <2>5, <3>2
  <2>6. Right(h, b + 1)
    <3>1. 0 \in 0 .. N => h[0] = NULL
      OBVIOUS
    <3> HIDE DEF h
    <3> QED BY <2>5, <3>1
  <2> HIDE DEF Right, h
  <2> QED BY <2>3, <2>6
<1>3. N \in P
  <2>1. \A b \in Nat : b \in P
    <3> HIDE DEF P
    <3> QED BY <1>1, <1>2, Induction
  <2> QED BY <2>1
<1>4. PICK g \in [0 .. N -> D] : Right(g, N)
  BY <1>3
<1>5. \A k \in 0 .. N : g[k] = IF k = 0 THEN NULL ELSE st[g[k - 1]]
  BY <1>4
<1>6. g = [k \in 0 .. N |-> IF k = 0 THEN NULL ELSE st[g[k - 1]]]
  BY <1>5
<1> QED BY <1>6 DEF Strolls

\* From NULL through the first m of q to NULL.
LEMMA StrollMeets ==
  ASSUME NEW m \in Nat, NEW q, NEW g, g[0] = q[0],
         \A k \in 0 .. m : g[k] = q[k] => g[k + 1] = q[k + 1]
  PROVE  \A k \in 0 .. m + 1 : g[k] = q[k]
<1> DEFINE P == { b \in Nat : b <= m + 1 => g[b] = q[b] }
<1>1. 0 \in P
  OBVIOUS
<1>2. ASSUME NEW b \in Nat, b \in P PROVE b + 1 \in P
  <2> SUFFICES ASSUME b + 1 <= m + 1 PROVE g[b + 1] = q[b + 1]
    OBVIOUS
  <2>1. b \in 0 .. m /\ g[b] = q[b]
    BY <1>2
  <2> QED BY <2>1
<1>3. \A b \in Nat : b \in P
  <2> HIDE DEF P
  <2> QED BY <1>1, <1>2, Induction
<1> QED BY <1>3

LEMMA ArrayWalks ==
  ASSUME RingAssumption, ArrayInv
  PROVE  Array!WalksMirror
<1> DEFINE N == a.n + 1
           forth == CHOOSE g : g = [k \in 0 .. N |->
                      IF k = 0 THEN NULL ELSE Array!utarray_next(a, g[k - 1])]
           back == CHOOSE g : g = [k \in 0 .. N |->
                      IF k = 0 THEN NULL ELSE Array!utarray_prev(a, g[k - 1])]
<1>0. PICK m \in Nat : m = a.i /\ m + 1 <= N /\ N \in Nat
  BY DEF ArrayInv, IsArray
<1> DEFINE D == {NULL} \cup 0 .. m - 1
           next1 == [e \in D |-> Array!utarray_next(a, e)]
           prev1 == [e \in D |-> Array!utarray_prev(a, e)]
           q == [k \in 0 .. m + 1 |-> IF k = 0 \/ k = m + 1 THEN NULL ELSE k - 1]
           r == [k \in 0 .. m + 1 |-> IF k = 0 \/ k = m + 1 THEN NULL ELSE m - k]
<1>1. NULL \in D /\ NULL \notin Int
  BY DEF RingAssumption
<1>2. next1 \in [D -> D] /\ prev1 \in [D -> D]
  <2>1. ASSUME NEW e \in D
        PROVE  Array!utarray_next(a, e) \in D /\ Array!utarray_prev(a, e) \in D
    BY <1>0, <1>1 DEF Array!utarray_next, Array!utarray_front, Array!utarray_prev, Array!utarray_back
  <2> QED BY <2>1
<1>3. ASSUME NEW k \in 0 .. m
      PROVE  Array!utarray_next(a, q[k]) = q[k + 1] /\ Array!utarray_prev(a, r[k]) = r[k + 1]
  <2>1. CASE k = 0
    BY <1>0, <1>1, <2>1
       DEF Array!utarray_next, Array!utarray_front, Array!utarray_prev, Array!utarray_back
  <2>2. CASE k # 0
    <3>1. /\ q[k] = k - 1 /\ k - 1 # NULL /\ k + 1 \in 0 .. m + 1
          /\ r[k] = m - k /\ m - k # NULL
      BY <1>1, <2>2
    <3>2. /\ q[k + 1] = IF m # k - 1 + 1 THEN k - 1 + 1 ELSE NULL
          /\ r[k + 1] = IF m - k # 0 THEN m - k - 1 ELSE NULL
      BY <2>2, <3>1
    <3> HIDE DEF q, r
    <3> QED BY <1>0, <3>1, <3>2 DEF Array!utarray_next, Array!utarray_prev
  <2> QED BY <2>1, <2>2
<1>4. \E g : g = [k \in 0 .. N |-> IF k = 0 THEN NULL ELSE Array!utarray_next(a, g[k - 1])]
  <2> HIDE DEF N, next1
  <2>1. PICK g \in [0 .. N -> D] : Strolls(g, next1, N)
    BY <1>0, <1>1, <1>2, StrollDefined
  <2>2. \A k \in 0 .. N : k # 0 => g[k - 1] \in D
    BY <1>0
  <2> QED BY <2>1, <2>2 DEF Strolls, next1
<1>5. \E g : g = [k \in 0 .. N |-> IF k = 0 THEN NULL ELSE Array!utarray_prev(a, g[k - 1])]
  <2> HIDE DEF N, prev1
  <2>1. PICK g \in [0 .. N -> D] : Strolls(g, prev1, N)
    BY <1>0, <1>1, <1>2, StrollDefined
  <2>2. \A k \in 0 .. N : k # 0 => g[k - 1] \in D
    BY <1>0
  <2> QED BY <2>1, <2>2 DEF Strolls, prev1
<1>6. forth = [k \in 0 .. N |-> IF k = 0 THEN NULL ELSE Array!utarray_next(a, forth[k - 1])]
  BY <1>4
<1>7. back = [k \in 0 .. N |-> IF k = 0 THEN NULL ELSE Array!utarray_prev(a, back[k - 1])]
  BY <1>5
<1> HIDE DEF forth, back
<1>8. q[0] = NULL /\ r[0] = NULL
  OBVIOUS
<1>9. \A k \in 0 .. m + 1 : forth[k] = q[k] /\ back[k] = r[k]
  <2>1. ASSUME NEW k \in 0 .. m
        PROVE  /\ forth[k + 1] = Array!utarray_next(a, forth[k])
               /\ back[k + 1] = Array!utarray_prev(a, back[k])
    <3>1. k + 1 \in 0 .. N /\ k + 1 # 0 /\ (k + 1) - 1 = k
      BY <1>0
    <3>2. PICK j \in 0 .. N : j = k + 1 /\ j # 0 /\ j - 1 = k
      BY <3>1
    <3> HIDE DEF N
    <3>3. forth[j] = IF j = 0 THEN NULL ELSE Array!utarray_next(a, forth[j - 1])
      BY <1>6
    <3>4. back[j] = IF j = 0 THEN NULL ELSE Array!utarray_prev(a, back[j - 1])
      BY <1>7
    <3> QED BY <3>2, <3>3, <3>4
  <2>2. forth[0] = NULL /\ back[0] = NULL
    BY <1>0, <1>6, <1>7
  <2> HIDE DEF q, r
  <2>3. \A k \in 0 .. m + 1 : forth[k] = q[k]
    BY <1>3, <1>8, <2>1, <2>2, StrollMeets
  <2>4. \A k \in 0 .. m + 1 : back[k] = r[k]
    BY <1>3, <1>8, <2>1, <2>2, StrollMeets
  <2> QED BY <2>3, <2>4
<1>10. forth[m + 1] = NULL /\ back[m + 1] = NULL
  BY <1>9
<1>11. \A k \in 1 .. m : forth[k] = k - 1 /\ back[k] = m - k
  BY <1>9
<1>12. { forth[k] : k \in 1 .. m } = 0 .. m - 1
  <2>1. \A j \in 0 .. m - 1 : j + 1 \in 1 .. m /\ forth[j + 1] = j
    BY <1>11
  <2> QED BY <1>11, <2>1
<1>13. \A k \in 1 .. m : forth[k] = back[m + 1 - k]
  BY <1>11
<1> QED BY <1>0, <1>10, <1>12, <1>13 DEF Array!WalksMirror, forth, back

\* Inside the ring the real index of the fake index, and the other way round,
\* is where one was.
LEMMA RingIndex ==
  ASSUME RingInv, NEW j \in 0 .. rn - 1, rf \/ j < ri
  PROVE  /\ rf => Ring!_utringbuffer_real_idx(j) = IF j + ri < rn THEN j + ri ELSE j + ri - rn
         /\ rf => Ring!_utringbuffer_fake_idx(j) = IF j >= ri THEN j - ri ELSE j + rn - ri
         /\ ~ rf => /\ Ring!_utringbuffer_real_idx(j) = j
                    /\ Ring!_utringbuffer_fake_idx(j) = j
<1>0. rn \in Nat \ {0} /\ ri \in 0 .. rn - 1 /\ j \in 0 .. rn - 1
  BY ContainersAssumption DEF RingInv, Ring!TypeOK, IndexInv, RingAssumption
<1>1. PICK x \in 0 .. 2 * rn - 1, y \in 0 .. 2 * rn - 1 : x = j + ri /\ y = j + rn - ri
  BY <1>0
<1>2. x % rn = IF x < rn THEN x ELSE x - rn
  BY <1>0, Wrap
<1>3. y % rn = IF y < rn THEN y ELSE y - rn
  BY <1>0, Wrap
<1>4. CASE rf
  <2>1. Ring!_utringbuffer_real_idx(j) = x % rn /\ Ring!_utringbuffer_fake_idx(j) = y % rn
    BY <1>1, <1>4 DEF Ring!_utringbuffer_real_idx, Ring!_utringbuffer_fake_idx
  <2>2. (IF x < rn THEN x ELSE x - rn) = IF j + ri < rn THEN j + ri ELSE j + ri - rn
    <3>1. x = j + ri
      BY <1>1
    <3> QED BY <1>0, <1>1, <3>1
  <2>3. (IF y < rn THEN y ELSE y - rn) = IF j >= ri THEN j - ri ELSE j + rn - ri
    BY <1>0, <1>1
  <2> QED BY <1>2, <1>3, <1>4, <2>1, <2>2, <2>3
<1>5. CASE ~ rf
  BY <1>5 DEF Ring!_utringbuffer_real_idx, Ring!_utringbuffer_fake_idx
<1> QED BY <1>4, <1>5

LEMMA RingSteps ==
  ASSUME RingInv, NULL \notin Int
  PROVE  LET m == Ring!utringbuffer_len
         IN  /\ m \in Nat /\ m <= rn
             /\ \A k \in 1 .. m : Ring!_utringbuffer_real_idx(k - 1) \in 0 .. rn - 1
             /\ Ring!utringbuffer_next(NULL) =
                  IF m = 0 THEN NULL ELSE Ring!_utringbuffer_real_idx(0)
             /\ Ring!utringbuffer_prev(NULL) =
                  IF m = 0 THEN NULL ELSE Ring!_utringbuffer_real_idx(m - 1)
             /\ \A k \in 1 .. m :
                  LET e == Ring!_utringbuffer_real_idx(k - 1)
                  IN  /\ Ring!utringbuffer_next(e) =
                           IF k = m THEN NULL ELSE Ring!_utringbuffer_real_idx(k)
                      /\ Ring!utringbuffer_prev(e) =
                           IF k = 1 THEN NULL ELSE Ring!_utringbuffer_real_idx(k - 2)
             /\ { Ring!_utringbuffer_real_idx(k - 1) : k \in 1 .. m } =
                  { j \in 0 .. rn - 1 : rf \/ j < ri }
<1> DEFINE m == Ring!utringbuffer_len
           R(j) == Ring!_utringbuffer_real_idx(j)
<1>0. /\ rn \in Nat /\ ri \in Nat /\ rf \in BOOLEAN
      /\ IF rn = 0 THEN ri = 0 /\ ~ rf ELSE ri < rn
      /\ m = IF rf THEN rn ELSE ri
  BY ContainersAssumption
     DEF RingInv, Ring!TypeOK, IndexInv, RingAssumption, Ring!utringbuffer_len
<1>1. m \in Nat /\ m <= rn
  BY <1>0
<1>2. ASSUME NEW k \in 1 .. m
      PROVE  k - 1 \in 0 .. rn - 1 /\ (rf \/ k - 1 < ri) /\ (rf => ri < rn)
  BY <1>0
<1>3. ASSUME NEW k \in 1 .. m
      PROVE  R(k - 1) \in 0 .. rn - 1 /\ (rf \/ R(k - 1) < ri)
             /\ Ring!_utringbuffer_fake_idx(R(k - 1)) = k - 1
  <2>1. PICK j \in 0 .. rn - 1 : j = k - 1 /\ (rf \/ j < ri) /\ (rf => ri < rn)
    BY <1>2
  <2>2. /\ rf => R(j) = IF j + ri < rn THEN j + ri ELSE j + ri - rn
        /\ ~ rf => R(j) = j
    BY <2>1, RingIndex
  <2>3. PICK x : x = R(j)
    OBVIOUS
  <2> HIDE DEF R, m
  <2>4. x \in 0 .. rn - 1 /\ (rf \/ x < ri)
    BY <1>0, <2>1, <2>2, <2>3
  <2>5. /\ rf => Ring!_utringbuffer_fake_idx(x) = IF x >= ri THEN x - ri ELSE x + rn - ri
        /\ ~ rf => Ring!_utringbuffer_fake_idx(x) = x
    BY <2>4, RingIndex
  <2>6. Ring!_utringbuffer_fake_idx(x) = j
    <3>1. CASE ~ rf
      BY <2>2, <2>3, <2>5, <3>1
    <3>2. CASE rf /\ j + ri < rn
      BY <1>0, <2>1, <2>2, <2>3, <2>5, <3>2
    <3>3. CASE rf /\ ~ (j + ri < rn)
      <4>1. x = j + ri - rn /\ ~ (x >= ri)
        BY <1>0, <2>1, <2>2, <2>3, <3>3
      <4> QED BY <1>0, <2>1, <2>5, <3>3, <4>1
    <3> QED BY <3>1, <3>2, <3>3
  <2> QED BY <2>1, <2>3, <2>4, <2>6
<1>4. \A j \in Int : Ring!utringbuffer_eltptr(j) = IF 0 <= j /\ j < m THEN R(j) ELSE NULL
  BY <1>1 DEF Ring!utringbuffer_eltptr
<1>5. Ring!utringbuffer_empty <=> m = 0
  BY <1>0 DEF Ring!utringbuffer_empty
<1> HIDE DEF m, R
<1>6. Ring!utringbuffer_next(NULL) = IF m = 0 THEN NULL ELSE R(0)
  BY <1>1, <1>4 DEF Ring!utringbuffer_next, Ring!utringbuffer_front
<1>7. Ring!utringbuffer_prev(NULL) = IF m = 0 THEN NULL ELSE R(m - 1)
  <2>1. Ring!utringbuffer_eltptr(m - 1) = IF m = 0 THEN NULL ELSE R(m - 1)
    BY <1>1, <1>4
  <2>2. Ring!utringbuffer_prev(NULL) = IF m = 0 THEN NULL ELSE Ring!utringbuffer_eltptr(m - 1)
    BY <1>5 DEF Ring!utringbuffer_prev, Ring!utringbuffer_back, m
  <2> QED BY <2>1, <2>2
<1>8. ASSUME NEW k \in 1 .. m
      PROVE  /\ Ring!utringbuffer_next(R(k - 1)) = IF k = m THEN NULL ELSE R(k)
             /\ Ring!utringbuffer_prev(R(k - 1)) = IF k = 1 THEN NULL ELSE R(k - 2)
  <2>1. PICK x : x = R(k - 1)
    OBVIOUS
  <2>2. x # NULL /\ Ring!_utringbuffer_fake_idx(x) = k - 1
    BY <1>3, <2>1
  <2>3. k - 1 + 1 = k /\ k - 1 - 1 = k - 2
    OBVIOUS
  <2>4. Ring!utringbuffer_next(x) = Ring!utringbuffer_eltptr(k)
    BY <2>2, <2>3 DEF Ring!utringbuffer_next
  <2>5. Ring!utringbuffer_prev(x) = Ring!utringbuffer_eltptr(k - 2)
    BY <2>2, <2>3 DEF Ring!utringbuffer_prev
  <2>6. Ring!utringbuffer_eltptr(k) = IF k = m THEN NULL ELSE R(k)
    BY <1>1, <1>4
  <2>7. Ring!utringbuffer_eltptr(k - 2) = IF k = 1 THEN NULL ELSE R(k - 2)
    BY <1>1, <1>4
  <2> QED BY <2>1, <2>4, <2>5, <2>6, <2>7
<1>9. ASSUME NEW j \in 0 .. rn - 1, rf \/ j < ri PROVE \E k \in 1 .. m : R(k - 1) = j
  <2>1. CASE ~ rf
    <3>1. R(j) = j /\ j + 1 \in 1 .. m /\ (j + 1) - 1 = j
      BY <1>0, <1>9, <2>1, RingIndex DEF R
    <3> QED BY <3>1
  <2>2. CASE rf
    <3>1. PICK x \in 0 .. rn - 1 : x = IF j >= ri THEN j - ri ELSE j + rn - ri
      <4>1. ri < rn
        BY <1>0, <2>2
      <4>2. (IF j >= ri THEN j - ri ELSE j + rn - ri) \in 0 .. rn - 1
        BY <1>0, <4>1
      <4> QED BY <4>2
    <3>2. R(x) = IF x + ri < rn THEN x + ri ELSE x + ri - rn
      BY <2>2, RingIndex DEF R
    <3>3. R(x) = j
      BY <1>0, <2>2, <3>1, <3>2
    <3>4. x + 1 \in 1 .. m /\ (x + 1) - 1 = x
      BY <1>0, <2>2
    <3> QED BY <3>3, <3>4
  <2> QED BY <2>1, <2>2
<1>10. { R(k - 1) : k \in 1 .. m } = { j \in 0 .. rn - 1 : rf \/ j < ri }
  BY <1>3, <1>9
<1> QED BY <1>1, <1>3, <1>6, <1>7, <1>8, <1>10 DEF m, R

LEMMA RingWalks ==
  ASSUME RingInv, RingAssumption
  PROVE  Ring!WalksMirror
<1> DEFINE N == MaxSlots + 1
           forth == CHOOSE g : g = [k \in 0 .. N |->
                      IF k = 0 THEN NULL ELSE Ring!utringbuffer_next(g[k - 1])]
           back == CHOOSE g : g = [k \in 0 .. N |->
                      IF k = 0 THEN NULL ELSE Ring!utringbuffer_prev(g[k - 1])]
           m == Ring!utringbuffer_len
           R(j) == Ring!_utringbuffer_real_idx(j)
<1>0. NULL \notin Int /\ N \in Nat /\ rn <= MaxSlots /\ rn \in Nat
  BY DEF RingAssumption, RingInv, Ring!TypeOK
<1>1. /\ m \in Nat /\ m <= rn
      /\ \A k \in 1 .. m : R(k - 1) \in 0 .. rn - 1
      /\ Ring!utringbuffer_next(NULL) = IF m = 0 THEN NULL ELSE R(0)
      /\ Ring!utringbuffer_prev(NULL) = IF m = 0 THEN NULL ELSE R(m - 1)
      /\ \A k \in 1 .. m :
           /\ Ring!utringbuffer_next(R(k - 1)) = IF k = m THEN NULL ELSE R(k)
           /\ Ring!utringbuffer_prev(R(k - 1)) = IF k = 1 THEN NULL ELSE R(k - 2)
      /\ { R(k - 1) : k \in 1 .. m } = { j \in 0 .. rn - 1 : rf \/ j < ri }
  BY <1>0, RingSteps
<1>2. DOMAIN Ring!Items = 1 .. m /\ \A k \in 1 .. m : Ring!Items[k] = rd[R(k - 1)]
  BY DEF Ring!Items
<1> HIDE DEF m, R
<1> DEFINE D == {NULL} \cup { R(k - 1) : k \in 1 .. m }
           next1 == [e \in D |-> Ring!utringbuffer_next(e)]
           prev1 == [e \in D |-> Ring!utringbuffer_prev(e)]
           q == [k \in 0 .. m + 1 |-> IF k = 0 \/ k = m + 1 THEN NULL ELSE R(k - 1)]
           r == [k \in 0 .. m + 1 |-> IF k = 0 \/ k = m + 1 THEN NULL ELSE R(m - k)]
<1>3. next1 \in [D -> D] /\ prev1 \in [D -> D]
  <2>1. ASSUME NEW k \in 1 .. m
        PROVE  Ring!utringbuffer_next(R(k - 1)) \in D /\ Ring!utringbuffer_prev(R(k - 1)) \in D
    <3>1. k # m => k + 1 \in 1 .. m /\ k = (k + 1) - 1
      BY <1>1
    <3>2. k # 1 => k - 1 \in 1 .. m /\ k - 2 = (k - 1) - 1
      BY <1>1
    <3>3. R(k) \in D \/ k = m
      BY <3>1
    <3>4. R(k - 2) \in D \/ k = 1
      BY <3>2
    <3>5. NULL \in D
      OBVIOUS
    <3> HIDE DEF D
    <3> QED BY <1>1, <3>3, <3>4, <3>5
  <2>2. Ring!utringbuffer_next(NULL) \in D /\ Ring!utringbuffer_prev(NULL) \in D
    <3>1. m # 0 => 1 \in 1 .. m /\ m \in 1 .. m /\ 0 = 1 - 1
      BY <1>1
    <3> QED BY <1>1, <3>1
  <2> QED BY <2>1, <2>2
<1>4. ASSUME NEW k \in 0 .. m
      PROVE  /\ Ring!utringbuffer_next(q[k]) = q[k + 1]
             /\ Ring!utringbuffer_prev(r[k]) = r[k + 1]
  <2>1. CASE k = 0
    <3>1. q[0] = NULL /\ r[0] = NULL /\ q[1] = (IF m = 0 THEN NULL ELSE R(0))
          /\ r[1] = IF m = 0 THEN NULL ELSE R(m - 1)
      BY <1>1
    <3> HIDE DEF q, r
    <3> QED BY <1>1, <2>1, <3>1
  <2>2. CASE k # 0
    <3>1. PICK l \in 1 .. m : l = m + 1 - k
      BY <1>1, <2>2
    <3>2. /\ k \in 1 .. m /\ q[k] = R(k - 1) /\ r[k] = R(l - 1)
          /\ q[k + 1] = (IF k = m THEN NULL ELSE R(k))
          /\ r[k + 1] = IF l = 1 THEN NULL ELSE R(l - 2)
      <4>1. k \in 1 .. m /\ k \in 0 .. m + 1 /\ k + 1 \in 0 .. m + 1 /\ m - k = l - 1
            /\ (k + 1) - 1 = k /\ m - (k + 1) = l - 2 /\ (k + 1 = m + 1 <=> k = m)
            /\ (k + 1 = m + 1 <=> l = 1) /\ k + 1 # 0
        BY <1>1, <2>2, <3>1
      <4> QED BY <2>2, <4>1
    <3> HIDE DEF q, r
    <3> QED BY <1>1, <3>1, <3>2
  <2> QED BY <2>1, <2>2
<1>5. \E g : g = [k \in 0 .. N |-> IF k = 0 THEN NULL ELSE Ring!utringbuffer_next(g[k - 1])]
  <2>0. NULL \in D
    OBVIOUS
  <2> HIDE DEF N, D, next1
  <2>1. PICK g \in [0 .. N -> D] : Strolls(g, next1, N)
    BY <1>0, <1>3, <2>0, StrollDefined
  <2>2. \A k \in 0 .. N : k # 0 => g[k - 1] \in D
    BY <1>0
  <2> QED BY <2>1, <2>2 DEF Strolls, next1
<1>6. \E g : g = [k \in 0 .. N |-> IF k = 0 THEN NULL ELSE Ring!utringbuffer_prev(g[k - 1])]
  <2>0. NULL \in D
    OBVIOUS
  <2> HIDE DEF N, D, prev1
  <2>1. PICK g \in [0 .. N -> D] : Strolls(g, prev1, N)
    BY <1>0, <1>3, <2>0, StrollDefined
  <2>2. \A k \in 0 .. N : k # 0 => g[k - 1] \in D
    BY <1>0
  <2> QED BY <2>1, <2>2 DEF Strolls, prev1
<1>7. forth = [k \in 0 .. N |-> IF k = 0 THEN NULL ELSE Ring!utringbuffer_next(forth[k - 1])]
  BY <1>5
<1>8. back = [k \in 0 .. N |-> IF k = 0 THEN NULL ELSE Ring!utringbuffer_prev(back[k - 1])]
  BY <1>6
<1> HIDE DEF forth, back
<1>9. q[0] = NULL /\ r[0] = NULL
  BY <1>1
<1>10. \A k \in 0 .. m + 1 : forth[k] = q[k] /\ back[k] = r[k]
  <2>1. ASSUME NEW k \in 0 .. m
        PROVE  /\ forth[k + 1] = Ring!utringbuffer_next(forth[k])
               /\ back[k + 1] = Ring!utringbuffer_prev(back[k])
    <3>0. m <= MaxSlots /\ k \in Nat /\ k <= m /\ N = MaxSlots + 1 /\ MaxSlots \in Nat
      BY <1>0, <1>1 DEF RingAssumption
    <3>1. k + 1 \in 0 .. N /\ k + 1 # 0 /\ (k + 1) - 1 = k
      BY <1>1, <3>0
    <3>2. PICK j \in 0 .. N : j = k + 1 /\ j # 0 /\ j - 1 = k
      BY <3>1
    <3> HIDE DEF N
    <3>3. forth[j] = IF j = 0 THEN NULL ELSE Ring!utringbuffer_next(forth[j - 1])
      BY <1>7
    <3>4. back[j] = IF j = 0 THEN NULL ELSE Ring!utringbuffer_prev(back[j - 1])
      BY <1>8
    <3> QED BY <3>2, <3>3, <3>4
  <2>2. forth[0] = NULL /\ back[0] = NULL
    BY <1>0, <1>7, <1>8
  <2> HIDE DEF q, r
  <2>3. \A k \in 0 .. m + 1 : forth[k] = q[k]
    BY <1>1, <1>4, <1>9, <2>1, <2>2, StrollMeets
  <2>4. \A k \in 0 .. m + 1 : back[k] = r[k]
    BY <1>1, <1>4, <1>9, <2>1, <2>2, StrollMeets
  <2> QED BY <2>3, <2>4
<1>11. forth[m + 1] = NULL /\ back[m + 1] = NULL
  BY <1>1, <1>10
<1>12. \A k \in 1 .. m : forth[k] = R(k - 1) /\ back[k] = R(m - k)
  BY <1>1, <1>10
<1>13. { forth[k] : k \in 1 .. m } = { j \in 0 .. rn - 1 : rf \/ j < ri }
  BY <1>1, <1>12
<1>14. ASSUME NEW k \in 1 .. m PROVE forth[k] = back[m + 1 - k] /\ rd[forth[k]] = Ring!Items[k]
  <2>1. PICK l \in 1 .. m : l = m + 1 - k /\ m - l = k - 1
    BY <1>1
  <2>2. back[l] = R(k - 1)
    BY <1>12, <2>1
  <2> QED BY <1>2, <1>12, <2>1, <2>2
<1> QED BY <1>11, <1>13, <1>14 DEF Ring!WalksMirror, forth, back, m

-----------------------------------------------------------------------------
(* Functions defined by recursion along a measure *)

\* f[x] is val[x] in G, and elsewhere a step from what it is at down[x].
Recurs(f, S, G, down, val, step) ==
  /\ DOMAIN f = S
  /\ \A x \in S : f[x] = IF x \in G THEN val[x] ELSE step[<<x, f[down[x]]>>]

Descends(S, G, down, mu) ==
  \A x \in S : mu[x] \in Nat /\ (x \notin G => down[x] \in S /\ mu[down[x]] < mu[x])

\* P relates each x to what f[x] may be.
Preserved(P, S, G, down, val, step) ==
  \A x \in S : IF x \in G THEN <<x, val[x]>> \in P
               ELSE \A r : <<down[x], r>> \in P => <<x, step[<<x, r>>]>> \in P

LEMMA RecursKeeps ==
  ASSUME NEW S, NEW G, NEW down, NEW val, NEW step, NEW mu, NEW P, NEW f,
         Descends(S, G, down, mu), Preserved(P, S, G, down, val, step),
         Recurs(f, S, G, down, val, step)
  PROVE  \A x \in S : <<x, f[x]>> \in P
<1> DEFINE Q == { n \in Nat : \A x \in S : mu[x] <= n => <<x, f[x]>> \in P }
<1>0. \A x \in S : /\ mu[x] \in Nat
                   /\ x \notin G => down[x] \in S /\ mu[down[x]] \in Nat /\ mu[down[x]] < mu[x]
  BY DEF Descends
<1>1. ASSUME NEW x \in S, x \in G PROVE <<x, f[x]>> \in P
  BY <1>1 DEF Preserved, Recurs
<1>2. ASSUME NEW x \in S, x \notin G, <<down[x], f[down[x]]>> \in P PROVE <<x, f[x]>> \in P
  BY <1>2 DEF Preserved, Recurs
<1>3. 0 \in Q
  BY <1>0, <1>1
<1>4. ASSUME NEW n \in Nat, n \in Q PROVE n + 1 \in Q
  <2>1. ASSUME NEW x \in S, mu[x] <= n + 1, x \notin G PROVE <<x, f[x]>> \in P
    <3>1. down[x] \in S /\ mu[down[x]] <= n
      BY <1>0, <2>1
    <3> QED BY <1>2, <1>4, <2>1, <3>1
  <2> QED BY <1>1, <2>1
<1>5. \A n \in Nat : n \in Q
  <2> HIDE DEF Q
  <2> QED BY <1>3, <1>4, Induction
<1> QED BY <1>0, <1>5

\* A step has a value only where P says what it starts from.
LEMMA RecursDefined ==
  ASSUME NEW S, NEW G, NEW down, NEW val, NEW step, NEW mu, NEW P,
         Descends(S, G, down, mu), Preserved(P, S, G, down, val, step)
  PROVE  \E f : f = [x \in S |-> f[x]] /\ Recurs(f, S, G, down, val, step)
<1> DEFINE Right(f, x) == f[x] = IF x \in G THEN val[x] ELSE step[<<x, f[down[x]]>>]
           Q == { n \in Nat : \E f : /\ DOMAIN f = S /\ f = [x \in S |-> f[x]]
                                     /\ \A x \in S : mu[x] <= n => Right(f, x) /\ <<x, f[x]>> \in P }
<1>0. \A x \in S : /\ mu[x] \in Nat
                   /\ x \notin G => down[x] \in S /\ mu[down[x]] \in Nat /\ mu[down[x]] < mu[x]
  BY DEF Descends
<1>1. /\ \A x \in S : x \in G => <<x, val[x]>> \in P
      /\ \A x \in S : \A r : x \notin G /\ <<down[x], r>> \in P => <<x, step[<<x, r>>]>> \in P
  BY <1>0 DEF Preserved
<1>2. ASSUME NEW n \in Nat, NEW f, DOMAIN f = S,
             \A x \in S : mu[x] < n => Right(f, x) /\ <<x, f[x]>> \in P
      PROVE  \E g : /\ DOMAIN g = S /\ g = [x \in S |-> g[x]]
                    /\ \A x \in S : mu[x] <= n => Right(g, x) /\ <<x, g[x]>> \in P
  <2> DEFINE g == [x \in S |-> IF mu[x] = n
                               THEN IF x \in G THEN val[x] ELSE step[<<x, f[down[x]]>>]
                               ELSE f[x]]
  <2>1. \A x \in S : g[x] = IF mu[x] = n
                            THEN IF x \in G THEN val[x] ELSE step[<<x, f[down[x]]>>]
                            ELSE f[x]
    OBVIOUS
  <2>2. DOMAIN g = S /\ g = [x \in S |-> g[x]]
    OBVIOUS
  <2> HIDE DEF g
  <2>3. ASSUME NEW x \in S, mu[x] <= n PROVE Right(g, x) /\ <<x, g[x]>> \in P
    <3>1. CASE x \in G
      <4>1. CASE mu[x] = n
        BY <1>1, <2>1, <3>1, <4>1
      <4>2. CASE mu[x] # n
        <5>1. mu[x] < n
          BY <1>0, <2>3, <4>2
        <5> QED BY <1>2, <2>1, <3>1, <4>2, <5>1
      <4> QED BY <4>1, <4>2
    <3>2. CASE x \notin G
      <4>1. down[x] \in S /\ mu[down[x]] < n /\ mu[down[x]] # n
        BY <1>0, <2>3, <3>2
      <4>2. g[down[x]] = f[down[x]] /\ <<down[x], f[down[x]]>> \in P
        BY <1>2, <2>1, <4>1
      <4>3. CASE mu[x] = n
        BY <1>1, <2>1, <3>2, <4>2, <4>3
      <4>4. CASE mu[x] # n
        <5>1. mu[x] < n
          BY <1>0, <2>3, <4>4
        <5>2. g[x] = f[x] /\ Right(f, x) /\ <<x, f[x]>> \in P
          BY <1>2, <2>1, <4>4, <5>1
        <5> QED BY <3>2, <4>2, <5>2
      <4> QED BY <4>3, <4>4
    <3> QED BY <3>1, <3>2
  <2> QED BY <2>2, <2>3
<1>3. 0 \in Q
  <2> DEFINE f == [x \in S |-> x]
  <2>1. DOMAIN f = S /\ \A x \in S : ~ (mu[x] < 0)
    BY <1>0
  <2> HIDE DEF f, Right
  <2> QED BY <1>2, <2>1
<1>4. ASSUME NEW n \in Nat, n \in Q PROVE n + 1 \in Q
  <2>1. PICK f : DOMAIN f = S /\ \A x \in S : mu[x] <= n => Right(f, x) /\ <<x, f[x]>> \in P
    BY <1>4
  <2>2. \A x \in S : mu[x] < n + 1 => mu[x] <= n
    BY <1>0
  <2> HIDE DEF Right
  <2> QED BY <1>2, <2>1, <2>2
<1>5. \A n \in Nat : n \in Q
  <2> HIDE DEF Q
  <2> QED BY <1>3, <1>4, Induction
<1> DEFINE Good(n, f) == /\ DOMAIN f = S /\ f = [x \in S |-> f[x]]
                         /\ \A x \in S : mu[x] <= n => Right(f, x) /\ <<x, f[x]>> \in P
           pick == [n \in Nat |-> CHOOSE f : Good(n, f)]
<1>6. \A n \in Nat : Good(n, pick[n])
  <2> SUFFICES ASSUME NEW n \in Nat PROVE Good(n, pick[n])
    OBVIOUS
  <2>1. \E f : Good(n, f)
    BY <1>5
  <2> HIDE DEF Good
  <2> QED BY <2>1
<1>7. \A m, n \in Nat : m <= n => \A x \in S : mu[x] <= m => pick[m][x] = pick[n][x]
  <2> SUFFICES ASSUME NEW m \in Nat, NEW n \in Nat, m <= n
               PROVE  \A x \in S : mu[x] <= m => pick[m][x] = pick[n][x]
    OBVIOUS
  <2> DEFINE a1 == pick[m]
             b1 == pick[n]
             T == { k \in Nat : k <= m => \A x \in S : mu[x] <= k => a1[x] = b1[x] }
  <2>1. Good(m, a1) /\ Good(n, b1)
    BY <1>6
  <2> HIDE DEF a1, b1
  <2>2. ASSUME NEW x \in S, mu[x] <= m, x \notin G => a1[down[x]] = b1[down[x]]
        PROVE  a1[x] = b1[x]
    <3>1. mu[x] <= n
      BY <1>0, <2>2
    <3>2. Right(a1, x) /\ Right(b1, x)
      BY <2>1, <2>2, <3>1
    <3> QED BY <2>2, <3>2
  <2>3. 0 \in T
    BY <1>0, <2>2
  <2>4. ASSUME NEW k \in Nat, k \in T PROVE k + 1 \in T
    <3>1. ASSUME k + 1 <= m, NEW x \in S, mu[x] <= k + 1 PROVE a1[x] = b1[x]
      <4>1. x \notin G => down[x] \in S /\ mu[down[x]] <= k
        BY <1>0, <3>1
      <4>2. k <= m /\ mu[x] <= m
        BY <1>0, <3>1
      <4>3. x \notin G => a1[down[x]] = b1[down[x]]
        BY <2>4, <4>1, <4>2
      <4> QED BY <2>2, <4>2, <4>3
    <3> QED BY <3>1
  <2>5. \A k \in Nat : k \in T
    <3> HIDE DEF T
    <3> QED BY <2>3, <2>4, Induction
  <2> QED BY <2>5 DEF a1, b1
<1> DEFINE f == [x \in S |-> pick[mu[x]][x]]
<1>8. \A x \in S : <<x, f[x]>> \in P /\ Right(f, x)
  <2> SUFFICES ASSUME NEW x \in S PROVE <<x, f[x]>> \in P /\ Right(f, x)
    OBVIOUS
  <2>1. mu[x] \in Nat /\ mu[x] <= mu[x] /\ f[x] = pick[mu[x]][x]
    BY <1>0
  <2> DEFINE p == pick[mu[x]]
  <2>2. Right(p, x) /\ <<x, p[x]>> \in P
    BY <1>6, <2>1
  <2>3. CASE x \in G
    BY <2>1, <2>2, <2>3
  <2>4. CASE x \notin G
    <3>1. down[x] \in S /\ mu[down[x]] \in Nat /\ mu[down[x]] <= mu[x]
      BY <1>0, <2>4
    <3>2. f[down[x]] = pick[mu[down[x]]][down[x]]
      BY <3>1
    <3> HIDE DEF pick, f
    <3>3. f[down[x]] = p[down[x]]
      BY <1>7, <2>1, <3>1, <3>2
    <3>4. f[x] = p[x]
      BY <2>1 DEF p
    <3> HIDE DEF p
    <3>5. p[x] = step[<<x, p[down[x]]>>] /\ <<x, p[x]>> \in P
      BY <2>2, <2>4
    <3>6. f[x] = step[<<x, f[down[x]]>>] /\ <<x, f[x]>> \in P
      BY <3>3, <3>4, <3>5
    <3> QED BY <2>4, <3>6
  <2> QED BY <2>3, <2>4
<1>9. f = [x \in S |-> f[x]] /\ DOMAIN f = S
  OBVIOUS
<1> HIDE DEF f
<1>10. \A x \in S : f[x] = IF x \in G THEN val[x] ELSE step[<<x, f[down[x]]>>]
  BY <1>8
<1>11. Recurs(f, S, G, down, val, step)
  BY <1>9, <1>10 DEF Recurs
<1> QED BY <1>9, <1>11

-----------------------------------------------------------------------------
(* And those that are what they are further down: loops *)

Loops(f, S, G, down, val) ==
  /\ DOMAIN f = S
  /\ \A x \in S : f[x] = IF x \in G THEN val[x] ELSE f[down[x]]

LEMMA LoopsKeep ==
  ASSUME NEW S, NEW G, NEW down, NEW val, NEW mu, NEW P, NEW f,
         Descends(S, G, down, mu), Loops(f, S, G, down, val),
         \A x \in S : x \in G => <<x, val[x]>> \in P,
         \A x \in S : \A r : x \notin G /\ <<down[x], r>> \in P => <<x, r>> \in P
  PROVE  \A x \in S : <<x, f[x]>> \in P
<1> DEFINE V == { f[x] : x \in S }
           step == [xr \in S \X V |-> xr[2]]
           P1 == P \cap (S \X V)
<1>0. \A x \in S : x \notin G => down[x] \in S
  BY DEF Descends
<1>1. \A x \in S : f[x] \in V
  OBVIOUS
<1>2. \A x \in S : \A r \in V : step[<<x, r>>] = r
  OBVIOUS
<1> HIDE DEF V, step
<1>3. Recurs(f, S, G, down, val, step)
  BY <1>0, <1>1, <1>2 DEF Recurs, Loops
<1>4. ASSUME NEW x \in S PROVE IF x \in G THEN <<x, val[x]>> \in P1
                               ELSE \A r : <<down[x], r>> \in P1 => <<x, step[<<x, r>>]>> \in P1
  <2>1. CASE x \in G
    BY <1>1, <2>1 DEF Loops
  <2>2. CASE x \notin G
    <3>1. ASSUME NEW r, <<down[x], r>> \in P1 PROVE <<x, step[<<x, r>>]>> \in P1
      <4>1. r \in V /\ <<down[x], r>> \in P
        BY <3>1
      <4> QED BY <1>2, <2>2, <4>1
    <3> QED BY <2>2, <3>1
  <2> QED BY <2>1, <2>2
<1>5. Preserved(P1, S, G, down, val, step)
  <2> HIDE DEF P1
  <2> QED BY <1>4 DEF Preserved
<1>6. \A x \in S : <<x, f[x]>> \in P1
  <2> HIDE DEF P1
  <2> QED BY <1>3, <1>5, RecursKeeps
<1> QED BY <1>6

LEMMA LoopsDefined ==
  ASSUME NEW S, NEW G, NEW down, NEW val, NEW mu, Descends(S, G, down, mu)
  PROVE  \E f : f = [x \in S |-> f[x]] /\ Loops(f, S, G, down, val)
<1> DEFINE V == { val[x] : x \in S }
           step == [xr \in S \X V |-> xr[2]]
           P == S \X V
<1>0. \A x \in S : x \notin G => down[x] \in S
  BY DEF Descends
<1>1. \A x \in S : val[x] \in V
  OBVIOUS
<1>2. \A x \in S : \A r \in V : step[<<x, r>>] = r
  OBVIOUS
<1> HIDE DEF V, step
<1>3. Preserved(P, S, G, down, val, step)
  BY <1>1, <1>2 DEF Preserved
<1>4. PICK f : f = [x \in S |-> f[x]] /\ Recurs(f, S, G, down, val, step)
  <2> HIDE DEF P
  <2> QED BY <1>3, RecursDefined
<1>5. \A x \in S : f[x] \in V
  <2>1. \A x \in S : <<x, f[x]>> \in P
    <3> HIDE DEF P
    <3> QED BY <1>3, <1>4, RecursKeeps
  <2> QED BY <2>1
<1>6. DOMAIN f = S /\ \A x \in S : f[x] = IF x \in G THEN val[x] ELSE step[<<x, f[down[x]]>>]
  BY <1>4 DEF Recurs
<1>7. \A x \in S : x \notin G => step[<<x, f[down[x]]>>] = f[down[x]]
  BY <1>0, <1>2, <1>5
<1>8. Loops(f, S, G, down, val)
  BY <1>6, <1>7 DEF Loops
<1> QED BY <1>4, <1>8

-----------------------------------------------------------------------------
(* Borders: how far the needle n matches itself *)

\* Its first k characters are the last k of its first i.
Match(n, k, i) == \A m \in 0 .. k - 1 : n[m] = n[i - k + m]

LEMMA MatchTrans ==
  ASSUME NEW n, NEW i \in Nat, NEW k \in 0 .. i, NEW b \in 0 .. k, Match(n, b, k), Match(n, k, i)
  PROVE  Match(n, b, i)
<1> SUFFICES ASSUME NEW m \in 0 .. b - 1 PROVE n[m] = n[i - b + m]
  BY DEF Match
<1>1. n[m] = n[k - b + m]
  BY DEF Match
<1> DEFINE q == k - b + m
<1>2. q \in 0 .. k - 1 /\ i - k + q = i - b + m
  OBVIOUS
<1>3. n[q] = n[i - k + q]
  BY <1>2 DEF Match
<1> QED BY <1>1, <1>2, <1>3

LEMMA MatchShorter ==
  ASSUME NEW n, NEW i \in Nat, NEW k \in 0 .. i, NEW b \in 0 .. k, Match(n, b, i), Match(n, k, i)
  PROVE  Match(n, b, k)
<1> SUFFICES ASSUME NEW m \in 0 .. b - 1 PROVE n[m] = n[k - b + m]
  BY DEF Match
<1>1. n[m] = n[i - b + m]
  BY DEF Match
<1> DEFINE q == k - b + m
<1>2. q \in 0 .. k - 1 /\ i - k + q = i - b + m
  OBVIOUS
<1>3. n[q] = n[i - k + q]
  BY <1>2 DEF Match
<1> QED BY <1>1, <1>2, <1>3

LEMMA MatchOneMore ==
  ASSUME NEW n, NEW i \in Nat, NEW k \in 0 .. i
  PROVE  Match(n, k + 1, i + 1) <=> Match(n, k, i) /\ n[k] = n[i]
<1>1. ASSUME Match(n, k + 1, i + 1) PROVE Match(n, k, i) /\ n[k] = n[i]
  <2>1. \A m \in 0 .. k : n[m] = n[i - k + m]
    BY <1>1 DEF Match
  <2>2. n[k] = n[i - k + k]
    BY <2>1
  <2>3. Match(n, k, i)
    BY <2>1 DEF Match
  <2> QED BY <2>2, <2>3
<1>2. ASSUME Match(n, k, i), n[k] = n[i] PROVE Match(n, k + 1, i + 1)
  <2>1. ASSUME NEW m \in 0 .. k PROVE n[m] = n[i - k + m]
    <3>1. CASE m = k
      BY <1>2, <3>1
    <3>2. CASE m # k
      BY <1>2, <3>2 DEF Match
    <3> QED BY <3>1, <3>2
  <2> QED BY <2>1 DEF Match
<1> QED BY <1>1, <1>2

-----------------------------------------------------------------------------
(* Following a table *)

Tables(len) == { T \in [0 .. len -> -1 .. len] : \A k \in 0 .. len : T[k] < k }

\* The entry at k: a border of the first k, and none is passed over after which
\* the needle goes on otherwise than after k.
Entry(n, T, k) ==
  /\ T[k] >= 0 => Match(n, T[k], k)
  /\ \A b \in 0 .. k - 1 : Match(n, b, k) /\ n[b] # n[k] => b <= T[k]

\* The longest border of the first i, they themselves included, after which the
\* needle goes on with c.
LongestTo(n, c, i, r) ==
  /\ r \in -1 .. i
  /\ r >= 0 => Match(n, r, i) /\ n[r] = c
  /\ \A b \in 0 .. i : Match(n, b, i) /\ n[b] = c => b <= r

\* What the loops of Fallback do, and what they arrive at.
LEMMA FallbackKeeps ==
  ASSUME NEW n, NEW len \in Nat, NEW T \in Tables(len), NEW c
  PROVE  /\ \A i \in -1 .. len : String!Fallback(n, len, T, c, i) =
              IF i = -1 \/ n[i] = c THEN i ELSE String!Fallback(n, len, T, c, T[i])
         /\ \A P : /\ \A x \in -1 .. len : x = -1 \/ n[x] = c => <<x, x>> \in P
                   /\ \A x \in 0 .. len : \A r : n[x] # c /\ <<T[x], r>> \in P => <<x, r>> \in P
                   => \A i \in -1 .. len : <<i, String!Fallback(n, len, T, c, i)>> \in P
<1> DEFINE S == -1 .. len
           G == { k \in S : k = -1 \/ n[k] = c }
           id == [k \in S |-> k]
           mu == [k \in S |-> k + 1]
           Body(f) == [k \in S |-> IF k = -1 \/ n[k] = c THEN k ELSE f[T[k]]]
           f0 == CHOOSE f : f = Body(f)
<1>1. \A x \in S : x \notin G => T[x] \in S /\ T[x] < x
  BY DEF Tables
<1>2. Descends(S, G, T, mu)
  BY <1>1 DEF Descends
<1>3. PICK f : f = [x \in S |-> f[x]] /\ Loops(f, S, G, T, id)
  <2> HIDE DEF S, G, id, mu
  <2> QED BY <1>2, LoopsDefined
<1>4. f = Body(f)
  BY <1>3 DEF Loops
<1>5. f0 = Body(f0)
  <2> HIDE DEF Body
  <2> QED BY <1>4
<1>6. \A i \in S : String!Fallback(n, len, T, c, i) = f0[i]
  BY DEF String!Fallback
<1> HIDE DEF f0
<1>7. DOMAIN f0 = S /\ \A x \in S : f0[x] = IF x = -1 \/ n[x] = c THEN x ELSE f0[T[x]]
  BY <1>5
<1>8. Loops(f0, S, G, T, id)
  BY <1>7 DEF Loops
<1>9. ASSUME NEW i \in -1 .. len
      PROVE  String!Fallback(n, len, T, c, i) =
               IF i = -1 \/ n[i] = c THEN i ELSE String!Fallback(n, len, T, c, T[i])
  BY <1>1, <1>6, <1>7
<1>10. ASSUME NEW P,
             \A x \in -1 .. len : x = -1 \/ n[x] = c => <<x, x>> \in P,
             \A x \in 0 .. len : \A r : n[x] # c /\ <<T[x], r>> \in P => <<x, r>> \in P
      PROVE  \A i \in -1 .. len : <<i, String!Fallback(n, len, T, c, i)>> \in P
  <2>1. /\ \A x \in S : x \in G => <<x, id[x]>> \in P
        /\ \A x \in S : \A r : x \notin G /\ <<T[x], r>> \in P => <<x, r>> \in P
    BY <1>10
  <2>2. \A x \in S : <<x, f0[x]>> \in P
    <3> HIDE DEF S, G, id, mu
    <3> QED BY <1>2, <1>8, <2>1, LoopsKeep
  <2> QED BY <1>6, <2>2
<1> QED BY <1>9, <1>10

LEMMA FallbackLongest ==
  ASSUME NEW n, NEW len \in Nat, NEW T \in Tables(len), NEW c, NEW i \in -1 .. len,
         \A k \in 0 .. i : Entry(n, T, k)
  PROVE  LongestTo(n, c, i, String!Fallback(n, len, T, c, i))
<1> DEFINE P == { xr \in (-1 .. len) \X (-1 .. len) :
                    xr[1] <= i => LongestTo(n, c, xr[1], xr[2]) }
<1>1. ASSUME NEW x \in -1 .. len, x = -1 \/ n[x] = c PROVE <<x, x>> \in P
  BY <1>1 DEF LongestTo, Match
<1>2. ASSUME NEW x \in 0 .. len, NEW r, n[x] # c, <<T[x], r>> \in P PROVE <<x, r>> \in P
  <2> DEFINE t == T[x]
  <2>1. t \in -1 .. len /\ t < x /\ r \in -1 .. len
    BY <1>2 DEF Tables
  <2>2. ASSUME x <= i PROVE LongestTo(n, c, x, r)
    <3>1. LongestTo(n, c, t, r)
      BY <1>2, <2>1, <2>2
    <3>2. Entry(n, T, x)
      BY <2>2
    <3> HIDE DEF P
    <3>3. r \in -1 .. x
      BY <2>1, <3>1 DEF LongestTo
    <3>4. ASSUME r >= 0 PROVE Match(n, r, x) /\ n[r] = c
      <4>1. t \in 0 .. x /\ r \in 0 .. t /\ Match(n, r, t) /\ n[r] = c
        BY <2>1, <3>1, <3>4 DEF LongestTo
      <4>2. Match(n, t, x)
        BY <3>2, <4>1 DEF Entry
      <4> HIDE DEF t
      <4> QED BY <4>1, <4>2, MatchTrans
    <3>5. ASSUME NEW b \in 0 .. x, Match(n, b, x), n[b] = c PROVE b <= r
      <4>1. b \in 0 .. x - 1
        BY <1>2, <3>5
      <4>2. b <= t
        BY <1>2, <3>2, <3>5, <4>1 DEF Entry
      <4>3. t \in 0 .. x /\ b \in 0 .. t /\ Match(n, t, x)
        BY <2>1, <3>2, <4>1, <4>2 DEF Entry
      <4> HIDE DEF t
      <4>4. Match(n, b, t)
        BY <3>5, <4>3, MatchShorter
      <4> QED BY <3>1, <3>5, <4>3, <4>4 DEF LongestTo
    <3> QED BY <3>3, <3>4, <3>5 DEF LongestTo
  <2> QED BY <2>1, <2>2
<1> DEFINE r == String!Fallback(n, len, T, c, i)
<1>3. <<i, r>> \in P
  <2> HIDE DEF P
  <2> QED BY <1>1, <1>2, FallbackKeeps
<1> HIDE DEF r
<1>4. LongestTo(n, c, i, r)
  BY <1>3
<1> QED BY <1>4 DEF r

-----------------------------------------------------------------------------
(* Building the table from left to right *)

\* After turn i: acc.j is the longest border of the first i that is shorter, and
\* the entries up to i are right.
Built(n, len, i, acc) ==
  /\ acc = [j |-> acc.j, table |-> acc.table]
  /\ acc.j \in -1 .. i - 1 /\ acc.table \in Tables(len)
  /\ i > 0 => acc.j >= 0 /\ Match(n, acc.j, i)
  /\ \A b \in 0 .. i - 1 : Match(n, b, i) => b <= acc.j
  /\ \A k \in 0 .. i : k < len => Entry(n, acc.table, k)

LEMMA StepBuilds ==
  ASSUME NEW n, NEW len \in Nat, NEW i \in 1 .. len, NEW acc, Built(n, len, i - 1, acc)
  PROVE  Built(n, len, i, String!BuildStep(n, len, acc, i))
<1> DEFINE j == acc.j
           T == acc.table
           f == String!Fallback(n, len, T, n[i - 1], j)
           j2 == f + 1
           skip == i < len /\ n[i] = n[j2]
           T2 == [T EXCEPT ![i] = IF skip THEN T[j2] ELSE j2]
           new == [j |-> j2, table |-> T2]
<1>1. new = String!BuildStep(n, len, acc, i)
  BY DEF String!BuildStep
<1>2. /\ j \in -1 .. i - 2 /\ T \in Tables(len)
      /\ i - 1 > 0 => j >= 0 /\ Match(n, j, i - 1)
      /\ \A b \in 0 .. i - 2 : Match(n, b, i - 1) => b <= j
      /\ \A k \in 0 .. i - 1 : k < len => Entry(n, T, k)
  BY DEF Built
<1> HIDE DEF j, T
<1>3. LongestTo(n, n[i - 1], j, f)
  BY <1>2, FallbackLongest
<1> HIDE DEF f
<1>4. f \in -1 .. j /\ j2 \in 0 .. i - 1 /\ j2 \in 0 .. len
  BY <1>2, <1>3 DEF LongestTo
<1>5. Match(n, j2, i)
  <2>1. CASE f = -1
    BY <2>1 DEF Match
  <2>2. CASE f # -1
    <3>1. f \in 0 .. j /\ j \in 0 .. i - 1 /\ i - 1 \in Nat /\ f \in 0 .. i - 1
      BY <1>2, <1>4, <2>2
    <3>2. Match(n, f, j) /\ n[f] = n[i - 1] /\ Match(n, j, i - 1)
      BY <1>2, <1>3, <3>1 DEF LongestTo
    <3>3. Match(n, f, i - 1)
      BY <3>1, <3>2, MatchTrans
    <3>4. Match(n, f + 1, (i - 1) + 1)
      BY <3>1, <3>2, <3>3, MatchOneMore
    <3> QED BY <3>4
  <2> QED BY <2>1, <2>2
<1>6. ASSUME NEW b \in 0 .. i - 1, Match(n, b, i) PROVE b <= j2
  <2>1. CASE b = 0
    BY <1>4, <2>1
  <2>2. CASE b # 0
    <3> DEFINE b1 == b - 1
               i1 == i - 1
    <3>1. b1 \in 0 .. i - 2 /\ i1 \in Nat /\ b1 \in 0 .. i1 /\ b1 + 1 = b /\ i1 + 1 = i
      BY <2>2
    <3>2. Match(n, b1, i1) /\ n[b1] = n[i1]
      <4> HIDE DEF b1, i1
      <4>1. Match(n, b1 + 1, i1 + 1)
        BY <1>6, <3>1
      <4> QED BY <3>1, <4>1, MatchOneMore
    <3>3. b1 <= j /\ Match(n, j, i1)
      BY <1>2, <3>1, <3>2
    <3>4. j \in 0 .. i1 /\ b1 \in 0 .. j
      BY <1>2, <3>1, <3>3
    <3>5. Match(n, b1, j)
      BY <3>1, <3>2, <3>3, <3>4, MatchShorter
    <3>6. b1 <= f
      BY <1>3, <3>2, <3>4, <3>5 DEF LongestTo
    <3> QED BY <1>4, <3>1, <3>6
  <2> QED BY <2>1, <2>2
<1> HIDE DEF j2
<1>7. T2 \in Tables(len) /\ \A k \in 0 .. len : T2[k] = IF k = i THEN IF skip THEN T[j2] ELSE j2 ELSE T[k]
  BY <1>2, <1>4 DEF Tables
<1>8. ASSUME i < len PROVE Entry(n, T2, i)
  <2>1. CASE skip
    <3> DEFINE t == T[j2]
    <3>1. T2[i] = t /\ t \in -1 .. j2 - 1 /\ Entry(n, T, j2)
      BY <1>2, <1>4, <1>7, <1>8, <2>1 DEF Tables
    <3>2. ASSUME t >= 0 PROVE Match(n, t, i)
      <4>1. t \in 0 .. j2 /\ j2 \in 0 .. i /\ Match(n, t, j2) /\ i \in Nat
        BY <1>4, <3>1, <3>2 DEF Entry
      <4> HIDE DEF t
      <4> QED BY <1>5, <4>1, MatchTrans
    <3>3. ASSUME NEW b \in 0 .. i - 1, Match(n, b, i), n[b] # n[i] PROVE b <= t
      <4>1. b <= j2 /\ b # j2
        BY <1>6, <2>1, <3>3
      <4>2. b \in 0 .. j2 - 1 /\ b \in 0 .. j2 /\ j2 \in 0 .. i /\ i \in Nat
        BY <1>4, <4>1
      <4>3. Match(n, b, j2)
        BY <1>5, <3>3, <4>2, MatchShorter
      <4> QED BY <2>1, <3>1, <3>3, <4>2, <4>3 DEF Entry
    <3> HIDE DEF t, T2
    <3> QED BY <3>1, <3>2, <3>3 DEF Entry
  <2>2. CASE ~ skip
    <3>1. T2[i] = j2
      BY <1>7, <2>2
    <3> HIDE DEF T2
    <3> QED BY <1>5, <1>6, <3>1 DEF Entry
  <2> QED BY <2>1, <2>2
<1>9. ASSUME NEW k \in 0 .. i, k < len PROVE Entry(n, T2, k)
  <2>1. CASE k = i
    BY <1>8, <1>9, <2>1
  <2>2. CASE k # i
    <3>1. T2[k] = T[k] /\ Entry(n, T, k)
      BY <1>2, <1>7, <1>9, <2>2
    <3> HIDE DEF T2
    <3> QED BY <3>1 DEF Entry
  <2> QED BY <2>1, <2>2
<1> HIDE DEF T2
<1>10. new.j = j2 /\ new.table = T2 /\ new = [j |-> new.j, table |-> new.table]
  OBVIOUS
<1>11. j2 \in -1 .. i - 1 /\ j2 >= 0
  BY <1>4
<1> HIDE DEF new
<1>12. Built(n, len, i, new)
  BY <1>5, <1>6, <1>7, <1>9, <1>10, <1>11 DEF Built
<1> QED BY <1>1, <1>12

\* The turns of it are b.
Turns(n, len, b) ==
  /\ b[0] = [j |-> -1, table |-> [k \in 0 .. len |-> -1]]
  /\ \A i \in 1 .. len : b[i] = String!BuildStep(n, len, b[i - 1], i)
  /\ \A i \in 0 .. len : Built(n, len, i, b[i])

LEMMA BuildTableTurns ==
  ASSUME NEW n, NEW len \in Nat
  PROVE  \E b : Turns(n, len, b) /\ String!_utstring_BuildTable(n, len) = b[len].table
<1> DEFINE S == 0 .. len
           G == {0}
           first == [j |-> -1, table |-> [k \in 0 .. len |-> -1]]
           val == [i \in S |-> first]
           down == [i \in S |-> i - 1]
           mu == [i \in S |-> i]
           V == [j : -1 .. len, table : [0 .. len -> -1 .. len]]
           step == [ir \in S \X V |-> String!BuildStep(n, len, ir[2], ir[1])]
           P == { ir \in S \X V : Built(n, len, ir[1], ir[2]) }
           Body(f) == [i \in 0 .. len |-> IF i = 0 THEN first
                                           ELSE String!BuildStep(n, len, f[i - 1], i)]
           f0 == CHOOSE f : f = Body(f)
<1>1. Descends(S, G, down, mu)
  BY DEF Descends
<1>2. Built(n, len, 0, first) /\ first \in V
  <2>1. first.j = -1 /\ first.table = [k \in 0 .. len |-> -1] /\ first = [j |-> first.j, table |-> first.table]
    OBVIOUS
  <2>2. [k \in 0 .. len |-> -1] \in Tables(len)
    BY DEF Tables
  <2>3. Entry(n, [k \in 0 .. len |-> -1], 0)
    BY DEF Entry
  <2>4. first \in V
    OBVIOUS
  <2> HIDE DEF first
  <2> QED BY <2>1, <2>2, <2>3, <2>4 DEF Built
<1>3. ASSUME NEW i \in S, NEW r, Built(n, len, i, r) PROVE r \in V
  <2>1. r.j \in -1 .. len /\ r.table \in [0 .. len -> -1 .. len]
    BY <1>3 DEF Built, Tables
  <2>2. r = [j |-> r.j, table |-> r.table]
    BY <1>3 DEF Built
  <2> QED BY <2>1, <2>2
<1>4. ASSUME NEW i \in S, i # 0, NEW r, r \in V, Built(n, len, i - 1, r)
      PROVE  /\ step[<<i, r>>] = String!BuildStep(n, len, r, i)
             /\ <<i, String!BuildStep(n, len, r, i)>> \in P
  <2>1. step[<<i, r>>] = String!BuildStep(n, len, r, i)
    BY <1>4
  <2>2. i \in 1 .. len
    BY <1>4
  <2> DEFINE x == String!BuildStep(n, len, r, i)
  <2>3. Built(n, len, i, x)
    BY <1>4, <2>2, StepBuilds
  <2> HIDE DEF x
  <2>4. x \in V
    <3> HIDE DEF V
    <3> QED BY <1>3, <2>3
  <2>5. <<i, x>> \in P
    <3> HIDE DEF V
    <3> QED BY <2>3, <2>4
  <2> QED BY <2>1, <2>5 DEF x
<1>5. Preserved(P, S, G, down, val, step)
  <2>1. ASSUME NEW x \in S, x \in G PROVE <<x, val[x]>> \in P
    <3>1. x = 0 /\ val[x] = first /\ 0 \in S
      BY <2>1
    <3> HIDE DEF first, V, val
    <3> QED BY <1>2, <3>1
  <2>2. ASSUME NEW x \in S, x \notin G, NEW r, <<down[x], r>> \in P
        PROVE <<x, step[<<x, r>>]>> \in P
    <3>1. x # 0 /\ down[x] = x - 1
      BY <2>2
    <3> HIDE DEF V, step, down
    <3>2. r \in V /\ Built(n, len, x - 1, r)
      BY <2>2, <3>1
    <3> HIDE DEF P
    <3> QED BY <1>4, <3>1, <3>2
  <2> HIDE DEF P, step, val, S, G, down
  <2> QED BY <2>1, <2>2 DEF Preserved
<1>6. PICK f : f = [i \in S |-> f[i]] /\ Recurs(f, S, G, down, val, step)
  <2> HIDE DEF P, step, val, S, G, down, mu
  <2> QED BY <1>1, <1>5, RecursDefined
<1>7. \A i \in S : <<i, f[i]>> \in P
  <2> HIDE DEF P, step, val, S, G, down, mu
  <2> QED BY <1>1, <1>5, <1>6, RecursKeeps
<1>8. ASSUME NEW i \in S PROVE f[i] = IF i = 0 THEN first ELSE String!BuildStep(n, len, f[i - 1], i)
  <2>1. f[i] = IF i \in G THEN val[i] ELSE step[<<i, f[down[i]]>>]
    BY <1>6 DEF Recurs
  <2>2. CASE i = 0
    <3> HIDE DEF first
    <3> QED BY <2>1, <2>2
  <2>3. CASE i # 0
    <3>1. f[i] = step[<<i, f[i - 1]>>] /\ i - 1 \in S
      BY <2>1, <2>3
    <3> HIDE DEF V, step, down
    <3>2. f[i - 1] \in V /\ Built(n, len, i - 1, f[i - 1])
      BY <1>7, <3>1
    <3> HIDE DEF P
    <3> QED BY <1>4, <2>3, <3>1, <3>2
  <2> QED BY <2>2, <2>3
<1>9. f = Body(f)
  <2> HIDE DEF first
  <2> QED BY <1>6, <1>8
<1>10. f0 = Body(f0)
  <2> HIDE DEF Body
  <2> QED BY <1>9
<1>11. String!_utstring_BuildTable(n, len) = f0[len].table
  BY DEF String!_utstring_BuildTable
<1> HIDE DEF f0, first
<1>12. f0[0] = first /\ \A i \in 1 .. len : f0[i] = String!BuildStep(n, len, f0[i - 1], i)
  BY <1>10
<1> DEFINE Q == { k \in Nat : k <= len => Built(n, len, k, f0[k]) }
<1>13. 0 \in Q
  BY <1>2, <1>12
<1>14. ASSUME NEW k \in Nat, k \in Q PROVE k + 1 \in Q
  <2>1. ASSUME k + 1 <= len PROVE Built(n, len, k + 1, f0[k + 1])
    <3> DEFINE i == k + 1
    <3>1. i \in 1 .. len /\ f0[i] = String!BuildStep(n, len, f0[i - 1], i) /\ i - 1 = k
      BY <1>12, <2>1
    <3>2. Built(n, len, i - 1, f0[i - 1])
      BY <1>14, <2>1, <3>1
    <3> HIDE DEF i
    <3>3. Built(n, len, i, f0[i])
      BY <3>1, <3>2, StepBuilds
    <3> QED BY <3>3 DEF i
  <2> QED BY <2>1
<1>15. \A k \in Nat : k \in Q
  <2> HIDE DEF Q
  <2> QED BY <1>13, <1>14, Induction
<1>16. \A i \in 0 .. len : Built(n, len, i, f0[i])
  BY <1>15
<1> QED BY <1>11, <1>12, <1>16 DEF Turns, first

LEMMA BuildTable ==
  ASSUME NEW n, NEW len \in Nat
  PROVE  LET T == String!_utstring_BuildTable(n, len)
         IN  T \in Tables(len) /\ \A k \in 0 .. len : k < len => Entry(n, T, k)
<1>1. PICK b : Turns(n, len, b) /\ String!_utstring_BuildTable(n, len) = b[len].table
  BY BuildTableTurns
<1>2. Built(n, len, len, b[len])
  BY <1>1 DEF Turns
<1> QED BY <1>1, <1>2 DEF Built

-----------------------------------------------------------------------------
(* Searching from left to right *)

\* n is at o in hay; and r is the first place where it is.
Occurs(hay, n, len, o) == \A m \in 0 .. len - 1 : hay[o + m] = n[m]
First(hay, hayLen, n, len, r) ==
  /\ r = -1 \/ (r \in 0 .. hayLen - len /\ Occurs(hay, n, len, r))
  /\ \A o \in 0 .. hayLen - len : Occurs(hay, n, len, o) => r # -1 /\ r <= o

\* With i characters of n matched before j: they are there, and n is nowhere
\* before them.
Seen(hay, hayLen, n, len, i, j) ==
  /\ i <= j
  /\ \A m \in 0 .. i - 1 : hay[j - i + m] = n[m]
  /\ \A o \in 0 .. hayLen - len : Occurs(hay, n, len, o) => j - i <= o

LEMMA SeenOneMore ==
  ASSUME NEW n, NEW len \in Nat, NEW hay, NEW hayLen \in Nat,
         NEW i \in 0 .. len - 1, NEW j \in 0 .. hayLen - 1, NEW f \in -1 .. i,
         Seen(hay, hayLen, n, len, i, j), LongestTo(n, hay[j], i, f)
  PROVE  Seen(hay, hayLen, n, len, f + 1, j + 1)
<1>0. i <= j /\ i \in Nat /\ j \in Nat
  BY DEF Seen
<1>1. ASSUME NEW m \in 0 .. f PROVE hay[j - f + m] = n[m]
  <2>1. CASE m = f
    BY <1>1, <2>1 DEF LongestTo
  <2>2. CASE m # f
    <3> DEFINE q == i - f + m
    <3>1. q \in 0 .. i - 1 /\ j - i + q = j - f + m /\ m \in 0 .. f - 1 /\ f >= 0
      BY <1>0, <2>2
    <3>2. n[m] = n[q]
      BY <3>1 DEF LongestTo, Match
    <3> HIDE DEF q
    <3>3. hay[j - i + q] = n[q]
      BY <3>1 DEF Seen
    <3> QED BY <3>1, <3>2, <3>3
  <2> QED BY <2>1, <2>2
<1>2. ASSUME NEW o \in 0 .. hayLen - len, Occurs(hay, n, len, o), o < j - f PROVE FALSE
  <2> DEFINE b == j - o
  <2>1. j - i <= o
    BY <1>2 DEF Seen
  <2>2. b \in 0 .. i /\ b > f /\ o + b = j /\ b \in 0 .. len - 1
    BY <1>0, <1>2, <2>1
  <2>3. n[b] = hay[j]
    <3> HIDE DEF b
    <3>1. hay[o + b] = n[b]
      BY <1>2, <2>2 DEF Occurs
    <3> QED BY <2>2, <3>1
  <2>4. ASSUME NEW m \in 0 .. b - 1 PROVE n[m] = n[i - b + m]
    <3> DEFINE q == i - b + m
    <3>1. q \in 0 .. i - 1 /\ j - i + q = o + m /\ m \in 0 .. len - 1
      BY <1>0, <2>2, <2>4
    <3> HIDE DEF q
    <3>2. hay[j - i + q] = n[q]
      BY <3>1 DEF Seen
    <3>3. hay[o + m] = n[m]
      BY <1>2, <3>1 DEF Occurs
    <3>4. n[q] = n[m]
      BY <3>1, <3>2, <3>3
    <3> QED BY <3>4 DEF q
  <2> HIDE DEF b
  <2>5. Match(n, b, i)
    BY <2>4 DEF Match
  <2>6. b <= f
    BY <2>2, <2>3, <2>5 DEF LongestTo
  <2> QED BY <2>2, <2>6
<1>3. f + 1 <= j + 1 /\ (j + 1) - (f + 1) = j - f /\ (f + 1) - 1 = f
  BY <1>0
<1>4. \A m \in 0 .. (f + 1) - 1 : hay[(j + 1) - (f + 1) + m] = n[m]
  BY <1>1, <1>3
<1>5. \A o \in 0 .. hayLen - len : Occurs(hay, n, len, o) => (j + 1) - (f + 1) <= o
  BY <1>0, <1>2, <1>3
<1> QED BY <1>3, <1>4, <1>5 DEF Seen

LEMMA SearchFindsFirst ==
  ASSUME NEW n, NEW len \in Nat \ {0}, NEW hay, NEW hayLen \in Nat, NEW T \in Tables(len),
         \A k \in 0 .. len : k < len => Entry(n, T, k)
  PROVE  First(hay, hayLen, n, len, String!_utstring_find(hay, hayLen, n, len, T))
<1> DEFINE S == (0 .. len) \X (0 .. hayLen)
           fall(i, j) == String!Fallback(n, len, T, hay[j], i)
           goes(i, j) == i < len /\ j < hayLen /\ hayLen - j + i >= len
           G == { x \in S : ~ goes(x[1], x[2]) }
           val == [x \in S |-> IF x[1] >= len THEN x[2] - x[1] ELSE -1]
           down == [x \in S |-> <<fall(x[1], x[2]) + 1, x[2] + 1>>]
           mu == [x \in S |-> hayLen - x[2]]
           P == { xr \in S \X Int :
                    Seen(hay, hayLen, n, len, xr[1][1], xr[1][2])
                      => First(hay, hayLen, n, len, xr[2]) }
           Body(f) == [ij \in (0 .. len) \X (0 .. hayLen) |->
                         LET i == ij[1]
                             j == ij[2]
                         IN  IF i >= len THEN j - i
                             ELSE IF j < hayLen /\ hayLen - j + i >= len
                             THEN f[<<String!Fallback(n, len, T, hay[j], i) + 1, j + 1>>]
                             ELSE -1]
           f0 == CHOOSE f : f = Body(f)
<1>1. ASSUME NEW i \in 0 .. len, i < len, NEW c
      PROVE  /\ String!Fallback(n, len, T, c, i) \in -1 .. i
             /\ LongestTo(n, c, i, String!Fallback(n, len, T, c, i))
  <2>1. i \in -1 .. len /\ \A k \in 0 .. i : Entry(n, T, k)
    BY <1>1
  <2>2. LongestTo(n, c, i, String!Fallback(n, len, T, c, i))
    BY <2>1, FallbackLongest
  <2> QED BY <2>2 DEF LongestTo
<1>2. Descends(S, G, down, mu)
  <2>1. ASSUME NEW x \in S, x \notin G
        PROVE  down[x] \in S /\ mu[down[x]] < mu[x]
    <3> DEFINE i == x[1]
               j == x[2]
    <3>1. i \in 0 .. len /\ j \in 0 .. hayLen /\ i < len /\ j < hayLen
      BY <2>1
    <3>2. fall(i, j) \in -1 .. i
      <4> HIDE DEF i, j
      <4> QED BY <1>1, <3>1
    <3>3. down[x] = <<fall(i, j) + 1, j + 1>> /\ mu[x] = hayLen - j
      OBVIOUS
    <3> HIDE DEF i, j, fall, down
    <3>4. ASSUME NEW g \in 0 .. len, NEW h \in 0 .. hayLen
          PROVE  <<g, h>> \in S /\ mu[<<g, h>>] = hayLen - h
      OBVIOUS
    <3>5. fall(i, j) + 1 \in 0 .. len /\ j + 1 \in 0 .. hayLen
      BY <3>1, <3>2
    <3> HIDE DEF S, mu
    <3>6. down[x] \in S /\ mu[down[x]] = hayLen - (j + 1)
      BY <3>3, <3>4, <3>5
    <3> QED BY <3>1, <3>3, <3>6
  <2>2. \A x \in S : mu[x] \in Nat
    OBVIOUS
  <2> HIDE DEF S, G, down, mu
  <2> QED BY <2>1, <2>2 DEF Descends
<1>3. PICK f : f = [x \in S |-> f[x]] /\ Loops(f, S, G, down, val)
  <2> HIDE DEF S, G, down, val, mu
  <2> QED BY <1>2, LoopsDefined
<1>4. f = Body(f)
  <2>1. \A x \in S : f[x] = IF x[1] >= len THEN x[2] - x[1]
                             ELSE IF x[2] < hayLen /\ hayLen - x[2] + x[1] >= len
                             THEN f[<<fall(x[1], x[2]) + 1, x[2] + 1>>] ELSE -1
    BY <1>3 DEF Loops
  <2> QED BY <1>3, <2>1
<1>5. f0 = Body(f0)
  <2> HIDE DEF Body
  <2> QED BY <1>4
<1>6. String!_utstring_find(hay, hayLen, n, len, T) = f0[<<0, 0>>]
  BY DEF String!_utstring_find
<1> HIDE DEF f0
<1>7. DOMAIN f0 = S /\ \A x \in S : f0[x] = IF x \in G THEN val[x] ELSE f0[down[x]]
  <2>1. DOMAIN f0 = S
    BY <1>5
  <2>2. \A x \in S : f0[x] = IF x[1] >= len THEN x[2] - x[1]
                             ELSE IF x[2] < hayLen /\ hayLen - x[2] + x[1] >= len
                             THEN f0[<<fall(x[1], x[2]) + 1, x[2] + 1>>] ELSE -1
    BY <1>5
  <2>3. \A x \in S : x[1] \in 0 .. len
    OBVIOUS
  <2> QED BY <2>1, <2>2, <2>3
<1>8. Loops(f0, S, G, down, val)
  BY <1>7 DEF Loops
<1>9. ASSUME NEW x \in S, x \in G PROVE <<x, val[x]>> \in P
  <2> DEFINE i == x[1]
             j == x[2]
  <2>1. i \in 0 .. len /\ j \in 0 .. hayLen /\ ~ goes(i, j) /\ val[x] = IF i >= len THEN j - i ELSE -1
    BY <1>9
  <2>2. val[x] \in Int
    BY <2>1
  <2> DEFINE v == val[x]
  <2> HIDE DEF i, j, v
  <2>3. ASSUME Seen(hay, hayLen, n, len, i, j) PROVE First(hay, hayLen, n, len, v)
    <3>1. CASE i = len
      <4>1. v = j - i /\ v \in 0 .. hayLen - len
        BY <2>1, <2>3, <3>1 DEF v, Seen
      <4>2. Occurs(hay, n, len, v)
        BY <2>3, <3>1, <4>1 DEF Seen, Occurs
      <4>3. \A o \in 0 .. hayLen - len : Occurs(hay, n, len, o) => v <= o
        BY <2>3, <4>1 DEF Seen
      <4> QED BY <4>1, <4>2, <4>3 DEF First
    <3>2. CASE i # len
      <4>1. v = -1 /\ j - i > hayLen - len
        BY <2>1, <3>2 DEF v
      <4>2. \A o \in 0 .. hayLen - len : ~ Occurs(hay, n, len, o)
        BY <2>1, <2>3, <4>1 DEF Seen
      <4> QED BY <4>1, <4>2 DEF First
    <3> QED BY <3>1, <3>2
  <2> QED BY <2>2, <2>3 DEF i, j, v
<1>10. ASSUME NEW x \in S, NEW r, x \notin G, <<down[x], r>> \in P PROVE <<x, r>> \in P
  <2> DEFINE i == x[1]
             j == x[2]
             g == fall(i, j)
             i2 == g + 1
             j2 == j + 1
  <2>1. i \in 0 .. len /\ j \in 0 .. hayLen /\ i < len /\ j < hayLen /\ down[x] = <<i2, j2>>
    BY <1>10
  <2>2. /\ r \in Int
        /\ Seen(hay, hayLen, n, len, i2, j2) => First(hay, hayLen, n, len, r)
    <3> HIDE DEF down, i2, j2
    <3> QED BY <1>10, <2>1
  <2>3. g \in -1 .. i /\ LongestTo(n, hay[j], i, g)
    <3> HIDE DEF i, j
    <3> QED BY <1>1, <2>1
  <2>4. ASSUME Seen(hay, hayLen, n, len, i, j) PROVE First(hay, hayLen, n, len, r)
    <3> HIDE DEF i, j, g
    <3>1. i \in 0 .. len - 1 /\ j \in 0 .. hayLen - 1
      BY <2>1
    <3>2. Seen(hay, hayLen, n, len, g + 1, j + 1)
      BY <2>3, <2>4, <3>1, SeenOneMore
    <3> QED BY <2>2, <3>2
  <2> QED BY <2>2, <2>4
<1>11. \A x \in S : <<x, f0[x]>> \in P
  <2> HIDE DEF S, G, down, val, mu, P
  <2> QED BY <1>2, <1>8, <1>9, <1>10, LoopsKeep
<1>12. <<0, 0>> \in S
  OBVIOUS
<1>13. Seen(hay, hayLen, n, len, 0, 0)
  BY DEF Seen
<1> QED
  <2> DEFINE z == f0[<<0, 0>>]
  <2>1. <<<<0, 0>>, z>> \in P
    <3> HIDE DEF P, S
    <3> QED BY <1>11, <1>12
  <2> HIDE DEF z
  <2>2. First(hay, hayLen, n, len, z)
    BY <1>13, <2>1
  <2> QED BY <1>6, <2>2 DEF z

-----------------------------------------------------------------------------
(* From right to left it is the same, in a mirror *)

Mirror(f, len) == [k \in -1 .. len |-> f[len - 1 - k]]
MirrorTable(len, T) == [p \in 0 .. len |-> len - 1 - T[len - p]]
MirrorTurn(len, acc) == [j |-> len - 1 - acc.j, table |-> MirrorTable(len, acc.table)]

LEMMA FallbackMirror ==
  ASSUME NEW n, NEW len \in Nat, NEW T \in Tables(len), NEW c, NEW i \in -1 .. len
  PROVE  String!FallbackR(n, len, MirrorTable(len, T), c, len - 1 - i)
           = len - 1 - String!Fallback(Mirror(n, len), len, T, c, i)
<1> DEFINE S == -1 .. len
           TR == MirrorTable(len, T)
           nr == Mirror(n, len)
           G == { k \in S : k = len \/ n[k] = c }
           id == [k \in S |-> k]
           down == [k \in S |-> TR[k + 1]]
           mu == [k \in S |-> len - k]
           fall(q) == String!Fallback(nr, len, T, c, q)
           P == { kr \in S \X Int : kr[2] = len - 1 - fall(len - 1 - kr[1]) }
           Body(f) == [k \in -1 .. len |-> IF k = len \/ n[k] = c THEN k ELSE f[TR[k + 1]]]
           f0 == CHOOSE f : f = Body(f)
<1>1. \A k \in S : /\ nr[len - 1 - k] = n[k]
                   /\ k # len => /\ down[k] \in S /\ down[k] > k /\ down[k] = TR[k + 1]
                                 /\ down[k] = len - 1 - T[len - 1 - k]
  <2> SUFFICES ASSUME NEW k \in S
               PROVE  /\ nr[len - 1 - k] = n[k]
                      /\ k # len => /\ down[k] \in S /\ down[k] > k /\ down[k] = TR[k + 1]
                                    /\ down[k] = len - 1 - T[len - 1 - k]
    OBVIOUS
  <2> DEFINE q == len - 1 - k
  <2>1. q \in -1 .. len /\ len - 1 - q = k /\ len - (k + 1) = q
    OBVIOUS
  <2>2. nr[q] = n[k]
    <3>1. nr[q] = n[len - 1 - q]
      <4> HIDE DEF q
      <4> QED BY <2>1 DEF Mirror
    <3> QED BY <2>1, <3>1
  <2>3. ASSUME k # len
        PROVE  down[k] \in S /\ down[k] > k /\ down[k] = TR[k + 1] /\ down[k] = len - 1 - T[q]
    <3>1. q \in 0 .. len /\ k + 1 \in 0 .. len /\ down[k] = TR[k + 1]
      BY <2>3
    <3>2. TR[k + 1] = len - 1 - T[q]
      <4> HIDE DEF q
      <4> QED BY <2>1, <3>1 DEF MirrorTable
    <3>3. T[q] \in -1 .. len /\ T[q] < q
      <4> HIDE DEF q
      <4> QED BY <3>1 DEF Tables
    <3> HIDE DEF TR, down
    <3> QED BY <3>1, <3>2, <3>3
  <2> QED BY <2>2, <2>3
<1>2. Descends(S, G, down, mu)
  <2>1. \A x \in S : x \notin G => x # len
    OBVIOUS
  <2>2. \A x \in S : mu[x] = len - x
    OBVIOUS
  <2> HIDE DEF G, down, mu
  <2> QED BY <1>1, <2>1, <2>2 DEF Descends
<1>3. PICK f : f = [x \in S |-> f[x]] /\ Loops(f, S, G, down, id)
  <2> HIDE DEF S, G, id, mu, down
  <2> QED BY <1>2, LoopsDefined
<1>4. f = Body(f)
  <2> HIDE DEF TR
  <2> QED BY <1>3 DEF Loops
<1>5. f0 = Body(f0)
  <2> HIDE DEF Body
  <2> QED BY <1>4
<1>6. \A k \in S : String!FallbackR(n, len, TR, c, k) = f0[k]
  BY DEF String!FallbackR
<1> HIDE DEF f0, TR
<1>7. DOMAIN f0 = S /\ \A x \in S : f0[x] = IF x = len \/ n[x] = c THEN x ELSE f0[TR[x + 1]]
  BY <1>5
<1>8. Loops(f0, S, G, down, id)
  BY <1>7 DEF Loops
<1> HIDE DEF nr, f0, down
<1>9. \A q \in S : fall(q) = IF q = -1 \/ nr[q] = c THEN q ELSE fall(T[q])
  BY FallbackKeeps
<1> HIDE DEF fall
<1>10. ASSUME NEW x \in S, x \in G PROVE <<x, id[x]>> \in P
  <2> DEFINE q == len - 1 - x
  <2>1. q \in S /\ nr[q] = n[x] /\ (q = -1 \/ nr[q] = c)
    BY <1>1, <1>10
  <2>2. fall(q) = q
    <3> HIDE DEF q
    <3> QED BY <1>9, <2>1
  <2>3. x = len - 1 - fall(q) /\ id[x] = x
    BY <2>2
  <2> QED BY <2>3
<1>11. ASSUME NEW x \in S, NEW r, x \notin G, <<down[x], r>> \in P PROVE <<x, r>> \in P
  <2> DEFINE q == len - 1 - x
             d == down[x]
  <2>1. q \in S /\ nr[q] = n[x] /\ x # len /\ q # -1 /\ n[x] # c
    BY <1>1, <1>11
  <2>2. d = len - 1 - T[q] /\ T[q] \in S
    BY <1>1, <2>1 DEF Tables
  <2>3. r \in Int /\ r = len - 1 - fall(len - 1 - d)
    BY <1>11
  <2>4. len - 1 - d = T[q]
    BY <2>2
  <2>5. fall(q) = fall(T[q])
    <3> HIDE DEF q
    <3> QED BY <1>9, <2>1
  <2> QED BY <2>3, <2>4, <2>5
<1>12. \A x \in S : <<x, f0[x]>> \in P
  <2> HIDE DEF S, G, id, mu, P
  <2> QED BY <1>2, <1>8, <1>10, <1>11, LoopsKeep
<1> DEFINE k0 == len - 1 - i
<1>13. k0 \in S /\ len - 1 - k0 = i
  OBVIOUS
<1>14. f0[k0] = len - 1 - fall(len - 1 - k0)
  <2> HIDE DEF k0
  <2> QED BY <1>12, <1>13
<1> QED BY <1>6, <1>13, <1>14 DEF fall, TR, nr

LEMMA MirrorOf ==
  ASSUME NEW n, NEW len \in Nat, NEW k \in -1 .. len
  PROVE  Mirror(n, len)[k] = n[len - 1 - k]
BY DEF Mirror

LEMMA StepMirror ==
  ASSUME NEW n, NEW len \in Nat, NEW i \in 1 .. len, NEW acc, Built(Mirror(n, len), len, i - 1, acc)
  PROVE  String!BuildStepR(n, len, MirrorTurn(len, acc), len - 1 - i)
           = MirrorTurn(len, String!BuildStep(Mirror(n, len), len, acc, i))
<1> DEFINE nr == Mirror(n, len)
           T == acc.table
           TR == MirrorTable(len, T)
           f == String!Fallback(nr, len, T, nr[i - 1], acc.j)
           j2 == f + 1
           skip == i < len /\ nr[i] = nr[j2]
           T2 == [T EXCEPT ![i] = IF skip THEN T[j2] ELSE j2]
           ir == len - 1 - i
           mt == MirrorTurn(len, acc)
           jr == String!FallbackR(n, len, mt.table, n[ir + 1], mt.j) - 1
           skipR == ir >= 0 /\ n[ir] = n[jr]
           TR2 == [mt.table EXCEPT ![ir + 1] = IF skipR THEN mt.table[jr + 1] ELSE jr]
<1>1. acc.j \in -1 .. i - 2 /\ T \in Tables(len) /\ \A k \in 0 .. i - 1 : k < len => Entry(nr, T, k)
  BY DEF Built
<1>2. mt.table = TR /\ mt.j = len - 1 - acc.j
  BY DEF MirrorTurn
<1>3. n[ir + 1] = nr[i - 1] /\ n[ir] = nr[i]
  <2>1. i - 1 \in -1 .. len /\ i \in -1 .. len /\ ir + 1 = len - 1 - (i - 1)
    OBVIOUS
  <2>2. nr[i - 1] = n[len - 1 - (i - 1)] /\ nr[i] = n[ir]
    BY <2>1, MirrorOf
  <2> HIDE DEF ir
  <2> QED BY <2>1, <2>2
<1>4. LongestTo(nr, nr[i - 1], acc.j, f)
  <2> HIDE DEF nr
  <2> QED BY <1>1, FallbackLongest
<1>5. f \in -1 .. acc.j /\ j2 \in 0 .. i - 1 /\ j2 \in -1 .. len
  <2> HIDE DEF f
  <2> QED BY <1>1, <1>4 DEF LongestTo
<1>6. jr = len - 1 - j2
  <2>1. String!FallbackR(n, len, TR, nr[i - 1], len - 1 - acc.j) = len - 1 - f
    <3>1. acc.j \in -1 .. len
      BY <1>1
    <3> QED BY <1>1, <3>1, FallbackMirror
  <2> HIDE DEF f, TR, mt, ir, nr
  <2> QED BY <1>2, <1>3, <1>5, <2>1
<1> HIDE DEF f
<1>7. n[jr] = nr[j2]
  <2> HIDE DEF j2
  <2> QED BY <1>5, <1>6, MirrorOf
<1> HIDE DEF j2, nr, jr
<1>8. skipR <=> skip
  BY <1>3, <1>7
<1>9. TR2 = MirrorTable(len, T2)
  <2>1. TR = [p \in 0 .. len |-> len - 1 - T[len - p]]
    BY DEF MirrorTable
  <2>2. jr + 1 \in 0 .. len /\ len - (jr + 1) = j2
    BY <1>5, <1>6
  <2>3. TR[jr + 1] = len - 1 - T[j2]
    <3> HIDE DEF TR
    <3> QED BY <2>1, <2>2
  <2> DEFINE v == IF skip THEN T[j2] ELSE j2
             vr == IF skipR THEN TR[jr + 1] ELSE jr
  <2>4. vr = len - 1 - v
    BY <1>6, <1>8, <2>3
  <2> HIDE DEF v, vr, skip, skipR
  <2>5. \A q \in 0 .. len : [T EXCEPT ![i] = v][q] = IF q = i THEN v ELSE T[q]
    BY <1>1 DEF Tables
  <2>6. \A p \in 0 .. len : (p = ir + 1) <=> (len - p = i)
    OBVIOUS
  <2> HIDE DEF ir
  <2>7. [TR EXCEPT ![ir + 1] = vr] = [p \in 0 .. len |-> IF p = ir + 1 THEN vr ELSE len - 1 - T[len - p]]
    BY <2>1
  <2>8. \A p \in 0 .. len : len - 1 - [T EXCEPT ![i] = v][len - p]
                              = IF p = ir + 1 THEN vr ELSE len - 1 - T[len - p]
    <3> SUFFICES ASSUME NEW p \in 0 .. len
                 PROVE  len - 1 - [T EXCEPT ![i] = v][len - p]
                          = IF p = ir + 1 THEN vr ELSE len - 1 - T[len - p]
      OBVIOUS
    <3>1. len - p \in 0 .. len
      OBVIOUS
    <3> QED BY <2>4, <2>5, <2>6, <3>1
  <2>9. [TR EXCEPT ![ir + 1] = vr] = MirrorTable(len, [T EXCEPT ![i] = v])
    BY <2>7, <2>8 DEF MirrorTable
  <2> HIDE DEF TR, mt
  <2> QED BY <1>2, <2>9 DEF v, vr
<1>10. String!BuildStepR(n, len, mt, ir) = [j |-> jr, table |-> TR2]
  BY DEF String!BuildStepR, jr
<1>11. String!BuildStep(nr, len, acc, i) = [j |-> j2, table |-> T2]
  BY DEF String!BuildStep, f, j2
<1> HIDE DEF TR2, T2, mt, ir
<1>12. MirrorTurn(len, [j |-> j2, table |-> T2]) = [j |-> jr, table |-> TR2]
  BY <1>6, <1>9 DEF MirrorTurn
<1> QED BY <1>10, <1>11, <1>12 DEF mt, ir, nr

LEMMA BuildTableMirror ==
  ASSUME NEW n, NEW len \in Nat
  PROVE  String!_utstring_BuildTableR(n, len)
           = MirrorTable(len, String!_utstring_BuildTable(Mirror(n, len), len))
<1> DEFINE nr == Mirror(n, len)
           firstR == [j |-> len, table |-> [m \in 0 .. len |-> len]]
           Body(f) == [k \in 0 .. len |-> IF k = 0 THEN firstR
                                           ELSE String!BuildStepR(n, len, f[k - 1], len - 1 - k)]
           g == CHOOSE f : f = Body(f)
<1>1. PICK b : Turns(nr, len, b) /\ String!_utstring_BuildTable(nr, len) = b[len].table
  BY BuildTableTurns
<1> HIDE DEF nr
<1> DEFINE f == [k \in 0 .. len |-> MirrorTurn(len, b[k])]
<1>2. MirrorTurn(len, b[0]) = firstR
  <2>1. b[0].j = -1 /\ b[0].table = [k \in 0 .. len |-> -1]
    BY <1>1 DEF Turns
  <2>2. MirrorTable(len, [k \in 0 .. len |-> -1]) = [m \in 0 .. len |-> len]
    BY DEF MirrorTable
  <2>3. len - 1 - (-1) = len
    OBVIOUS
  <2> QED BY <2>1, <2>2, <2>3 DEF MirrorTurn
<1>3. ASSUME NEW k \in 1 .. len
      PROVE  MirrorTurn(len, b[k]) = String!BuildStepR(n, len, MirrorTurn(len, b[k - 1]), len - 1 - k)
  <2>1. Built(nr, len, k - 1, b[k - 1]) /\ b[k] = String!BuildStep(nr, len, b[k - 1], k)
    BY <1>1 DEF Turns
  <2> QED BY <2>1, StepMirror DEF nr
<1>4. f = Body(f)
  <2>1. ASSUME NEW k \in 0 .. len
        PROVE  f[k] = IF k = 0 THEN firstR ELSE String!BuildStepR(n, len, f[k - 1], len - 1 - k)
    <3>1. f[k] = MirrorTurn(len, b[k])
      OBVIOUS
    <3>2. CASE k = 0
      BY <1>2, <3>1, <3>2
    <3>3. CASE k # 0
      <4>1. k \in 1 .. len /\ k - 1 \in 0 .. len
        BY <3>3
      <4>2. f[k - 1] = MirrorTurn(len, b[k - 1])
        BY <4>1
      <4> HIDE DEF f
      <4> QED BY <1>3, <3>1, <3>3, <4>1, <4>2
    <3> QED BY <3>2, <3>3
  <2> HIDE DEF firstR
  <2> QED BY <2>1
<1>5. g = Body(g)
  <2> HIDE DEF Body, f
  <2> QED BY <1>4
<1>6. String!_utstring_BuildTableR(n, len) = g[len].table
  BY DEF String!_utstring_BuildTableR
<1> HIDE DEF g, firstR, f
<1>7. /\ g[0] = firstR
      /\ \A k \in 1 .. len : g[k] = String!BuildStepR(n, len, g[k - 1], len - 1 - k)
  BY <1>5
<1> DEFINE Q == { k \in Nat : k <= len => g[k] = MirrorTurn(len, b[k]) }
<1>8. 0 \in Q
  BY <1>2, <1>7
<1>9. ASSUME NEW k \in Nat, k \in Q PROVE k + 1 \in Q
  <2>1. ASSUME k + 1 <= len PROVE g[k + 1] = MirrorTurn(len, b[k + 1])
    <3> DEFINE i == k + 1
    <3>1. i \in 1 .. len /\ i - 1 = k /\ g[i - 1] = MirrorTurn(len, b[i - 1])
      BY <1>9, <2>1
    <3> HIDE DEF i
    <3>2. g[i] = MirrorTurn(len, b[i])
      BY <1>3, <1>7, <3>1
    <3> QED BY <3>2 DEF i
  <2> QED BY <2>1
<1>10. \A k \in Nat : k \in Q
  <2> HIDE DEF Q
  <2> QED BY <1>8, <1>9, Induction
<1>11. g[len] = MirrorTurn(len, b[len])
  BY <1>10
<1> QED BY <1>1, <1>6, <1>11 DEF MirrorTurn, nr

\* The last place where n is in hay.
Last(hay, hayLen, n, len, r) ==
  /\ r = -1 \/ (r \in 0 .. hayLen - len /\ Occurs(hay, n, len, r))
  /\ \A o \in 0 .. hayLen - len : Occurs(hay, n, len, o) => r # -1 /\ r >= o

LEMMA OccursMirror ==
  ASSUME NEW n, NEW len \in Nat, NEW hay, NEW hayLen \in Nat, NEW o \in 0 .. hayLen - len
  PROVE  Occurs(Mirror(hay, hayLen), Mirror(n, len), len, hayLen - len - o) <=> Occurs(hay, n, len, o)
<1> DEFINE nr == Mirror(n, len)
           hr == Mirror(hay, hayLen)
           q == hayLen - len - o
<1>1. ASSUME NEW m \in 0 .. len - 1
      PROVE  nr[m] = n[len - 1 - m] /\ hr[q + m] = hay[o + (len - 1 - m)]
  <2>1. m \in -1 .. len /\ q + m \in -1 .. hayLen /\ hayLen - 1 - (q + m) = o + (len - 1 - m)
    OBVIOUS
  <2> HIDE DEF q
  <2>2. nr[m] = n[len - 1 - m] /\ hr[q + m] = hay[hayLen - 1 - (q + m)]
    BY <2>1, MirrorOf
  <2> QED BY <2>1, <2>2
<1> HIDE DEF nr, hr, q
<1>2. ASSUME Occurs(hay, n, len, o), NEW m \in 0 .. len - 1 PROVE hr[q + m] = nr[m]
  <2>1. len - 1 - m \in 0 .. len - 1
    OBVIOUS
  <2> QED BY <1>1, <1>2, <2>1 DEF Occurs
<1>3. ASSUME Occurs(hr, nr, len, q), NEW m \in 0 .. len - 1 PROVE hay[o + m] = n[m]
  <2> DEFINE p == len - 1 - m
  <2>1. p \in 0 .. len - 1 /\ len - 1 - p = m
    OBVIOUS
  <2> HIDE DEF p
  <2>2. nr[p] = n[m] /\ hr[q + p] = hay[o + m]
    BY <1>1, <2>1
  <2> QED BY <1>3, <2>1, <2>2 DEF Occurs
<1> QED BY <1>2, <1>3 DEF Occurs, nr, hr, q

LEMMA LastMirror ==
  ASSUME NEW n, NEW len \in Nat, NEW hay, NEW hayLen \in Nat, NEW r \in 0 .. hayLen - len \cup {-1},
         First(Mirror(hay, hayLen), hayLen, Mirror(n, len), len, IF r = -1 THEN -1 ELSE hayLen - len - r)
  PROVE  Last(hay, hayLen, n, len, r)
<1> DEFINE nr == Mirror(n, len)
           hr == Mirror(hay, hayLen)
           d == hayLen - len
           q == IF r = -1 THEN -1 ELSE d - r
<1>1. ASSUME r # -1 PROVE r \in 0 .. d /\ Occurs(hay, n, len, r)
  <2>1. r \in 0 .. d /\ q # -1 /\ q = d - r
    BY <1>1
  <2>2. Occurs(hr, nr, len, q)
    BY <2>1 DEF First
  <2> QED BY <2>1, <2>2, OccursMirror
<1>2. ASSUME NEW o \in 0 .. d, Occurs(hay, n, len, o) PROVE r # -1 /\ r >= o
  <2> DEFINE p == d - o
  <2>1. p \in 0 .. d
    OBVIOUS
  <2>2. Occurs(hr, nr, len, p)
    BY <1>2, OccursMirror
  <2> HIDE DEF nr, hr, p
  <2>3. q # -1 /\ q <= p
    BY <2>1, <2>2 DEF First, nr, hr
  <2> QED BY <2>3 DEF p
<1> QED BY <1>1, <1>2 DEF Last

LEMMA SearchFindsLast ==
  ASSUME NEW n, NEW len \in Nat \ {0}, NEW hay, NEW hayLen \in Nat, NEW T \in Tables(len),
         \A k \in 0 .. len : k < len => Entry(Mirror(n, len), T, k)
  PROVE  Last(hay, hayLen, n, len, String!_utstring_findR(hay, hayLen, n, len, MirrorTable(len, T)))
<1> DEFINE nr == Mirror(n, len)
           hr == Mirror(hay, hayLen)
           TR == MirrorTable(len, T)
           S == (-1 .. len - 1) \X (-1 .. hayLen - 1)
           fall(i, j) == String!FallbackR(n, len, TR, hay[j], i)
           goes(i, j) == i >= 0 /\ j >= 0 /\ j >= i
           G == { x \in S : ~ goes(x[1], x[2]) }
           val == [x \in S |-> IF x[1] < 0 THEN x[2] + 1 ELSE -1]
           down == [x \in S |-> <<fall(x[1], x[2]) - 1, x[2] - 1>>]
           mu == [x \in S |-> x[2] + 1]
           Found(r) == /\ r \in 0 .. hayLen - len \cup {-1}
                       /\ First(hr, hayLen, nr, len, IF r = -1 THEN -1 ELSE hayLen - len - r)
           SeenFrom(i, j) == Seen(hr, hayLen, nr, len, len - 1 - i, hayLen - 1 - j)
           P == { xr \in S \X Int : SeenFrom(xr[1][1], xr[1][2]) => Found(xr[2]) }
           Body(f) == [ij \in (-1 .. len - 1) \X (-1 .. hayLen - 1) |->
                         LET i == ij[1]
                             j == ij[2]
                         IN  IF i < 0 THEN j + 1
                             ELSE IF j >= 0 /\ j >= i
                             THEN f[<<String!FallbackR(n, len, TR, hay[j], i) - 1, j - 1>>]
                             ELSE -1]
           f0 == CHOOSE f : f = Body(f)
<1>1. ASSUME NEW i \in 0 .. len - 1, NEW c
      PROVE  \E g \in -1 .. len - 1 - i : /\ String!FallbackR(n, len, TR, c, i) = len - 1 - g
                                          /\ LongestTo(nr, c, len - 1 - i, g)
  <2> DEFINE q == len - 1 - i
             g == String!Fallback(nr, len, T, c, q)
  <2>1. q \in 0 .. len - 1 /\ q \in -1 .. len /\ len - 1 - q = i /\ \A k \in 0 .. q : Entry(nr, T, k)
    OBVIOUS
  <2> HIDE DEF q, nr
  <2>2. LongestTo(nr, c, q, g)
    BY <2>1, FallbackLongest
  <2>3. String!FallbackR(n, len, TR, c, len - 1 - q) = len - 1 - g
    BY <2>1, FallbackMirror DEF nr
  <2> HIDE DEF g, TR
  <2>4. g \in -1 .. q
    BY <2>2 DEF LongestTo
  <2>5. String!FallbackR(n, len, TR, c, i) = len - 1 - g
    BY <2>1, <2>3
  <2> QED BY <2>2, <2>4, <2>5 DEF q
<1> HIDE DEF TR
<1>2. Descends(S, G, down, mu)
  <2>1. ASSUME NEW x \in S, x \notin G
        PROVE  down[x] \in S /\ mu[down[x]] < mu[x]
    <3> DEFINE i == x[1]
               j == x[2]
    <3>1. i \in 0 .. len - 1 /\ j \in 0 .. hayLen - 1
      BY <2>1
    <3>2. down[x] = <<fall(i, j) - 1, j - 1>> /\ mu[x] = j + 1
      OBVIOUS
    <3> HIDE DEF i, j, down
    <3>3. fall(i, j) \in i .. len
      <4>1. PICK g \in -1 .. len - 1 - i : fall(i, j) = len - 1 - g
        BY <1>1, <3>1
      <4> HIDE DEF fall
      <4> QED BY <3>1, <4>1
    <3> HIDE DEF fall
    <3>4. ASSUME NEW g \in -1 .. len - 1, NEW h \in -1 .. hayLen - 1
          PROVE  <<g, h>> \in S /\ mu[<<g, h>>] = h + 1
      OBVIOUS
    <3>5. fall(i, j) - 1 \in -1 .. len - 1 /\ j - 1 \in -1 .. hayLen - 1
      BY <3>1, <3>3
    <3> HIDE DEF S, mu
    <3>6. down[x] \in S /\ mu[down[x]] = (j - 1) + 1
      BY <3>2, <3>4, <3>5
    <3> QED BY <3>1, <3>2, <3>6
  <2>2. \A x \in S : mu[x] \in Nat
    OBVIOUS
  <2> HIDE DEF S, G, down, mu
  <2> QED BY <2>1, <2>2 DEF Descends
<1>3. PICK f : f = [x \in S |-> f[x]] /\ Loops(f, S, G, down, val)
  <2> HIDE DEF S, G, down, val, mu
  <2> QED BY <1>2, LoopsDefined
<1>4. f = Body(f)
  <2>1. \A x \in S : f[x] = IF x[1] < 0 THEN x[2] + 1
                             ELSE IF x[2] >= 0 /\ x[2] >= x[1]
                             THEN f[<<fall(x[1], x[2]) - 1, x[2] - 1>>] ELSE -1
    <3>1. \A x \in S : f[x] = IF x \in G THEN val[x] ELSE f[down[x]]
      BY <1>3 DEF Loops
    <3>2. \A x \in S : x[1] \in Int /\ x[2] \in Int
      OBVIOUS
    <3> HIDE DEF fall
    <3> QED BY <3>1, <3>2
  <2> QED BY <1>3, <2>1
<1>5. f0 = Body(f0)
  <2> HIDE DEF Body
  <2> QED BY <1>4
<1>6. String!_utstring_findR(hay, hayLen, n, len, TR) = f0[<<len - 1, hayLen - 1>>]
  BY DEF String!_utstring_findR
<1> HIDE DEF f0
<1>7. DOMAIN f0 = S /\ \A x \in S : f0[x] = IF x \in G THEN val[x] ELSE f0[down[x]]
  <2>1. DOMAIN f0 = S
    BY <1>5
  <2>2. \A x \in S : f0[x] = IF x[1] < 0 THEN x[2] + 1
                             ELSE IF x[2] >= 0 /\ x[2] >= x[1]
                             THEN f0[<<fall(x[1], x[2]) - 1, x[2] - 1>>] ELSE -1
    BY <1>5
  <2>3. \A x \in S : x[1] \in Int
    OBVIOUS
  <2> QED BY <2>1, <2>2, <2>3
<1>8. Loops(f0, S, G, down, val)
  BY <1>7 DEF Loops
<1> HIDE DEF nr, hr
<1>9. ASSUME NEW x \in S, x \in G PROVE <<x, val[x]>> \in P
  <2> DEFINE i == x[1]
             j == x[2]
             i2 == len - 1 - i
             j2 == hayLen - 1 - j
  <2>1. i \in -1 .. len - 1 /\ j \in -1 .. hayLen - 1 /\ ~ goes(i, j) /\ val[x] = IF i < 0 THEN j + 1 ELSE -1
    BY <1>9
  <2>2. val[x] \in Int
    BY <2>1
  <2> DEFINE v == val[x]
             d == hayLen - len
             q == IF v = -1 THEN -1 ELSE d - v
  <2> HIDE DEF i, j, v
  <2>3. ASSUME Seen(hr, hayLen, nr, len, i2, j2) PROVE Found(v)
    <3>0. i2 <= j2 /\ \A o \in 0 .. d : Occurs(hr, nr, len, o) => j2 - i2 <= o
      BY <2>3 DEF Seen
    <3>1. CASE i = -1
      <4>1. v = j + 1 /\ v \in 0 .. d /\ q = j2 - i2 /\ q \in 0 .. d /\ i2 = len
        BY <2>1, <3>0, <3>1 DEF v
      <4> HIDE DEF q, i2, j2
      <4>2. Occurs(hr, nr, len, q)
        BY <2>3, <4>1 DEF Seen, Occurs
      <4>3. First(hr, hayLen, nr, len, q)
        BY <3>0, <4>1, <4>2 DEF First
      <4> QED BY <4>1, <4>3 DEF q
    <3>2. CASE i # -1
      <4>1. v = -1 /\ j2 - i2 > d
        BY <2>1, <3>2 DEF v
      <4>2. \A o \in 0 .. d : ~ Occurs(hr, nr, len, o)
        <5> HIDE DEF i2, j2
        <5>1. j2 - i2 \in Int
          BY <2>1 DEF i2, j2
        <5> QED BY <3>0, <4>1, <5>1
      <4>3. First(hr, hayLen, nr, len, -1)
        BY <4>2 DEF First
      <4> QED BY <4>1, <4>3
    <3> QED BY <2>1, <3>1, <3>2
  <2> HIDE DEF Found
  <2> QED BY <2>2, <2>3 DEF i, j, v
<1>10. ASSUME NEW x \in S, NEW r, x \notin G, <<down[x], r>> \in P PROVE <<x, r>> \in P
  <2> DEFINE i == x[1]
             j == x[2]
             i2 == len - 1 - i
             j2 == hayLen - 1 - j
             in == fall(i, j) - 1
             jn == j - 1
  <2>1. i \in 0 .. len - 1 /\ j \in 0 .. hayLen - 1 /\ down[x] = <<in, jn>>
    BY <1>10
  <2> HIDE DEF Found
  <2>2. r \in Int /\ (SeenFrom(in, jn) => Found(r))
    <3> HIDE DEF down, in, jn
    <3> QED BY <1>10, <2>1
  <2>3. PICK g \in -1 .. i2 : fall(i, j) = len - 1 - g /\ LongestTo(nr, hay[j], i2, g)
    <3> HIDE DEF i, j
    <3> QED BY <1>1, <2>1
  <2>4. i2 \in 0 .. len - 1 /\ j2 \in 0 .. hayLen - 1 /\ j2 \in -1 .. hayLen /\ hayLen - 1 - j2 = j
    BY <2>1
  <2>5. hr[j2] = hay[j]
    <3> HIDE DEF j2, j
    <3> QED BY <2>4, MirrorOf DEF hr
  <2>6. len - 1 - in = g + 1 /\ hayLen - 1 - jn = j2 + 1
    <3> HIDE DEF fall
    <3> QED BY <2>1, <2>3
  <2>7. ASSUME SeenFrom(i, j) PROVE Found(r)
    <3>1. Seen(hr, hayLen, nr, len, i2, j2)
      BY <2>7
    <3> HIDE DEF i2, j2, i, j, in, jn
    <3>2. Seen(hr, hayLen, nr, len, g + 1, j2 + 1)
      BY <2>3, <2>4, <2>5, <3>1, SeenOneMore
    <3> QED BY <2>2, <2>6, <3>2
  <2> HIDE DEF in, jn
  <2> QED BY <2>2, <2>7
<1>11. \A x \in S : <<x, f0[x]>> \in P
  <2> HIDE DEF S, G, down, val, mu, P
  <2> QED BY <1>2, <1>8, <1>9, <1>10, LoopsKeep
<1> DEFINE x0 == <<len - 1, hayLen - 1>>
           z == f0[x0]
<1>12. x0 \in S
  OBVIOUS
<1>13. Seen(hr, hayLen, nr, len, 0, 0)
  BY DEF Seen
<1>14. x0[1] = len - 1 /\ x0[2] = hayLen - 1 /\ len - 1 - (len - 1) = 0 /\ hayLen - 1 - (hayLen - 1) = 0
  OBVIOUS
<1>15. <<x0, z>> \in P
  <2> HIDE DEF P, S, x0
  <2> QED BY <1>11, <1>12
<1>16. Found(z)
  <2>1. SeenFrom(x0[1], x0[2])
    <3> HIDE DEF x0
    <3> QED BY <1>13, <1>14
  <2> HIDE DEF Found, z, S, x0
  <2> QED BY <1>15, <2>1
<1> HIDE DEF z
<1>17. Last(hay, hayLen, n, len, z)
  BY <1>16, LastMirror DEF nr, hr
<1> QED BY <1>6, <1>17 DEF z, TR

-----------------------------------------------------------------------------
(* The searches in the string *)

\* A needle is not empty, and its characters are what they are.
LEMMA FromZeroAt ==
  ASSUME NEW text \in String!Needles
  PROVE  /\ Len(text) \in Nat \ {0}
         /\ \A m \in 0 .. Len(text) - 1 : String!FromZero(text)[m] = text[m + 1]
<1>1. PICK k \in 0 .. MaxNeedle : text \in [1 .. k -> Chars]
  BY DEF String!Needles, String!Texts
<1>2. k \in Nat /\ Len(text) = k
  BY <1>1
<1>3. k # 0
  <2>1. text # <<>>
    BY DEF String!Needles
  <2> QED BY <1>1, <1>2, <2>1
<1> QED BY <1>2, <1>3 DEF String!FromZero

LEMMA FindsFirstIn ==
  ASSUME IsString(s)
  PROVE  String!FindsFirst
<1> SUFFICES ASSUME NEW text \in String!Needles, NEW start \in - s.i .. s.i - 1
             PROVE  LET from == IF start < 0 THEN s.i + start ELSE start
                        there == { k \in String!Occurrences(text) : k >= from }
                        pos == String!utstring_find(s, start, String!FromZero(text), Len(text))
                    IN  IF there = {} THEN pos = -1 ELSE pos \in there /\ \A k \in there : pos <= k
  BY DEF String!FindsFirst
<1> DEFINE from == IF start < 0 THEN s.i + start ELSE start
           there == { k \in String!Occurrences(text) : k >= from }
           n == String!FromZero(text)
           len == Len(text)
           pos == String!utstring_find(s, start, n, len)
           hayLen == s.i - from
           hay == [k \in 0 .. hayLen - 1 |-> s.d[from + k]]
           T == String!_utstring_BuildTable(n, len)
           p == String!_utstring_find(hay, hayLen, n, len, T)
<1>1. s.i \in Nat /\ from \in 0 .. s.i - 1 /\ hayLen \in 1 .. s.i
  BY DEF IsString, Holds
<1>2. len \in Nat \ {0} /\ \A m \in 0 .. len - 1 : n[m] = text[m + 1]
  BY FromZeroAt
<1>3. pos = IF hayLen < len \/ len = 0 \/ p < 0 THEN -1 ELSE p + from
  BY DEF String!utstring_find
<1> HIDE DEF from, n, len, T, p, hay, pos
<1>4. First(hay, hayLen, n, len, p)
  <2>1. T \in Tables(len) /\ \A k \in 0 .. len : k < len => Entry(n, T, k)
    BY <1>2, BuildTable DEF T
  <2> QED BY <1>1, <1>2, <2>1, SearchFindsFirst DEF p
<1>5. ASSUME NEW o \in 0 .. hayLen - len
      PROVE  Occurs(hay, n, len, o) <=> o + from \in String!Occurrences(text)
  <2>1. \A m \in 0 .. len - 1 : hay[o + m] = s.d[(o + from) + m] /\ n[m] = text[m + 1]
    <3> SUFFICES ASSUME NEW m \in 0 .. len - 1
                 PROVE  hay[o + m] = s.d[(o + from) + m] /\ n[m] = text[m + 1]
      OBVIOUS
    <3> DEFINE q == o + m
    <3>1. q \in 0 .. hayLen - 1 /\ from + q = (o + from) + m
      BY <1>1, <1>2
    <3> HIDE DEF q
    <3>2. hay[q] = s.d[from + q]
      BY <3>1 DEF hay
    <3> QED BY <1>2, <3>1, <3>2 DEF q
  <2>2. (\A m \in 0 .. len - 1 : s.d[(o + from) + m] = text[m + 1])
          <=> \A m \in 1 .. len : s.d[(o + from) + m - 1] = text[m]
    <3>1. ASSUME \A m \in 0 .. len - 1 : s.d[(o + from) + m] = text[m + 1], NEW m \in 1 .. len
          PROVE  s.d[(o + from) + m - 1] = text[m]
      <4> DEFINE q == m - 1
      <4>1. q \in 0 .. len - 1 /\ q + 1 = m /\ (o + from) + q = (o + from) + m - 1
        BY <1>1, <1>2
      <4> HIDE DEF q
      <4>2. s.d[(o + from) + q] = text[q + 1]
        BY <3>1, <4>1
      <4> QED BY <4>1, <4>2
    <3>2. ASSUME \A m \in 1 .. len : s.d[(o + from) + m - 1] = text[m], NEW m \in 0 .. len - 1
          PROVE  s.d[(o + from) + m] = text[m + 1]
      <4> DEFINE q == m + 1
      <4>1. q \in 1 .. len /\ (o + from) + q - 1 = (o + from) + m
        BY <1>1, <1>2
      <4> HIDE DEF q
      <4>2. s.d[(o + from) + q - 1] = text[q]
        BY <3>2, <4>1
      <4> QED BY <4>1, <4>2 DEF q
    <3> QED BY <3>1, <3>2
  <2>3. o + from \in 0 .. s.i - len
    BY <1>1, <1>2
  <2> QED BY <2>1, <2>2, <2>3 DEF Occurs, String!Occurrences, len
<1>6. ASSUME NEW k \in there PROVE k - from \in 0 .. hayLen - len /\ (k - from) + from = k /\ k \in Int
  BY <1>1, <1>2 DEF String!Occurrences, len
<1>7. CASE there = {}
  <2>1. ASSUME p # -1 PROVE FALSE
    <3>1. p \in 0 .. hayLen - len /\ Occurs(hay, n, len, p)
      BY <1>4, <2>1 DEF First
    <3>2. p + from \in there
      BY <1>1, <1>5, <3>1
    <3> QED BY <1>7, <3>2
  <2> QED BY <1>3, <1>7, <2>1 DEF from, n, len, pos
<1>8. CASE there # {}
  <2>1. PICK k \in there : TRUE
    BY <1>8
  <2>2. Occurs(hay, n, len, k - from) /\ hayLen >= len
    <3> DEFINE o == k - from
    <3>1. o \in 0 .. hayLen - len /\ o + from \in String!Occurrences(text)
      BY <1>6
    <3> HIDE DEF o
    <3>2. Occurs(hay, n, len, o)
      BY <1>5, <3>1
    <3> QED BY <1>1, <1>2, <3>1, <3>2 DEF o
  <2>3. p # -1
    BY <1>4, <1>6, <2>2 DEF First
  <2>4. p \in 0 .. hayLen - len /\ Occurs(hay, n, len, p)
    BY <1>4, <2>3 DEF First
  <2>5. pos = p + from /\ pos \in there
    BY <1>1, <1>2, <1>3, <1>5, <2>2, <2>4
  <2>6. ASSUME NEW h \in there PROVE pos <= h
    <3> DEFINE o == h - from
    <3>1. o \in 0 .. hayLen - len /\ o + from \in String!Occurrences(text) /\ o + from = h
      BY <1>6
    <3> HIDE DEF o
    <3>2. p <= o
      BY <1>4, <1>5, <3>1 DEF First
    <3> QED BY <1>1, <2>4, <2>5, <3>1, <3>2
  <2> QED BY <1>8, <2>5, <2>6 DEF from, n, len, pos
<1> QED BY <1>7, <1>8

LEMMA FindsLastIn ==
  ASSUME IsString(s)
  PROVE  String!FindsLast
<1> SUFFICES ASSUME NEW text \in String!Needles, NEW start \in - s.i .. s.i - 1
             PROVE  LET from == IF start < 0 THEN s.i + start ELSE start
                        there == { k \in String!Occurrences(text) : k + Len(text) - 1 <= from }
                        pos == String!utstring_findR(s, start, String!FromZero(text), Len(text))
                    IN  IF there = {} THEN pos = -1 ELSE pos \in there /\ \A k \in there : pos >= k
  BY DEF String!FindsLast
<1> DEFINE from == IF start < 0 THEN s.i + start ELSE start
           there == { k \in String!Occurrences(text) : k + Len(text) - 1 <= from }
           n == String!FromZero(text)
           len == Len(text)
           pos == String!utstring_findR(s, start, n, len)
           hayLen == from + 1
           TR == String!_utstring_BuildTableR(n, len)
           p == String!_utstring_findR(s.d, hayLen, n, len, TR)
<1>1. s.i \in Nat /\ from \in 0 .. s.i - 1 /\ hayLen \in 1 .. s.i /\ hayLen = from + 1
  BY DEF IsString, Holds
<1>2. len \in Nat \ {0} /\ \A m \in 0 .. len - 1 : n[m] = text[m + 1]
  BY FromZeroAt
<1>3. pos = IF hayLen < len \/ len = 0 THEN -1 ELSE p
  BY DEF String!utstring_findR
<1> HIDE DEF from, n, len, TR, p, pos, hayLen
<1>4. Last(s.d, hayLen, n, len, p)
  <2> DEFINE T == String!_utstring_BuildTable(Mirror(n, len), len)
  <2>1. TR = MirrorTable(len, T)
    BY <1>2, BuildTableMirror DEF TR
  <2>2. T \in Tables(len) /\ \A k \in 0 .. len : k < len => Entry(Mirror(n, len), T, k)
    BY <1>2, BuildTable
  <2> HIDE DEF T
  <2> QED BY <1>1, <1>2, <2>1, <2>2, SearchFindsLast DEF p
<1>5. ASSUME NEW o \in 0 .. hayLen - len
      PROVE  Occurs(s.d, n, len, o) <=> o \in String!Occurrences(text)
  <2>1. (\A m \in 0 .. len - 1 : s.d[o + m] = text[m + 1])
          <=> \A m \in 1 .. len : s.d[o + m - 1] = text[m]
    <3>1. ASSUME \A m \in 0 .. len - 1 : s.d[o + m] = text[m + 1], NEW m \in 1 .. len
          PROVE  s.d[o + m - 1] = text[m]
      <4> DEFINE q == m - 1
      <4>1. q \in 0 .. len - 1 /\ q + 1 = m /\ o + q = o + m - 1
        BY <1>1, <1>2
      <4> HIDE DEF q
      <4>2. s.d[o + q] = text[q + 1]
        BY <3>1, <4>1
      <4> QED BY <4>1, <4>2
    <3>2. ASSUME \A m \in 1 .. len : s.d[o + m - 1] = text[m], NEW m \in 0 .. len - 1
          PROVE  s.d[o + m] = text[m + 1]
      <4> DEFINE q == m + 1
      <4>1. q \in 1 .. len /\ o + q - 1 = o + m
        BY <1>1, <1>2
      <4> HIDE DEF q
      <4>2. s.d[o + q - 1] = text[q]
        BY <3>2, <4>1
      <4> QED BY <4>1, <4>2 DEF q
    <3> QED BY <3>1, <3>2
  <2>2. o \in 0 .. s.i - len
    BY <1>1, <1>2
  <2> QED BY <1>2, <2>1, <2>2 DEF Occurs, String!Occurrences, len
<1>6. \A k : k \in there <=> k \in 0 .. hayLen - len /\ k \in String!Occurrences(text)
  BY <1>1, <1>2 DEF String!Occurrences, len
<1> HIDE DEF there
<1>7. CASE there = {}
  <2>1. ASSUME p # -1 PROVE FALSE
    <3>1. p \in 0 .. hayLen - len /\ Occurs(s.d, n, len, p)
      BY <1>4, <2>1 DEF Last
    <3> QED BY <1>5, <1>6, <1>7, <3>1
  <2> QED BY <1>3, <1>7, <2>1 DEF from, n, len, pos, there
<1>8. CASE there # {}
  <2>1. PICK k \in there : TRUE
    BY <1>8
  <2>2. hayLen >= len /\ k \in 0 .. hayLen - len /\ Occurs(s.d, n, len, k)
    BY <1>1, <1>2, <1>5, <1>6
  <2>3. p # -1
    BY <1>4, <2>2 DEF Last
  <2>4. p \in 0 .. hayLen - len /\ Occurs(s.d, n, len, p)
    BY <1>4, <2>3 DEF Last
  <2>5. pos = p /\ pos \in there
    BY <1>1, <1>2, <1>3, <1>5, <1>6, <2>2, <2>4
  <2>6. ASSUME NEW h \in there PROVE pos >= h
    BY <1>4, <1>5, <1>6, <2>5 DEF Last
  <2> QED BY <1>8, <2>5, <2>6 DEF from, n, len, pos, there
<1> QED BY <1>7, <1>8

\* The two searches of utstring.h find the first occurrence and the last one in
\* whatever the operations have made of the string, for any needle and from any
\* start in it: the tables of Knuth, Morris and Pratt skip none.
THEOREM StringSearchesFind == String!Spec => []StringFindsExactly
<1> StringAssumption
  BY ContainersAssumption
<1>1. StringInv => StringFindsExactly
  BY FindsFirstIn, FindsLastIn DEF StringInv, StringFindsExactly
<1>2. StringInv /\ [String!Next]_(String!vars) => StringInv'
  BY StringNext
<1>3. String!Init => StringInv
  BY StringStarts
<1> QED BY <1>1, <1>2, <1>3, PTL DEF String!Spec

=============================================================================
