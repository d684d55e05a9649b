---------------------------- MODULE UtHashClient -----------------------------
(***************************************************************************)
(* A client of one uthash table, as shmlib is of two: it adds what it does *)
(* not find, frees what it deletes or clears, and walks the table with     *)
(* HASH_ITER, whose body may delete and free the element it is at, and add *)
(* others.                                                                 *)
(***************************************************************************)
EXTENDS UtHash

CONSTANTS
  MaxAdded,    \* bound of the model: elements added during one walk
  MaxBuckets   \* bound of the model: a larger table takes no more elements

VARIABLES
  table,
  el, tmp,      \* the variables of HASH_ITER
  walking,
  begun, met    \* history: the order when the walk began, the elements met

vars == <<table, el, tmp, walking, begun, met>>
walkvars == <<el, tmp, walking, begun, met>>

Init ==
  /\ table = NoTable
  /\ el = NULL /\ tmp = NULL /\ walking = FALSE
  /\ begun = <<>> /\ met = <<>>

In(e) == e \in ToSet(AppOrder(table))

Room == table.num_buckets <= MaxBuckets

Add(e) ==
  /\ Room
  /\ HASH_FIND(table, KeyOf[e]) = NULL
  /\ walking => Len(met) < Len(begun) + MaxAdded
  /\ table' = HASH_ADD(table, e)
  /\ UNCHANGED walkvars

AddInorder(e) ==
  /\ ~ walking /\ Room
  /\ HASH_FIND(table, KeyOf[e]) = NULL
  /\ table' = HASH_ADD_INORDER(table, e)
  /\ UNCHANGED walkvars

Replace(e) ==
  /\ ~ walking /\ Room /\ ~ In(e)
  /\ LET old == HASH_FIND(table, KeyOf[e])
     IN  \/ table' = Freed(HASH_REPLACE(table, e), {old})
         \/ table' = Freed(HASH_REPLACE_INORDER(table, e), {old})
  /\ UNCHANGED walkvars

Delete(e) ==
  /\ In(e)
  /\ walking => e = el
  /\ table' = Freed(HASH_DELETE(table, e), {e})
  /\ UNCHANGED walkvars

Clear ==
  /\ ~ walking
  /\ table' = Freed(HASH_CLEAR(table), Elts)
  /\ UNCHANGED walkvars

Sort ==
  /\ ~ walking
  /\ table' = HASH_SRT(table)
  /\ UNCHANGED walkvars

NextOf(e) == IF e = NULL THEN NULL ELSE table.next[e]

\* HASH_ITER's start and step: the element after the next is read before the
\* body runs.
StartWalk ==
  /\ ~ walking
  /\ walking' = TRUE
  /\ el' = table.head
  /\ tmp' = NextOf(table.head)
  /\ begun' = AppOrder(table)
  /\ met' = IF table.head = NULL THEN <<>> ELSE <<table.head>>
  /\ UNCHANGED table

StepTo_Late(e) == NextOf(el)
StepTo(e) == tmp

StepWalk ==
  /\ walking /\ el # NULL
  /\ el' = StepTo(el)
  /\ tmp' = NextOf(el')
  /\ met' = IF el' = NULL THEN met ELSE Append(met, el')
  /\ UNCHANGED <<table, walking, begun>>

EndWalk ==
  /\ walking /\ el = NULL
  /\ walking' = FALSE
  /\ begun' = <<>> /\ met' = <<>> /\ tmp' = NULL
  /\ UNCHANGED <<table, el>>

Next ==
  \/ \E e \in Elts : Add(e) \/ AddInorder(e) \/ Replace(e) \/ Delete(e)
  \/ Clear \/ Sort \/ StartWalk \/ StepWalk \/ EndWalk

Spec == Init /\ [][Next]_vars

-----------------------------------------------------------------------------
(* Properties *)

\* The developer's own check, and what it leaves out: the head starts the
\* list, the tail ends it, every element is in the bucket of its hash, and no
\* two have a key in common.
WellFormed ==
  /\ HASH_FSCK(table)
  /\ table.head # NULL =>
       /\ table.tail = Last(AppOrder(table))
       /\ \A b \in 0 .. table.num_buckets - 1 : \A i \in DOMAIN Chain(table, b) :
            HASH_TO_BKT(Chain(table, b)[i], table.num_buckets) = b
  /\ \A e, f \in ToSet(AppOrder(table)) : KeyOf[e] = KeyOf[f] => e = f

\* A lookup finds the element with the key if the list has one, through every
\* expansion and removal.
FindsExactly ==
  \A key \in Keys :
    LET e == HASH_FIND(table, key)
        with == { f \in ToSet(AppOrder(table)) : KeyOf[f] = key }
    IN  IF with = {} THEN e = NULL ELSE e \in with

\* Chains are "longer yet still bounded": until expansion is inhibited no
\* chain outgrows its multiple of the threshold, or of the ideal length of the
\* last expansion when that is larger.
ChainsBounded ==
  table.head # NULL /\ ~ table.noexpand =>
    \A b \in 0 .. table.num_buckets - 1 :
      \E most \in {HASH_BKT_CAPACITY_THRESH, table.ideal_chain_maxlen} :
        table.buckets[b].count <= (table.buckets[b].expand_mult + 1) * most

\* HASH_ITER meets every element that was there when it began, in order, once,
\* although its body deletes and frees elements.
WalkMeetsAll ==
  walking => IF el = NULL THEN IsPrefix(begun, met)
             ELSE IsPrefix(met, begun) \/ IsPrefix(begun, met)

\* The table is a map with an order.
Map == INSTANCE OrderedMap WITH order <- AppOrder(table)
ImplementsMap == Map!Spec

=============================================================================
