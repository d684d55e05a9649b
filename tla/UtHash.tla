------------------------------- MODULE UtHash -------------------------------
(***************************************************************************)
(* The macros of uthash.h on one table, pointer by pointer.  Each takes    *)
(* the table before and returns the table after.                           *)
(*                                                                         *)
(* A table is the record of what hangs off its head: UT_hash_table, and    *)
(* the four links of the UT_hash_handle of every element, which are left   *)
(* alone while the element is in no table.  An element stands for its      *)
(* handle; NULL is the null pointer.  The allocator does not fail (the     *)
(* default is to exit), and there is no Bloom filter, as in shmlib's       *)
(* build.                                                                  *)
(***************************************************************************)
EXTENDS FiniteSets, ListSort

CONSTANTS
  Elts,     \* the structures that can be in a table
  NULL,     \* not one of them
  KeyOf,    \* the key of each
  HashOf,   \* the value HASH_FUNCTION computes of each key
  HASH_INITIAL_NUM_BUCKETS,   \* a power of two
  HASH_BKT_CAPACITY_THRESH

Keys == { KeyOf[e] : e \in Elts }
Pointer == Elts \cup {NULL}

EmptyBucket == [hh_head |-> NULL, count |-> 0, expand_mult |-> 0]
Buckets(n) == [b \in 0 .. n - 1 |-> EmptyBucket]

NoTable ==
  [head |-> NULL, tail |-> NULL, num_buckets |-> 0, buckets |-> Buckets(0),
   num_items |-> 0, ideal_chain_maxlen |-> 0, ineff_expands |-> 0, noexpand |-> FALSE,
   next |-> [e \in Elts |-> NULL], prev |-> [e \in Elts |-> NULL],
   hh_next |-> [e \in Elts |-> NULL], hh_prev |-> [e \in Elts |-> NULL]]

\* "if(p) p->field = v"
Put(field, p, v) == IF p = NULL THEN field ELSE [field EXCEPT ![p] = v]

\* The elements reached from p along a link, at most one more than there are.
Walk(p, link) ==
  LET N == Cardinality(Elts) + 1
      from[n \in 0 .. N] ==
        [q \in Pointer |-> IF q = NULL \/ n = 0 THEN <<>> ELSE <<q>> \o from[n - 1][link[q]]]
  IN  from[N][p]

\* The first element of s at one of the places, or NULL.
FirstOf(s, places) ==
  IF places = {} THEN NULL ELSE s[CHOOSE i \in places : \A j \in places : i <= j]

AppOrder(t) == Walk(t.head, t.next)
Chain(t, b) == Walk(t.buckets[b].hh_head, t.hh_next)

\* num_bkts is a power of two: the code masks.
HASH_TO_BKT(e, num_bkts) == HashOf[KeyOf[e]] % num_bkts

-----------------------------------------------------------------------------
(* Buckets *)

PushFront(buckets, b, e) == [buckets EXCEPT ![b].hh_head = e, ![b].count = @ + 1]

\* A bucket whose chain is longer than its share gets a multiplier, so that
\* it will not ask for an expansion so soon again.
Multiplier_Kept(bucket, ideal) == bucket.expand_mult
Multiplier(bucket, ideal) ==
  IF bucket.count > ideal /\ bucket.count > bucket.expand_mult * ideal
  THEN bucket.expand_mult + 1 ELSE bucket.expand_mult

\* An item enters the front of its new chain.
MoveItem(to, e, n, ideal) ==
  LET b == HASH_TO_BKT(e, n)
      old == to.buckets[b].hh_head
      pushed == PushFront(to.buckets, b, e)
  IN  [buckets |-> [pushed EXCEPT ![b].expand_mult = Multiplier(pushed[b], ideal)],
       nonideal_items |-> to.nonideal_items + (IF pushed[b].count > ideal THEN 1 ELSE 0),
       hh_next |-> [to.hh_next EXCEPT ![e] = old],
       hh_prev |-> Put([to.hh_prev EXCEPT ![e] = NULL], old, e)]

\* Every item moves, in the order of the old chains.  After two expansions in
\* a row that left more than half the items too deep there are no more.
HASH_EXPAND_BUCKETS(t) ==
  LET n == 2 * t.num_buckets
      ideal == t.num_items \div n + (IF t.num_items % n # 0 THEN 1 ELSE 0)
      items == FlattenSeq([i \in 1 .. t.num_buckets |-> Chain(t, i - 1)])
      moved[k \in 0 .. Len(items)] ==
        IF k = 0 THEN [buckets |-> Buckets(n), nonideal_items |-> 0,
                       hh_next |-> t.hh_next, hh_prev |-> t.hh_prev]
        ELSE MoveItem(moved[k - 1], items[k], n, ideal)
      all == moved[Len(items)]
      ineff == IF all.nonideal_items > t.num_items \div 2 THEN t.ineff_expands + 1 ELSE 0
  IN  [t EXCEPT !.num_buckets = n, !.buckets = all.buckets,
                !.hh_next = all.hh_next, !.hh_prev = all.hh_prev,
                !.ideal_chain_maxlen = ideal,
                !.ineff_expands = ineff, !.noexpand = @ \/ ineff > 1]

HASH_ADD_TO_BKT(t, e) ==
  LET b == HASH_TO_BKT(e, t.num_buckets)
      old == t.buckets[b]
      linked == [t EXCEPT !.buckets = PushFront(@, b, e),
                          !.hh_next[e] = old.hh_head,
                          !.hh_prev = Put([@ EXCEPT ![e] = NULL], old.hh_head, e)]
  IN  IF old.count + 1 >= (old.expand_mult + 1) * HASH_BKT_CAPACITY_THRESH /\ ~ t.noexpand
      THEN HASH_EXPAND_BUCKETS(linked)
      ELSE linked

HASH_DEL_IN_BKT_HeadKept(t, e) ==
  LET b == HASH_TO_BKT(e, t.num_buckets)
  IN  [t EXCEPT !.buckets[b].count = @ - 1,
                !.hh_next = Put(@, t.hh_prev[e], t.hh_next[e]),
                !.hh_prev = Put(@, t.hh_next[e], t.hh_prev[e])]

HASH_DEL_IN_BKT(t, e) ==
  LET b == HASH_TO_BKT(e, t.num_buckets)
  IN  [t EXCEPT !.buckets[b].count = @ - 1,
                !.buckets[b].hh_head = IF @ = e THEN t.hh_next[e] ELSE @,
                !.hh_next = Put(@, t.hh_prev[e], t.hh_next[e]),
                !.hh_prev = Put(@, t.hh_next[e], t.hh_prev[e])]

HASH_FIND_IN_BKT(t, b, key) ==
  LET s == Chain(t, b)
  IN  FirstOf(s, { i \in DOMAIN s : KeyOf[s[i]] = key })

-----------------------------------------------------------------------------
(* The table *)

HASH_FIND(t, key) ==
  IF t.head = NULL THEN NULL
  ELSE HASH_FIND_IN_BKT(t, HashOf[key] % t.num_buckets, key)

HASH_MAKE_TABLE(t, e) ==
  [t EXCEPT !.tail = e, !.num_buckets = HASH_INITIAL_NUM_BUCKETS,
            !.buckets = Buckets(HASH_INITIAL_NUM_BUCKETS),
            !.num_items = 0, !.ideal_chain_maxlen = 0,
            !.ineff_expands = 0, !.noexpand = FALSE]

\* HASH_MAKE_TABLE of the first element, alone in its list.
FirstElement(t, e) ==
  [HASH_MAKE_TABLE(t, e) EXCEPT !.head = e, !.next[e] = NULL, !.prev[e] = NULL]

HASH_APPEND_LIST(t, e) ==
  [t EXCEPT !.next = Put([@ EXCEPT ![e] = NULL], t.tail, e),
            !.prev[e] = t.tail, !.tail = e]

HASH_ADD_TO_TABLE(t, e) == HASH_ADD_TO_BKT([t EXCEPT !.num_items = @ + 1], e)

HASH_ADD(t, e) ==
  HASH_ADD_TO_TABLE(IF t.head = NULL THEN FirstElement(t, e) ELSE HASH_APPEND_LIST(t, e), e)

\* The first element that compares greater, or NULL.
HASH_AKBI_INNER_LOOP(t, e) ==
  LET s == AppOrder(t)
  IN  FirstOf(s, { i \in DOMAIN s : RankOf[s[i]] > RankOf[e] })

HASH_ADD_INORDER(t, e) ==
  LET iter == HASH_AKBI_INNER_LOOP(t, e)
      before == t.prev[iter]
      inserted == [t EXCEPT !.next = Put([@ EXCEPT ![e] = iter], before, e),
                            !.prev = [@ EXCEPT ![e] = before, ![iter] = e],
                            !.head = IF before = NULL THEN e ELSE @]
  IN  HASH_ADD_TO_TABLE(IF t.head = NULL THEN FirstElement(t, e)
                        ELSE IF iter = NULL THEN HASH_APPEND_LIST(t, e)
                        ELSE inserted, e)

\* The links of the element itself keep their values.
HASH_DELETE(t, e) ==
  IF t.prev[e] = NULL /\ t.next[e] = NULL
  THEN [NoTable EXCEPT !.next = t.next, !.prev = t.prev,
                       !.hh_next = t.hh_next, !.hh_prev = t.hh_prev]
  ELSE HASH_DEL_IN_BKT([t EXCEPT !.tail = IF @ = e THEN t.prev[e] ELSE @,
                                 !.head = IF t.prev[e] = NULL THEN t.next[e] ELSE @,
                                 !.next = Put(@, t.prev[e], t.next[e]),
                                 !.prev = Put(@, t.next[e], t.prev[e]),
                                 !.num_items = @ - 1], e)

\* The element that was found is returned to the caller in "replaced".
HASH_REPLACE(t, e) ==
  LET replaced == HASH_FIND(t, KeyOf[e])
  IN  HASH_ADD(IF replaced = NULL THEN t ELSE HASH_DELETE(t, replaced), e)

HASH_REPLACE_INORDER(t, e) ==
  LET replaced == HASH_FIND(t, KeyOf[e])
  IN  HASH_ADD_INORDER(IF replaced = NULL THEN t ELSE HASH_DELETE(t, replaced), e)

HASH_CLEAR(t) ==
  [NoTable EXCEPT !.next = t.next, !.prev = t.prev,
                  !.hh_next = t.hh_next, !.hh_prev = t.hh_prev]

HASH_COUNT(t) == IF t.head = NULL THEN 0 ELSE t.num_items

\* The links of a list of elements, from NULL to NULL.
Linked(s, next, prev) ==
  LET at(e) == CHOOSE i \in DOMAIN s : s[i] = e
  IN  [next |-> [e \in Elts |-> IF e \notin ToSet(s) THEN next[e]
                                ELSE IF at(e) = Len(s) THEN NULL ELSE s[at(e) + 1]],
       prev |-> [e \in Elts |-> IF e \notin ToSet(s) THEN prev[e]
                                ELSE IF at(e) = 1 THEN NULL ELSE s[at(e) - 1]]]

HASH_SRT_TailKept(t) ==
  LET s == MergeSort(AppOrder(t))
      links == Linked(s, t.next, t.prev)
  IN  IF t.head = NULL THEN t
      ELSE [t EXCEPT !.next = links.next, !.prev = links.prev, !.head = Head(s)]

\* Each merged element is appended to the new list; the last pass sets the
\* tail and the head.
HASH_SRT(t) ==
  LET s == MergeSort(AppOrder(t))
      links == Linked(s, t.next, t.prev)
  IN  IF t.head = NULL THEN t
      ELSE [t EXCEPT !.next = links.next, !.prev = links.prev,
                     !.head = Head(s), !.tail = Last(s)]

\* The chosen items of t, in the order of its buckets, enter the table d.
\* Their app-order links make a list of their own; only an empty d gets a
\* head and a tail from it, those of its first element.
HASH_SELECT(d, t, chosen) ==
  LET Cond(e) == e \in chosen
      items == SelectSeq(FlattenSeq([i \in 1 .. t.num_buckets |-> Chain(t, i - 1)]), Cond)
      Enter(acc, e) ==
        LET listed == [acc.d EXCEPT !.prev[e] = acc.last,
                                    !.next = Put([@ EXCEPT ![e] = NULL], acc.last, e)]
            made == IF listed.head = NULL
                    THEN [HASH_MAKE_TABLE(listed, e) EXCEPT !.head = e] ELSE listed
        IN  [d |-> [HASH_ADD_TO_BKT(made, e) EXCEPT !.num_items = @ + 1], last |-> e]
  IN  FoldLeft(Enter, [d |-> d, last |-> NULL], items).d

\* The client frees the elements, or clears their handles, when they leave.
Freed(t, S) ==
  [t EXCEPT !.next = [e \in Elts |-> IF e \in S THEN NULL ELSE @[e]],
            !.prev = [e \in Elts |-> IF e \in S THEN NULL ELSE @[e]],
            !.hh_next = [e \in Elts |-> IF e \in S THEN NULL ELSE @[e]],
            !.hh_prev = [e \in Elts |-> IF e \in S THEN NULL ELSE @[e]]]

-----------------------------------------------------------------------------
\* The checks of the developer's build, after every operation: both
\* directions of every chain and of the app-order list, and every count.
HASH_FSCK(t) ==
  LET Doubly(s, prev) == \A i \in DOMAIN s : prev[s[i]] = (IF i = 1 THEN NULL ELSE s[i - 1])
      chains == [b \in 0 .. t.num_buckets - 1 |-> Chain(t, b)]
      total[n \in 0 .. t.num_buckets] == IF n = 0 THEN 0 ELSE total[n - 1] + Len(chains[n - 1])
  IN  t.head # NULL =>
        /\ \A b \in DOMAIN chains : /\ Doubly(chains[b], t.hh_prev)
                                    /\ t.buckets[b].count = Len(chains[b])
        /\ t.num_items = total[t.num_buckets]
        /\ Doubly(AppOrder(t), t.prev)
        /\ t.num_items = Len(AppOrder(t))

=============================================================================
