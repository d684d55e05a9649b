------------------------------- MODULE UtList --------------------------------
(***************************************************************************)
(* The macros of utlist.h, pointer by pointer, on three kinds of list:     *)
(* singly linked (LL), doubly linked (DL: the prev of the head is the      *)
(* tail, the next of the tail is NULL) and circular (CDL).  A list's state *)
(* is its head and the links of all elements; h names one of the heads.    *)
(* LOWER_BOUND and INSERT_INORDER are those for compilers with decltype.   *)
(***************************************************************************)
EXTENDS FiniteSets, ListSort

CONSTANTS
  Elts, Heads,
  NULL     \* not an element

Pointer == Elts \cup {NULL}

NoLinks == [e \in Elts |-> NULL]
NoLL == [head |-> [h \in Heads |-> NULL], next |-> NoLinks]
NoDL == [head |-> [h \in Heads |-> NULL], next |-> NoLinks, prev |-> NoLinks]

\* "if (p) p->field = v"
Put(field, p, v) == IF p = NULL THEN field ELSE [field EXCEPT ![p] = v]

\* The elements a FOREACH meets from p, at most one more than there are; a
\* circular list ends where it would come back to stop.
Walk(p, next, stop) ==
  LET N == Cardinality(Elts) + 1
      from[k \in 0 .. N] ==
        [q \in Pointer |->
           IF q = NULL \/ k = 0 THEN <<>>
           ELSE <<q>> \o (IF next[q] = stop THEN <<>> ELSE from[k - 1][next[q]])]
  IN  from[N][p]

LL_FOREACH(l, h) == Walk(l.head[h], l.next, NULL)
DL_FOREACH(l, h) == Walk(l.head[h], l.next, NULL)
CDL_FOREACH(l, h) == Walk(l.head[h], l.next, l.head[h])

LL_COUNT(l, h) == Len(LL_FOREACH(l, h))
DL_COUNT(l, h) == Len(DL_FOREACH(l, h))
CDL_COUNT(l, h) == Len(CDL_FOREACH(l, h))

\* The first element of s that compares equal; DL_SEARCH is LL_SEARCH.
FirstEqual(s, like) ==
  LET equal == SelectSeq(s, LAMBDA e : RankOf[e] = RankOf[like])
  IN  IF equal = <<>> THEN NULL ELSE Head(equal)

LL_SEARCH(l, h, like) == FirstEqual(LL_FOREACH(l, h), like)
CDL_SEARCH(l, h, like) == FirstEqual(CDL_FOREACH(l, h), like)

\* The element before the first of s that is not less than like.
LastLess(s, like) ==
  LET less == { i \in DOMAIN s : \A j \in 1 .. i : RankOf[s[j]] < RankOf[like] }
  IN  IF less = {} THEN NULL ELSE s[CHOOSE i \in less : \A j \in less : j <= i]

-----------------------------------------------------------------------------
(* Singly linked *)

LL_LOWER_BOUND(l, h, like) == LastLess(LL_FOREACH(l, h), like)

LL_PREPEND(l, h, add) == [l EXCEPT !.next[add] = l.head[h], !.head[h] = add]

LL_APPEND(l, h, add) ==
  IF l.head[h] = NULL
  THEN [l EXCEPT !.next[add] = NULL, !.head[h] = add]
  ELSE [l EXCEPT !.next = [@ EXCEPT ![add] = NULL, ![Last(LL_FOREACH(l, h))] = add]]

LL_CONCAT(l, h1, h2) ==
  IF l.head[h1] = NULL
  THEN [l EXCEPT !.head[h1] = l.head[h2]]
  ELSE [l EXCEPT !.next[Last(LL_FOREACH(l, h1))] = l.head[h2]]

\* The loops over "_tmp->next != (el)": who points to el, NULL for the head.
Before(l, h, el) ==
  LET s == LL_FOREACH(l, h)
      who == { i \in DOMAIN s : l.next[s[i]] = el }
  IN  IF l.head[h] = el \/ who = {} THEN NULL
      ELSE s[CHOOSE i \in who : \A j \in who : i <= j]

\* Whoever pointed to el points to p.
Redirect(l, h, el, p) ==
  [l EXCEPT !.head[h] = IF @ = el THEN p ELSE @, !.next = Put(@, Before(l, h, el), p)]

LL_DELETE(l, h, del) == Redirect(l, h, del, l.next[del])

LL_REPLACE_ELEM(l, h, el, add) == Redirect([l EXCEPT !.next[add] = l.next[el]], h, el, add)

LL_PREPEND_ELEM(l, h, el, add) ==
  IF el = NULL THEN LL_APPEND(l, h, add)
  ELSE [Redirect(l, h, el, add) EXCEPT !.next[add] = el]

LL_APPEND_ELEM(l, h, el, add) ==
  IF el = NULL THEN LL_PREPEND(l, h, add)
  ELSE [l EXCEPT !.next = [@ EXCEPT ![add] = l.next[el], ![el] = add]]

LL_INSERT_INORDER(l, h, add) ==
  IF l.head[h] = NULL THEN [l EXCEPT !.head[h] = add, !.next[add] = NULL]
  ELSE LL_APPEND_ELEM(l, h, LL_LOWER_BOUND(l, h, add), add)

\* Each element merged is linked after the one before; the last to NULL.
Chained(next, s, end) ==
  [e \in Elts |-> IF e \notin ToSet(s) THEN next[e]
                  ELSE LET i == CHOOSE i \in DOMAIN s : s[i] = e
                       IN  IF i = Len(s) THEN end ELSE s[i + 1]]

LL_SORT(l, h) ==
  LET s == MergeSort(LL_FOREACH(l, h))
  IN  IF l.head[h] = NULL THEN l
      ELSE [l EXCEPT !.head[h] = Head(s), !.next = Chained(@, s, NULL)]

-----------------------------------------------------------------------------
(* Doubly linked *)

DL_LOWER_BOUND(l, h, like) == LastLess(DL_FOREACH(l, h), like)

DL_PREPEND(l, h, add) ==
  LET head == l.head[h]
  IN  [l EXCEPT !.head[h] = add, !.next[add] = head,
                !.prev = IF head = NULL THEN [@ EXCEPT ![add] = add]
                         ELSE [@ EXCEPT ![add] = l.prev[head], ![head] = add]]

DL_APPEND(l, h, add) ==
  LET head == l.head[h]
      tail == l.prev[head]
  IN  IF head = NULL
      THEN [l EXCEPT !.head[h] = add, !.prev[add] = add, !.next[add] = NULL]
      ELSE [l EXCEPT !.prev = [@ EXCEPT ![add] = tail, ![head] = add],
                     !.next = [@ EXCEPT ![tail] = add, ![add] = NULL]]

DL_CONCAT(l, h1, h2) ==
  LET head1 == l.head[h1]  head2 == l.head[h2]
  IN  IF head2 = NULL THEN l
      ELSE IF head1 = NULL THEN [l EXCEPT !.head[h1] = head2]
      ELSE [l EXCEPT !.prev = [@ EXCEPT ![head2] = l.prev[head1], ![head1] = l.prev[head2]],
                     !.next[l.prev[head1]] = head2]

DL_DELETE(l, h, del) ==
  IF l.prev[del] = del THEN [l EXCEPT !.head[h] = NULL]
  ELSE IF del = l.head[h]
  THEN [l EXCEPT !.prev[l.next[del]] = l.prev[del], !.head[h] = l.next[del]]
  ELSE [l EXCEPT !.next[l.prev[del]] = l.next[del],
                 !.prev[IF l.next[del] # NULL THEN l.next[del] ELSE l.head[h]] = l.prev[del]]

\* What points back to el, or to the tail that el was, now points to add.
DL_REPLACE_ELEM(l, h, el, add) ==
  LET next == l.next[el]
  IN  IF l.head[h] = el
      THEN [l EXCEPT !.head[h] = add, !.next[add] = next,
                     !.prev = IF next = NULL THEN [@ EXCEPT ![add] = add]
                              ELSE [@ EXCEPT ![add] = l.prev[el], ![next] = add]]
      ELSE [l EXCEPT !.next = [@ EXCEPT ![add] = next, ![l.prev[el]] = add],
                     !.prev = [@ EXCEPT ![add] = l.prev[el],
                                        ![IF next = NULL THEN l.head[h] ELSE next] = add]]

DL_PREPEND_ELEM(l, h, el, add) ==
  IF el = NULL THEN DL_APPEND(l, h, add)
  ELSE [l EXCEPT !.prev = [@ EXCEPT ![add] = l.prev[el], ![el] = add],
                 !.head[h] = IF @ = el THEN add ELSE @,
                 !.next = [IF l.head[h] = el THEN @ ELSE [@ EXCEPT ![l.prev[el]] = add]
                           EXCEPT ![add] = el]]

DL_APPEND_ELEM_TailKept(l, h, el, add) ==
  IF el = NULL THEN DL_PREPEND(l, h, add)
  ELSE [l EXCEPT !.next = [@ EXCEPT ![add] = l.next[el], ![el] = add],
                 !.prev = Put([@ EXCEPT ![add] = el], l.next[el], add)]

DL_APPEND_ELEM(l, h, el, add) ==
  IF el = NULL THEN DL_PREPEND(l, h, add)
  ELSE [l EXCEPT !.next = [@ EXCEPT ![add] = l.next[el], ![el] = add],
                 !.prev = [[@ EXCEPT ![add] = el] EXCEPT
                             ![IF l.next[el] # NULL THEN l.next[el] ELSE l.head[h]] = add]]

DL_INSERT_INORDER(l, h, add) ==
  IF l.head[h] = NULL THEN [l EXCEPT !.head[h] = add, !.prev[add] = add, !.next[add] = NULL]
  ELSE DL_APPEND_ELEM(l, h, DL_LOWER_BOUND(l, h, add), add)

DL_SORT(l, h) ==
  LET s == MergeSort(DL_FOREACH(l, h))
  IN  IF l.head[h] = NULL THEN l
      ELSE [l EXCEPT !.head[h] = Head(s), !.next = Chained(@, s, NULL),
                     !.prev = Chained(@, Reverse(s), Last(s))]

-----------------------------------------------------------------------------
(* Circular *)

CDL_LOWER_BOUND(l, h, like) == LastLess(CDL_FOREACH(l, h), like)

\* Between the tail and the head, or alone.
CDL_APPEND(l, h, add) ==
  LET head == l.head[h]
      tail == l.prev[head]
  IN  IF head = NULL
      THEN [l EXCEPT !.head[h] = add, !.prev[add] = add, !.next[add] = add]
      ELSE [l EXCEPT !.prev = [@ EXCEPT ![add] = tail, ![head] = add],
                     !.next = [@ EXCEPT ![add] = head, ![tail] = add]]

CDL_PREPEND(l, h, add) == [CDL_APPEND(l, h, add) EXCEPT !.head[h] = add]

CDL_DELETE_HeadKept(l, h, del) ==
  IF l.head[h] = del /\ l.next[del] = del THEN [l EXCEPT !.head[h] = NULL]
  ELSE [l EXCEPT !.prev[l.next[del]] = l.prev[del],
                 !.next[l.prev[del]] = l.next[del]]

CDL_DELETE(l, h, del) ==
  IF l.head[h] = del /\ l.next[del] = del THEN [l EXCEPT !.head[h] = NULL]
  ELSE [l EXCEPT !.prev[l.next[del]] = l.prev[del],
                 !.next[l.prev[del]] = l.next[del],
                 !.head[h] = IF @ = del THEN l.next[del] ELSE @]

CDL_REPLACE_ELEM(l, h, el, add) ==
  IF l.next[el] = el
  THEN [l EXCEPT !.next[add] = add, !.prev[add] = add, !.head[h] = add]
  ELSE [l EXCEPT !.next = [@ EXCEPT ![add] = l.next[el], ![l.prev[el]] = add],
                 !.prev = [@ EXCEPT ![add] = l.prev[el], ![l.next[el]] = add],
                 !.head[h] = IF @ = el THEN add ELSE @]

CDL_PREPEND_ELEM(l, h, el, add) ==
  IF el = NULL THEN CDL_APPEND(l, h, add)
  ELSE [l EXCEPT !.next = [@ EXCEPT ![add] = el, ![l.prev[el]] = add],
                 !.prev = [@ EXCEPT ![add] = l.prev[el], ![el] = add],
                 !.head[h] = IF @ = el THEN add ELSE @]

CDL_APPEND_ELEM(l, h, el, add) ==
  IF el = NULL THEN CDL_PREPEND(l, h, add)
  ELSE [l EXCEPT !.next = [@ EXCEPT ![add] = l.next[el], ![el] = add],
                 !.prev = [@ EXCEPT ![add] = el, ![l.next[el]] = add]]

CDL_INSERT_INORDER(l, h, add) ==
  IF l.head[h] = NULL THEN [l EXCEPT !.head[h] = add, !.prev[add] = add, !.next[add] = add]
  ELSE CDL_APPEND_ELEM(l, h, CDL_LOWER_BOUND(l, h, add), add)

CDL_SORT(l, h) ==
  LET s == MergeSort(CDL_FOREACH(l, h))
  IN  IF l.head[h] = NULL THEN l
      ELSE [l EXCEPT !.head[h] = Head(s), !.next = Chained(@, s, Head(s)),
                     !.prev = Chained(@, Reverse(s), Last(s))]

=============================================================================
