---------------------------- MODULE UtListClient -----------------------------
(***************************************************************************)
(* One client of lists of each kind: what it does to one it does to the    *)
(* others.  It frees what it deletes, and while it walks a list with a     *)
(* FOREACH_SAFE it deletes only the element it is at.                      *)
(***************************************************************************)
EXTENDS UtList

VARIABLES
  ll, dl, cdl,
  walk,      \* the list walked, or NULL
  el, tmp,   \* the variables of each kind's FOREACH_SAFE; CDL's tmp1 is last
  last,
  begun, met \* history: the order when the walk began, the elements met

vars == <<ll, dl, cdl, walk, el, tmp, last, begun, met>>
lists == <<ll, dl, cdl>>
walkvars == <<walk, el, tmp, last, begun, met>>

Kinds == {"ll", "dl", "cdl"}

Init ==
  /\ ll = NoLL /\ dl = NoDL /\ cdl = NoDL
  /\ walk = NULL
  /\ el = [k \in Kinds |-> NULL] /\ tmp = el /\ last = NULL
  /\ begun = <<>> /\ met = [k \in Kinds |-> <<>>]

Free(e) == \A h \in Heads : e \notin ToSet(LL_FOREACH(ll, h))
In(h, e) == e \in ToSet(LL_FOREACH(ll, h))

\* Nothing reads the links of an element that has left its list.
Unlinked(links, e) == [links EXCEPT ![e] = NULL]
Freed(l, e) == [l EXCEPT !.next = Unlinked(@, e), !.prev = Unlinked(@, e)]
FreedLL(l, e) == [l EXCEPT !.next = Unlinked(@, e)]

Prepend(h, e) ==
  /\ walk = NULL /\ Free(e)
  /\ ll' = LL_PREPEND(ll, h, e) /\ dl' = DL_PREPEND(dl, h, e) /\ cdl' = CDL_PREPEND(cdl, h, e)
  /\ UNCHANGED walkvars

AppendTo(h, e) ==
  /\ walk = NULL /\ Free(e)
  /\ ll' = LL_APPEND(ll, h, e) /\ dl' = DL_APPEND(dl, h, e) /\ cdl' = CDL_APPEND(cdl, h, e)
  /\ UNCHANGED walkvars

InsertInorder(h, e) ==
  /\ walk = NULL /\ Free(e)
  /\ ll' = LL_INSERT_INORDER(ll, h, e)
  /\ dl' = DL_INSERT_INORDER(dl, h, e)
  /\ cdl' = CDL_INSERT_INORDER(cdl, h, e)
  /\ UNCHANGED walkvars

\* Next to an element of the list, or to NULL for its end or its front.
PrependElem(h, at, e) ==
  /\ walk = NULL /\ Free(e) /\ (at = NULL \/ In(h, at))
  /\ ll' = LL_PREPEND_ELEM(ll, h, at, e)
  /\ dl' = DL_PREPEND_ELEM(dl, h, at, e)
  /\ cdl' = CDL_PREPEND_ELEM(cdl, h, at, e)
  /\ UNCHANGED walkvars

AppendElem(h, at, e) ==
  /\ walk = NULL /\ Free(e) /\ (at = NULL \/ In(h, at))
  /\ ll' = LL_APPEND_ELEM(ll, h, at, e)
  /\ dl' = DL_APPEND_ELEM(dl, h, at, e)
  /\ cdl' = CDL_APPEND_ELEM(cdl, h, at, e)
  /\ UNCHANGED walkvars

ReplaceElem(h, at, e) ==
  /\ walk = NULL /\ Free(e) /\ In(h, at)
  /\ ll' = FreedLL(LL_REPLACE_ELEM(ll, h, at, e), at)
  /\ dl' = Freed(DL_REPLACE_ELEM(dl, h, at, e), at)
  /\ cdl' = Freed(CDL_REPLACE_ELEM(cdl, h, at, e), at)
  /\ UNCHANGED walkvars

Delete(h, e) ==
  /\ In(h, e)
  /\ walk # NULL => walk = h /\ \A k \in Kinds : el[k] = e
  /\ ll' = FreedLL(LL_DELETE(ll, h, e), e)
  /\ dl' = Freed(DL_DELETE(dl, h, e), e)
  /\ cdl' = Freed(CDL_DELETE(cdl, h, e), e)
  /\ UNCHANGED walkvars

\* There is no CDL_CONCAT: the client moves the elements.
Moved(l, h, g) ==
  LET s == CDL_FOREACH(l, g)
      after[k \in 0 .. Len(s)] ==
        IF k = 0 THEN l ELSE CDL_APPEND(CDL_DELETE(after[k - 1], g, s[k]), h, s[k])
  IN  after[Len(s)]

\* The client forgets its second head.
Concat(h, g) ==
  /\ walk = NULL /\ h # g
  /\ ll' = [LL_CONCAT(ll, h, g) EXCEPT !.head[g] = NULL]
  /\ dl' = [DL_CONCAT(dl, h, g) EXCEPT !.head[g] = NULL]
  /\ cdl' = Moved(cdl, h, g)
  /\ UNCHANGED walkvars

Sort(h) ==
  /\ walk = NULL
  /\ ll' = LL_SORT(ll, h) /\ dl' = DL_SORT(dl, h) /\ cdl' = CDL_SORT(cdl, h)
  /\ UNCHANGED walkvars

\* FOREACH_SAFE: LL and DL read the next element before the body, CDL also
\* the last one before it starts.
NextOf(e) == [ll |-> IF e.ll = NULL THEN NULL ELSE ll.next[e.ll],
              dl |-> IF e.dl = NULL THEN NULL ELSE dl.next[e.dl],
              cdl |-> IF e.cdl = NULL THEN NULL ELSE cdl.next[e.cdl]]
Meet(e) == [k \in Kinds |-> IF e[k] = NULL THEN met[k] ELSE Append(met[k], e[k])]

StartWalk(h) ==
  /\ walk = NULL
  /\ walk' = h
  /\ el' = [ll |-> ll.head[h], dl |-> dl.head[h], cdl |-> cdl.head[h]]
  /\ tmp' = NextOf(el')
  /\ last' = IF cdl.head[h] = NULL THEN NULL ELSE cdl.prev[cdl.head[h]]
  /\ begun' = LL_FOREACH(ll, h)
  /\ met' = Meet(el')
  /\ UNCHANGED lists

CDL_FOREACH_SAFE_AtHead(h) == IF tmp.cdl = cdl.head[h] THEN NULL ELSE tmp.cdl
CDL_FOREACH_SAFE(h) == IF el.cdl = last THEN NULL ELSE tmp.cdl

StepWalk ==
  /\ walk # NULL /\ \E k \in Kinds : el[k] # NULL
  /\ el' = [tmp EXCEPT !.cdl = CDL_FOREACH_SAFE(walk)]
  /\ tmp' = NextOf(el')
  /\ met' = Meet(el')
  /\ UNCHANGED <<lists, walk, last, begun>>

EndWalk ==
  /\ walk # NULL /\ \A k \in Kinds : el[k] = NULL
  /\ walk' = NULL /\ last' = NULL
  /\ tmp' = [k \in Kinds |-> NULL]
  /\ begun' = <<>> /\ met' = [k \in Kinds |-> <<>>]
  /\ UNCHANGED <<lists, el>>

Next ==
  \/ \E h \in Heads, e \in Elts :
       \/ Prepend(h, e) \/ AppendTo(h, e) \/ InsertInorder(h, e) \/ Delete(h, e)
       \/ \E at \in Pointer : PrependElem(h, at, e) \/ AppendElem(h, at, e)
       \/ \E at \in Elts : ReplaceElem(h, at, e)
  \/ \E h, g \in Heads : Concat(h, g)
  \/ \E h \in Heads : Sort(h) \/ StartWalk(h)
  \/ StepWalk \/ EndWalk

Spec == Init /\ [][Next]_vars

-----------------------------------------------------------------------------
(* Properties *)

\* The links back mirror the links on; the head of a doubly linked list knows
\* its tail, whose next is NULL, and a circular list closes both ways.
BackLinked ==
  \A h \in Heads :
    LET s == DL_FOREACH(dl, h)
        c == CDL_FOREACH(cdl, h)
    IN  /\ \A i \in DOMAIN s : dl.prev[s[i]] = s[IF i = 1 THEN Len(s) ELSE i - 1]
        /\ \A i \in DOMAIN c : /\ cdl.prev[c[i]] = c[IF i = 1 THEN Len(c) ELSE i - 1]
                               /\ cdl.next[c[i]] = c[IF i = Len(c) THEN 1 ELSE i + 1]

\* After the same calls the three kinds hold the same sequence, count it alike
\* and find the same element.
KindsAgree ==
  \A h \in Heads :
    /\ LL_FOREACH(ll, h) = DL_FOREACH(dl, h) /\ LL_FOREACH(ll, h) = CDL_FOREACH(cdl, h)
    /\ LL_COUNT(ll, h) = CDL_COUNT(cdl, h) /\ DL_COUNT(dl, h) = CDL_COUNT(cdl, h)
    /\ \A e \in Elts : /\ LL_SEARCH(ll, h, e) = CDL_SEARCH(cdl, h, e)
                        /\ LL_LOWER_BOUND(ll, h, e) = CDL_LOWER_BOUND(cdl, h, e)
                        /\ DL_LOWER_BOUND(dl, h, e) = CDL_LOWER_BOUND(cdl, h, e)

\* A walk that deletes as it goes meets every element once, in order, and ends:
\* whatever the kind.
WalkMeetsAll ==
  walk # NULL =>
    /\ \A k \in Kinds : IsPrefix(met[k], begun)
    /\ \A k \in Kinds : el[k] = NULL => met[k] = begun

\* The lists are sequences: every macro is one of the operations on them.
Order == INSTANCE OrderedLists WITH order <- [h \in Heads |-> CDL_FOREACH(cdl, h)]
ImplementsOrder == Order!Spec

=============================================================================
