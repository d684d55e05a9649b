------------------------------- MODULE UtStack -------------------------------
(***************************************************************************)
(* The macros of utstack.h on several stacks that share their elements: an *)
(* element has one link, and POP leaves it as it is.  The client pops only *)
(* a stack that is not empty.                                              *)
(***************************************************************************)
EXTENDS Integers, Sequences, FiniteSets

CONSTANTS
  Elts, Stacks,
  NULL     \* not an element

VARIABLES
  head,     \* of each stack
  next,     \* of each element
  pushed    \* history: what was pushed on each stack and not popped, last first

vars == <<head, next, pushed>>

Init ==
  /\ head = [s \in Stacks |-> NULL]
  /\ next \in [Elts -> {NULL}]
  /\ pushed = [s \in Stacks |-> <<>>]

STACK_EMPTY(s) == head[s] = NULL
STACK_TOP(s) == head[s]

\* From each element, as far as k of them.
Links(link) ==
  LET N == Cardinality(Elts) + 1
      from[k \in 0 .. N] ==
        [q \in Elts \cup {NULL} |-> IF q = NULL \/ k = 0 THEN <<>> ELSE <<q>> \o from[k - 1][link[q]]]
  IN  [s \in Stacks |-> from[N][head[s]]]

STACK_COUNT(s) == Len(Links(next)[s])

LinkOf_Kept(s, add) == next
LinkOf(s, add) == [next EXCEPT ![add] = head[s]]

Push(s, add) ==
  /\ \A t \in Stacks : \A k \in DOMAIN pushed[t] : pushed[t][k] # add
  /\ next' = LinkOf(s, add)
  /\ head' = [head EXCEPT ![s] = add]
  /\ pushed' = [pushed EXCEPT ![s] = <<add>> \o @]

Pop(s) ==
  /\ ~ STACK_EMPTY(s)
  /\ head' = [head EXCEPT ![s] = next[@]]
  /\ pushed' = [pushed EXCEPT ![s] = Tail(@)]
  /\ UNCHANGED next

Next == \E s \in Stacks : Pop(s) \/ \E add \in Elts : Push(s, add)
Spec == Init /\ [][Next]_vars

\* Each stack is last in, first out, whatever link an element still has from
\* the stack it was popped from.
LastInFirstOut ==
  \A s \in Stacks :
    /\ Links(next)[s] = pushed[s]
    /\ STACK_COUNT(s) = Len(pushed[s])
    /\ STACK_EMPTY(s) <=> pushed[s] = <<>>
    /\ pushed[s] # <<>> => STACK_TOP(s) = pushed[s][1]
=============================================================================
