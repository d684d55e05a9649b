------------------------------ MODULE Containers ------------------------------
(***************************************************************************)
(* The array, the ring buffer, the stack, the string, the lists and the    *)
(* hash table of the ut headers: what they are given, what they promise,   *)
(* and one specification that is a client of any one of them.              *)
(***************************************************************************)
EXTENDS Slots, Integers, FiniteSets

CONSTANTS
  InitialSlots, MaxLen,                          \* UtArray; MaxLen of UtString too
  MaxSlots,                                      \* UtRingBuffer
  Elts, Stacks,                                  \* UtStack; Elts of all that follow
  Chars, NUL, Garbage, InitialSize, MaxNeedle,   \* UtString
  Heads, RankOf,                                 \* UtListClient; RankOf of UtHash too
  KeyOf, HashOf, HASH_INITIAL_NUM_BUCKETS,       \* UtHashClient
  HASH_BKT_CAPACITY_THRESH, MaxAdded, MaxBuckets

VARIABLES
  client,                 \* which container is used
  a, w,                   \* UtArray
  ri, rn, rf, rd,         \* UtRingBuffer
  head, next, pushed,     \* UtStack
  s, other,               \* UtString
  ll, dl, cdl, walk, lel, ltmp, last, lbegun, lmet,   \* UtListClient
  table, hel, htmp, walking, hbegun, hmet             \* UtHashClient

\* What the client and the allocation give: elements that can be compared.
ArrayAssumption ==
  /\ InitialSlots \in Nat \ {0} /\ MaxLen \in Nat
  /\ Values \subseteq Int /\ Zero \in Int
  /\ Raw \notin Values \cup {Zero} /\ Bad \notin Values \cup {Zero} /\ Raw # Bad

\* A ring has a slot, and a pointer is not the index of one.
RingAssumption == MaxSlots \in Nat \ {0} /\ NULL \notin Int

\* Finitely many elements, and NULL points to none of them.
StackAssumption == IsFiniteSet(Elts) /\ NULL \notin Elts

\* utstring_init allocates something.
StringAssumption == InitialSize \in Nat \ {0}

\* A list is not NULL either, and elements can be compared.
ListAssumption == NULL \notin Heads /\ RankOf \in [Elts -> Int]

\* A table starts with a bucket at least, and hashes are unsigned.
HashAssumption ==
  /\ HASH_INITIAL_NUM_BUCKETS \in Nat \ {0} /\ HASH_BKT_CAPACITY_THRESH \in Nat
  /\ HashOf \in [{ KeyOf[e] : e \in Elts } -> Nat]

ASSUME ContainersAssumption ==
  /\ ArrayAssumption /\ RingAssumption /\ StackAssumption
  /\ StringAssumption /\ ListAssumption /\ HashAssumption

Array == INSTANCE UtArray
Ring == INSTANCE UtRingBuffer WITH i <- ri, n <- rn, f <- rf, d <- rd
Stack == INSTANCE UtStack
String == INSTANCE UtString
List == INSTANCE UtListClient WITH
          el <- lel, tmp <- ltmp, begun <- lbegun, met <- lmet
Hash == INSTANCE UtHashClient WITH
          el <- hel, tmp <- htmp, begun <- hbegun, met <- hmet

-----------------------------------------------------------------------------
(* The client *)

hashvars == <<table, hel, htmp, walking, hbegun, hmet>>
listvars == <<ll, dl, cdl, walk, lel, ltmp, last, lbegun, lmet>>
arrayvars == <<a, w>>
ringvars == <<ri, rn, rf, rd>>
stackvars == <<head, next, pushed>>
stringvars == <<s, other>>

Init ==
  /\ client \in {"hash", "list", "array", "ring", "stack", "string"}
  /\ Hash!Init /\ List!Init /\ Array!Init /\ Ring!Init /\ Stack!Init /\ String!Init

Next ==
  /\ UNCHANGED client
  /\ \/ /\ client = "hash" /\ Hash!Next
        /\ UNCHANGED <<listvars, arrayvars, ringvars, stackvars, stringvars>>
     \/ /\ client = "list" /\ List!Next
        /\ UNCHANGED <<hashvars, arrayvars, ringvars, stackvars, stringvars>>
     \/ /\ client = "array" /\ Array!Next
        /\ UNCHANGED <<hashvars, listvars, ringvars, stackvars, stringvars>>
     \/ /\ client = "ring" /\ Ring!Next
        /\ UNCHANGED <<hashvars, listvars, arrayvars, stackvars, stringvars>>
     \/ /\ client = "stack" /\ Stack!Next
        /\ UNCHANGED <<hashvars, listvars, arrayvars, ringvars, stringvars>>
     \/ /\ client = "string" /\ String!Next
        /\ UNCHANGED <<hashvars, listvars, arrayvars, ringvars, stackvars>>

Spec ==
  Init /\ [][Next]_<<client, hashvars, listvars, arrayvars, ringvars, stackvars, stringvars>>

-----------------------------------------------------------------------------
(* Properties *)

\* An element of an array is constructed and destroyed exactly once, and
\* nothing is written past the slots.
ArraySlotsExact == Array!SlotsExact

\* An array is a sequence of copies.
ArrayImplementsVector == Array!ImplementsVector

\* An element of a ring is destroyed exactly once.
RingDestroyedOnce == Ring!DestroyedOnce

\* A ring is the history of the last n values pushed.
RingRemembersLast == Ring!RemembersLast

\* Each stack is last in, first out.
StackLastInFirstOut == Stack!LastInFirstOut

\* The string has its NUL and the room for it.
StringTerminated == String!Terminated

\* Each operation on it appends the text it was given, and no other.
StringAppendsExactly == String!AppendsExactly

\* Both searches in it find what there is to find.
StringFindsExactly == String!FindsFirst /\ String!FindsLast

\* The three kinds of list agree, and their links mirror each other.
ListKindsAgree == List!BackLinked /\ List!KindsAgree

\* They are sequences.
ListImplementsOrder == List!ImplementsOrder

\* The hash table is sound, is found in exactly, and keeps its chains short.
HashWellFormed == Hash!WellFormed /\ Hash!FindsExactly /\ Hash!ChainsBounded

\* It is a map with an order.
HashImplementsMap == Hash!ImplementsMap

\* Every way to walk a container meets each of its elements once, in order, and
\* ends: HASH_ITER and FOREACH_SAFE with a body that deletes, next and prev.
WalksMeetAll ==
  /\ client = "hash" => Hash!WalkMeetsAll
  /\ client = "list" => List!WalkMeetsAll
  /\ client = "array" => Array!WalksMirror
  /\ client = "ring" => Ring!WalksMirror
=============================================================================
