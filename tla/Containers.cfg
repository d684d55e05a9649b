SPECIFICATION Spec
CONSTANTS
  Values = {1, 2}
  Zero = 0
  Raw = Raw
  Bad = Bad
  NULL = NULL
  MaxSlots = 4
  InitialSlots = 1
  MaxLen = 4
  Elts = {1, 2, 3, 4}
  Stacks = {"s", "t"}
  Heads = {"a", "b"}
  RankOf <- Ranks
  KeyOf <- Key
  HashOf <- Hashed
  HASH_INITIAL_NUM_BUCKETS = 1
  HASH_BKT_CAPACITY_THRESH = 1
  MaxAdded = 1
  MaxBuckets = 16
  Chars = {1, 2}
  NUL = 0
  Garbage = 3
  InitialSize = 2
  MaxNeedle = 4
INVARIANTS
  HashWellFormed
  ListKindsAgree
  WalksMeetAll
  ArraySlotsExact
  RingDestroyedOnce
  StackLastInFirstOut
  StringTerminated
  StringFindsExactly
PROPERTIES
  HashImplementsMap
  ListImplementsOrder
  ArrayImplementsVector
  RingRemembersLast
  StringAppendsExactly
