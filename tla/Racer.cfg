SPECIFICATION FairSpec
CONSTANTS
  ThreadSets <- MCThreadSets
  MAX_SUPPORTED_THREADS = 3
  CYCLE_COUNT = 2
INVARIANTS
  TypeOK
  NeverOverCounted
  ExactUntilTimeout
  TimeoutCancelsAll
PROPERTIES
  ResetsAloneUntilTimeout
  MainLeaves
CHECK_DEADLOCK FALSE
