SPECIFICATION Spec
CONSTANTS
  ThreadSets <- OneSet
  MAX_SUPPORTED_THREADS = 2
  CYCLE_COUNT = 2
INVARIANTS
  SetCompleteMeansEnded
CHECK_DEADLOCK FALSE
