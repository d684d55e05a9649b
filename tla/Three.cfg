SPECIFICATION Spec
CONSTANTS
  NumThreads = 3
  Sites <- MCSites
  NoSite = ""
  SHM_SIZE = 2
  Ops <- OverlapOps
  MAX_ACCESS_LOG_ENTRIES = 3
  NEAR_MISS_THRESHOLD = 1
  StartTime = 2
  MaxTime = 2
  MAX_SHM_TRAPS = 3
  DEFAULT_DELAY = 0
  CYCLE_COUNT = 2
  MaxCalls = 1
  Values = {0}
INVARIANTS
  ConcurrentConflictsReported
