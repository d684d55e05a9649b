SPECIFICATION Spec
CONSTANTS
  NumThreads = 2
  Sites <- MCSites
  NoSite = ""
  SHM_SIZE = 2
  Ops <- MixedOps
  MAX_ACCESS_LOG_ENTRIES = 3
  NEAR_MISS_THRESHOLD = 1
  StartTime = 2
  MaxTime = 4
  MAX_SHM_TRAPS = 2
  DEFAULT_DELAY = 0
  CYCLE_COUNT = 1
  MaxCalls = 2
  Values = {0}
PROPERTIES
  FlushKeepsRecent
