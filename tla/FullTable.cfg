SPECIFICATION FairSpec
CONSTANTS
  NumThreads = 3
  Sites <- MCSites
  NoSite = ""
  SHM_SIZE = 2
  Ops <- WriteOps
  MAX_ACCESS_LOG_ENTRIES = 3
  NEAR_MISS_THRESHOLD = 1
  StartTime = 2
  MaxTime = 3
  MAX_SHM_TRAPS = 2
  DEFAULT_DELAY = 0
  CYCLE_COUNT = 1
  MaxCalls = 1
  Values = {0}
PROPERTIES
  ReportsAreRealRaces
  CallsReturn
