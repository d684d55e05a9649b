SPECIFICATION Spec
CONSTANTS
  HalfWord = 8
  UsecWord = 4
  ExactBelow = 8
  MS_SEC_CONVERSION = 2
  NEAR_MISS_THRESHOLD = 1
  Threads = {t1, t2, t3}
  Sites = {x}
  Nobody = Nobody
  SetBack = TRUE
  MaxSeconds = 1
  MaxCount = 2
  MaxHazards = 2
  MaxDecay = 1
SYMMETRY AlikeThreads
INVARIANTS
  StaleUnlessRecent
  AverageBetween
