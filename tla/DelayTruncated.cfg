SPECIFICATION Spec
CONSTANTS
  HalfWord = 32
  UsecWord = 8
  ExactBelow = 16
  MS_SEC_CONVERSION = 3
  NEAR_MISS_THRESHOLD = 2
  Threads = {t1, t2, t3}
  Sites = {x}
  Nobody = Nobody
  SetBack = FALSE
  MaxSeconds = 3
  MaxCount = 2
  MaxHazards = 2
  MaxDecay = 1
SYMMETRY AlikeThreads
INVARIANTS
  SleepsTheDelay
