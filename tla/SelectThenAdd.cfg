SPECIFICATION Spec
CONSTANTS
  Elts <- MCElts
  NULL = 0
  KeyOf <- MCKeyOf
  RankOf <- MCRankOf
  HashOf <- Mixed
  HASH_INITIAL_NUM_BUCKETS = 1
  HASH_BKT_CAPACITY_THRESH = 2
INVARIANTS
  SelectionChecked
