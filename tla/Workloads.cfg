SPECIFICATION FairSpec
CONSTANTS
  NumThreads = 2
  Sites <- CallSites
  NoSite = ""
  SHM_SIZE = 48
  Ops = {}
  MAX_SHM_TRAPS = 2
  Programs <- MCPrograms
  Increments = 2
  Deliveries = 2
  Pickups = 1
INVARIANTS
  TypeOK
  OrderedNeverReported
  SecondAfterFirst
  RacesLoseNotAll
  OnlyCancellationLeaks
  CallsKeepTheirTraps
PROPERTIES
  ImplementsStore
  RoutinesEnd
CHECK_DEADLOCK FALSE
