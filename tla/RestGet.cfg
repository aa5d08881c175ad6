SPECIFICATION FairSpec
CONSTANTS
  Getters = {g1, g2}
  Paths = {jobs}
  Cacheable = {jobs}
  NoGetter = NoGetter
  NoPath = NoPath
  CacheTTL = 1
  StaleTTL = 2
  Budget = 1
  MaxVersion = 2
INVARIANTS SingleFlight NoGoingBack AgeOfInformation
PROPERTIES ReadsSpec EveryGetReturns
