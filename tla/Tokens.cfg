SPECIFICATION FairSpec
CONSTANTS
  Fetchers = {g1, g2}
  NoFetcher = NoFetcher
  MaxPair = 3
  Lives = {"long", "short", "unknown"}
  Faults = {"network", "refuse", "omit"}
INVARIANTS RenewedOnce NewestPair ExpiredHasCause
PROPERTY EveryFetchEnds
