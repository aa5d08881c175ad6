SPECIFICATION FairSpec
CONSTANTS
  Handlers = {h1, h2}
  MaxRequests = 4
  MaxJobs = 1
  MaxBackups = 1
INVARIANTS WholeInventory RefreshDrops BarNeverStuck
PROPERTIES PercentGrows EveryLoadReturns
\* The run ends when MaxRequests requests have been served.
CHECK_DEADLOCK FALSE
