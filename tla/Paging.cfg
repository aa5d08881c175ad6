SPECIFICATION FairSpec
CONSTANTS
  Requests = {r1, r2}
  Keys = {k1, k2}
  NoKey = NoKey
  Limit = 2
  MaxLength = 4
  MaxLoads = 3
  MaxLists = 4
INVARIANTS OneSelection InPlace WholeList
PROPERTY EveryLoadSettles
\* The run ends when MaxLoads selections have been made.
CHECK_DEADLOCK FALSE
