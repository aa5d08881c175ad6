SPECIFICATION DetailSpec
CONSTANTS
  Requests = {r1, r2}
  Points <- MCPoints
  NoPoint = NoPoint
  NoVm = "none"
  NoJob = ""
  Clicked <- MCClicked
  JobOf <- MCJobOf
  VmsOf <- MCVmsOf
  AaipOn <- MCAaipOn
  Tasks <- MCTasks
  NoSession <- MCNoSession
  Expiring <- MCExpiring
  MaxNews = 2
  MaxFailed = 1
SYMMETRY Symmetry
INVARIANTS DetailTypeOK OneChain VerdictOfItsLog LoadingIsAwaited
PROPERTIES OnlyLangMixesPanes DetailIsTrue
