SPECIFICATION Spec
SYMMETRY Symmetry
CONSTANTS
  Kinds = {"job", "vm"}
  Job = "job"
  Refreshes = {r1, r2}
  Disconnects = {d1, d2}
  MaxSessions = 2
INVARIANT RowsOfSelection
PROPERTIES OnlyLateInventoryMixes StuckOnlyByRefresh OrphanedOnlyByLoss
