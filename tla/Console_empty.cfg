SPECIFICATION Spec
CONSTANTS
  Kinds = {"job", "vm"}
  Job = "job"
  Refreshes = {r1}
  Disconnects = {d1}
  MaxSessions = 2
PROPERTY ConnectShowsInventory
