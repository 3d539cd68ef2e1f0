SPECIFICATION Spec
CONSTANTS
  c1 = c1
  c2 = c2
  a = a
  b = b
  Clients = {c1}
  Ids = {a, b}
  Mine <- AllMine
  Secondaries <- TwoIndexes
  SyncMode = "always"
  Scheduler = FALSE
  CheckpointEvery = 2
  CloseWaits = TRUE
  Reuse = FALSE
  Partitioned = TRUE
  LostFiles <- AnyFile
  MaxCalls = 4
  MaxOpens = 3
  MaxCrashes = 1
  MaxFaults = 0
  MaxDamage = 0
CHECK_DEADLOCK FALSE
SYMMETRY Events
INVARIANTS WriteAhead Retrievable Gone
