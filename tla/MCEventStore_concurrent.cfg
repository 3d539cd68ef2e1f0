SPECIFICATION Spec
CONSTANTS
  c1 = c1
  c2 = c2
  a = a
  b = b
  Clients = {c1, c2}
  Ids = {a}
  Mine <- AllMine
  Secondaries <- OneIndex
  SyncMode = "batch"
  Scheduler = TRUE
  CheckpointEvery = 0
  CloseWaits = FALSE
  Reuse = TRUE
  Partitioned = FALSE
  LostFiles <- AnyFile
  MaxCalls = 2
  MaxOpens = 2
  MaxCrashes = 1
  MaxFaults = 1
  MaxDamage = 0
CHECK_DEADLOCK FALSE
INVARIANTS Located
