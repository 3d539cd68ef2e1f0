SPECIFICATION LiveSpec
CONSTANTS
  c1 = c1
  c2 = c2
  a = a
  b = b
  Clients = {c1}
  Ids = {a}
  Mine <- AllMine
  Secondaries <- TwoIndexes
  SyncMode = "always"
  Scheduler = FALSE
  CheckpointEvery = 2
  CloseWaits = FALSE
  Reuse = TRUE
  Partitioned = TRUE
  LostFiles <- AnyFile
  MaxCalls = 2
  MaxOpens = 3
  MaxCrashes = 1
  MaxFaults = 1
  MaxDamage = 1
CHECK_DEADLOCK FALSE
PROPERTIES RecoveryEnds CallsReturn
