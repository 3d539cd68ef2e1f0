SPECIFICATION Spec
CONSTANTS
  c1 = c1
  c2 = c2
  a = a
  b = b
  Clients = {c1, c2}
  Ids = {a, b}
  Mine <- OwnEvents
  Secondaries <- TwoIndexes
  SyncMode = "always"
  Scheduler = FALSE
  CheckpointEvery = 2
  CloseWaits = TRUE
  Reuse = TRUE
  Partitioned = FALSE
  LostFiles <- AllOrPrimary
  MaxCalls = 4
  MaxOpens = 2
  MaxCrashes = 0
  MaxFaults = 0
  MaxDamage = 1
CHECK_DEADLOCK FALSE
INVARIANTS RewrittenRetrievable GoneFromQueries IndexesAgree
