SPECIFICATION Spec
CONSTANTS
  SyncMode = "batch"
  MaxSegmentSize = 3
  BatchSize = 2
  MaxBatch = 2
  MaxId = 4
  MaxSegments = 2
  MaxCrashes = 2
  MaxFaults = 1
  Faults <- AllFaults
  TornWrites = TRUE
INVARIANTS FlushedDurable AcceptedNotLost HeaderBacked
PROPERTIES AppendOnly ImplementsDurableLog
CHECK_DEADLOCK FALSE
