SPECIFICATION FairSpec
CONSTANTS
  SyncMode = "batch"
  MaxSegmentSize = 3
  BatchSize = 2
  MaxBatch = 2
  MaxId = 4
  MaxSegments = 3
  MaxCrashes = 2
  MaxFaults = 1
  Faults <- RetryableFaults
  TornWrites = FALSE
INVARIANTS FlushedReadable
PROPERTIES EventuallyFlushed
CHECK_DEADLOCK FALSE
