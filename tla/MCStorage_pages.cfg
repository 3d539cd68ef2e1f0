SPECIFICATION Spec
CONSTANTS
  e1 = e1  e2 = e2  e3 = e3  e4 = e4
  Events = {e1, e2, e3, e4}
  Payload <- MCPayload
  Malformed = {e2}
  Singles = {e1, e3}
  Writers = {1, 2}
  Batches <- MCBatches
  PageSize = 160
  MaxSegmentSize = 790
  MaxRecord = 100000
  FragPercent = 20
  MaxSegments = 8
  MaxDeletes = 1
  MaxStops = 1
  MaxTurns = 2
  MaxFlushes = 1
  MaxCompactions = 1
INVARIANTS AckedReadable RecoveryFinds RotationsBounded
CHECK_DEADLOCK FALSE
