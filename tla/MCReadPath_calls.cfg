SPECIFICATION Spec
CONSTANTS
  Span = 4
  MaxTime = 15
  Events <- MCEvents
  TagTypes <- MCTagTypes
  KeyPart <- MCKeyPart
  Folded <- MCFolded
  DefaultKinds <- MCDefaultKinds
  MaxKinds = 2
  MaxTagValues = 3
  TopField = 20
  MaxAttempts = 3
  MaxRepeats = 8
  Stored <- MCStored
  Unreadable = {2, 3}
  Filters <- MCFilters
  DeleteFilters <- MCDeleteFilters
  AggQueries <- MCAggQueries
  Now = 9
  FullyIndexedCountLimit = 4
  NotFullyIndexedCountLimit = 3
  MaxAggGroupKeys = 4
  MaxCalls = 1
  Batched <- MCBatched
  MaxUpdates = 1
  MaxTrouble = 1
INVARIANTS NewestFirst OnlyMatching NothingMissed NeverSpins NoGhosts DeletesAllMatching CountExact AggregationExact
CHECK_DEADLOCK FALSE
