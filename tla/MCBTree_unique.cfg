SPECIFICATION Spec
CONSTANTS
  N = 10
  Long = {3, 4, 8}
  Copies = 1
  Entries <- MCEntries
  KeyLen <- MCKeyLen
  PageSize = 148
  Loads <- MCLoads
  ByLocation = FALSE
  Reinsert = TRUE
  Ranges <- MCRanges
  MaxNoProgress = 2
  MaxWrites = 2
  MaxEvictions = 1
  MaxTurns = 1
INVARIANTS TreeShape Exact Found ScanExact KeysLived
CHECK_DEADLOCK FALSE
