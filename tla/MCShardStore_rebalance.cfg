SPECIFICATION Spec
CONSTANTS
  s1 = s1
  s2 = s2
  s3 = s3
  a = a
  b = b
  Nodes <- MCNodes
  Keys <- MCKeys
  VirtualNodes = 2
  HashSpace = 12
  NodeHash <- MCNodeHash
  KeyHash <- MCKeyHash
  NoNode = NoNode
  Clients = {c1}
  Events <- MCEvents
  Pubkey <- MCPubkey
  CreatedAt <- MCCreatedAt
  Filters <- MCFilters
  Limits = {0, 1}
  EnableDedupe = TRUE
  DryRun = FALSE
  First <- MCFirst
  MaxAdds = 1
  MaxWork = 1
  MaxTroubles = 0
INVARIANTS OwnerHolds
CHECK_DEADLOCK FALSE
