SPECIFICATION FairSpec
CONSTANTS
  G = G
  A1 = A1
  A2 = A2
  B1 = B1
  B2 = B2
  B3 = B3
  C = C
  D = D
  Block <- MCForkBlock
  Genesis = G
  None = None
  Parents <- MCForkParents
  Order <- MCForkOrder
  Transactions <- MCTransactions
  PastUTXO <- MCPastUTXO
  BadHeader = {}
  FinalityDepth = 2
  VirtualResolveChunk = 1
  IBD = TRUE
  CrashPoints = {}
PROPERTIES
  CatchesUp FinalityHolds

