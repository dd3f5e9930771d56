SPECIFICATION Spec
CONSTANTS
  G = G
  A1 = A1
  A2 = A2
  B1 = B1
  B2 = B2
  B3 = B3
  C = C
  D = D
  Block <- MCBlock
  Genesis = G
  None = None
  Parents <- MCParents
  Order <- MCOrder
  Transactions <- MCTransactions
  PastUTXO <- MCPastUTXO
  BadHeader = {C}
  FinalityDepth = 10
  VirtualResolveChunk = 2
  IBD = FALSE
  CrashPoints = {}
INVARIANTS
  RestoreCorrect
  VerdictSound
  VirtualWins
CHECK_DEADLOCK FALSE
