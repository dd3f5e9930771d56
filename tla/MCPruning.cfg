SPECIFICATION SyncSpec
CONSTANTS
  Order <- MCOrder
  Parents <- MCParents
  Spends <- MCSpends
  Graph <- MCGraph
  Genesis = 0
  VirtualGenesis <- MCVirtualGenesis
  NoBlock <- MCNoBlock
  K = 2
  FinalityInterval = 4
  MergeDepth = 3
  PruningDepth = 9
  WindowSize = 1
  MaxCrashes = 1
  Step = 3
  BatchSize = 2
INVARIANTS
  UTXOSetFitsCommitment
  PruningPointsFormValidChain
  NeededDataIsKept
  CompleteTransferFitsCommitment
PROPERTIES
  TransferEnds
CHECK_DEADLOCK FALSE
