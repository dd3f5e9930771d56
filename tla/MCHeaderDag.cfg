CONSTANTS
  VirtualGenesis = 0
  Genesis = 1
  NoBlock = 99
  Word = 24
  ReindexSlack = 1
  ReindexWindow = 1
  K = 1
  Work <- MCWork
  Arrival <- MCArrival
  MergeSetSizeLimit = 4
  MergeDepth = 2
  FinalityDepth = 3
SPECIFICATION Spec
INVARIANTS
  NeverFails
  ReachabilityCorrect
  BlueSetsAreKClusters
  SelectedChainIndexed
  DepthPointsExact
CHECK_DEADLOCK FALSE
