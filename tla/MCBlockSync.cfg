CONSTANTS
  Order <- MCOrder
  Parents <- MCParents
  Genesis = 0
  NoBlock <- MCNoBlock
  Peers <- MCPeers
  Known <- MCKnown
  Starts <- MCStarts
  OrphanResolutionRange = 4
  MaxOrphans = 4
  MergeDepth = 2
  NearlySyncedWindow = 3
  MaxDisconnects = 1
  MaxRestarts = 1
  MaxHeaders = 3
  MergeSetSizeLimit = 2
  HeadersQueue = 1
  IBDBatchSize = 2
SPECIFICATION Spec
INVARIANTS
  NodeBansNoPeer
  SyncMissesNothing
  NoFlowIsStuck
PROPERTIES
  SyncsTheRelayBlock
  UnorphansAll
CHECK_DEADLOCK FALSE
