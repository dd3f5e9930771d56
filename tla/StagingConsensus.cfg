SPECIFICATION FairSpec
CONSTANTS
  None = None
  Peers = {p1, p2}
  Readers = {r1}
  MaxGen = 3
  MaxCrashes = 2
INVARIANTS
  NothingLeftBehind
  ServedConsensusIsWhole
PROPERTIES
  NodeComesUp
  OneConsensus
CHECK_DEADLOCK FALSE
