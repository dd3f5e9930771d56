CONSTANTS
  Outpoint <- MCOutpoint
  Amount <- MCAmount
  LastVirtual = 4
  VirtualUTXO <- MCVirtualUTXO
  Capacity = 2
  Step = 2
  Word = 16
  MaxCrashes = 2
  ExitWindow = FALSE
  None = None
SPECIFICATION Spec
INVARIANTS SyncedMeansSameOutpoints ReadersSeeOneVirtual
PROPERTY IndexCatchesUp
CHECK_DEADLOCK FALSE
