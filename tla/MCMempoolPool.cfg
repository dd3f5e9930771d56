CONSTANTS
  parent = parent
  child = child
  rival = rival
  Tx <- MCTx
  Root = Root
  RootOutputs = 2
  Inputs <- MCInputs
  Outputs <- MCOutputs
  FeeRate <- MCFeeRate
  MaximumTransactionCount = 2
  MaximumOrphanTransactionCount = 1
  TransactionExpireInterval = 0
  TransactionExpireScanInterval = 1
  OrphanExpireInterval = 0
  OrphanExpireScanInterval = 1
  MaxDAA = 1
  Word = 16
  MaxOrderLength = 3
SPECIFICATION Spec
INVARIANTS OrphanIndexExact ParentsTracked EvictionSeesAll
