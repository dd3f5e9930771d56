SPECIFICATION Spec
CONSTANTS
  Dialler = Dialler
  Listener = Listener
  NoConnection = NoConnection
  RouteCapacity = 1
  Settings <- MCSettings
  Address <- MCAddress
  Routable <- MCAddress
  maxAddresses = 2
  connectionFailedCountForRemove = 2
  targetOutgoing = 1
  maxIncoming = 1
  AddPeers <- MCAddPeers
  Inbound <- MCInbound
  MaxEvents = 2
INVARIANTS
  NoFlowMessageIsEarly
  PeersExact
  NoEndIsStuck
PROPERTIES
  LoopKeepsItsConnections
CHECK_DEADLOCK FALSE
