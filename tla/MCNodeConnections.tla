-------------------------- MODULE MCNodeConnections -------------------------
(* Instances of NodeConnections for model checking.                          *)
EXTENDS NodeConnections

Setting(flows, connections, broadcasts, ends, nodes) ==
  [flows |-> flows, connections |-> connections, broadcasts |-> broadcasts,
   disturbances |-> ends, banned |-> nodes, verdict |-> [n \in Node |-> NoError]]

MCSettings ==
  { \* One connection that is disturbed once, with a broadcast from each side.
    Setting({"HandleRelayInvs", "HandleRejects", "SendPings", "ReceivePings"}, 1, 1, 1, {}),
    Setting({"HandleRelayInvs", "SendVirtualSelectedParentInv"}, 1, 1, 1, {}),
    Setting({"HandleRejects", "SendAddresses", "ReceiveAddresses"}, 1, 0, 1, {}),
    \* A connection to a node that banned the dialler.
    Setting({"HandleRejects", "SendPings", "ReceivePings"}, 1, 0, 1, {Listener}),
    \* A dialler of another network, which both ban for, and one with an old protocol version.
    [Setting({"HandleRejects"}, 1, 0, 1, {}) EXCEPT !.verdict = [n \in Node |-> BanningError]],
    [Setting({"HandleRejects"}, 1, 1, 1, {}) EXCEPT !.verdict[Listener] = ProtocolError],
    \* Two connections at once.
    Setting({"HandleRejects"}, 2, 0, 0, {}),
    \* The connection manager.
    Setting({}, 0, 0, 0, {}) }

IPPort(i, p) == [ip |-> i, port |-> p]
MCAddress == {IPPort(1, 1), IPPort(2, 1)}
MCAddPeers == {IPPort(1, 1)}
MCInbound == {IPPort(1, 9), IPPort(3, 9)}

=============================================================================
