---- MODULE Routing ----
(***************************************************************************)
(* Which command a message announces (the Command methods of appmessage),  *)
(* and which route or handler is registered for a command: the flows of a  *)
(* peer (app/protocol), the handlers of the RPC server (app/rpc) and the   *)
(* routes of the RPC client (infrastructure/network/rpcclient).            *)
(***************************************************************************)
-----------------------------------------------------------------------------
(* Command *)

P2PCommand ==
    [BlockHeadersMessage |-> "BlockHeaders", MsgAddresses |-> "Addresses",
     MsgBlock |-> "Block", MsgBlockLocator |-> "BlockLocator",
     MsgBlockWithTrustedData |-> "BlockWithTrustedData",
     MsgBlockWithTrustedDataV4 |-> "BlockWithTrustedDataV4",
     MsgDoneBlocksWithTrustedData |-> "DoneBlocksWithTrustedData",
     MsgDoneHeaders |-> "DoneHeaders",
     MsgDonePruningPointUTXOSetChunks |-> "DonePruningPointUTXOSetChunks",
     MsgRequestPruningPointAndItsAnticone |-> "RequestPruningPointAndItsAnticone",
     MsgIBDBlock |-> "IBDBlock", MsgIBDBlockLocator |-> "IBDBlockLocator",
     MsgIBDBlockLocatorHighestHash |-> "IBDBlockLocatorHighestHash",
     MsgIBDBlockLocatorHighestHashNotFound |-> "IBDBlockLocatorHighestHashNotFound",
     MsgIBDChainBlockLocator |-> "IBDChainBlockLocator", MsgInvRelayBlock |-> "InvRelayBlock",
     MsgInvTransaction |-> "InvTransaction", MsgPing |-> "Ping", MsgPong |-> "Pong",
     MsgPruningPointProof |-> "PruningPointProof", MsgPruningPoints |-> "PruningPoints",
     MsgPruningPointUTXOSetChunk |-> "PruningPointUTXOSetChunk", MsgReject |-> "Reject",
     MsgRequestAddresses |-> "RequestAddresses", MsgRequestAnticone |-> "RequestAnticone",
     MsgRequestBlockLocator |-> "RequestBlockLocator", MsgRequestHeaders |-> "RequestHeaders",
     MsgRequestIBDBlocks |-> "RequestIBDBlocks",
     MsgRequestIBDChainBlockLocator |-> "RequestIBDChainBlockLocator",
     MsgRequestNextHeaders |-> "RequestNextHeaders",
     MsgRequestNextPruningPointAndItsAnticoneBlocks |-> "RequestNextPruningPointAndItsAnticoneBlocks",
     MsgRequestNextPruningPointUTXOSetChunk |-> "RequestNextPruningPointUTXOSetChunk",
     MsgRequestPruningPointProof |-> "RequestPruningPointProof",
     MsgRequestPruningPointUTXOSet |-> "RequestPruningPointUTXOSet",
     MsgRequestRelayBlocks |-> "RequestRelayBlocks",
     MsgRequestTransactions |-> "RequestTransactions",
     MsgTransactionNotFound |-> "TransactionNotFound", MsgTrustedData |-> "TrustedData",
     MsgTx |-> "Tx", MsgVerAck |-> "VerAck", MsgVersion |-> "Version", MsgReady |-> "Ready",
     MsgUnexpectedPruningPoint |-> "UnexpectedPruningPoint"]

\* The command of an RPC message has the name of its type, except that the two
\* messages that stop the pruning point notifications announce the commands of
\* those that start them.
RPCCommand(type) ==
    CASE type = "StopNotifyingPruningPointUTXOSetOverrideRequestMessage" ->
            "NotifyPruningPointUTXOSetOverrideRequestMessage"
      [] type = "StopNotifyingPruningPointUTXOSetOverrideResponseMessage" ->
            "NotifyPruningPointUTXOSetOverrideResponseMessage"
      [] OTHER -> type

-----------------------------------------------------------------------------
(* v5/register.go and protocol.go: the incoming routes of a peer's router. *)
(* The handshake's routes are there before the flows' and are removed when *)
(* the handshake is over.                                                  *)

HandshakeRoutes ==
    [ReceiveVersion |-> {"Version"}, SendVersion |-> {"VerAck"}, ReceiveReady |-> {"Ready"}]

AddressFlows ==
    [SendAddresses |-> {"RequestAddresses"},
     ReceiveAddresses |-> {"Addresses"}]

BlockRelayFlows ==
    [SendVirtualSelectedParentInv |-> {},
     HandleRelayInvs |-> {"InvRelayBlock", "Block", "BlockLocator"},
     HandleIBD |->
        {"DoneHeaders", "UnexpectedPruningPoint", "PruningPointUTXOSetChunk", "BlockHeaders",
         "IBDBlockLocatorHighestHash", "BlockWithTrustedDataV4", "DoneBlocksWithTrustedData",
         "IBDBlockLocatorHighestHashNotFound", "DonePruningPointUTXOSetChunks", "IBDBlock",
         "PruningPoints", "PruningPointProof", "TrustedData", "IBDChainBlockLocator"},
     HandleRelayBlockRequests |-> {"RequestRelayBlocks"},
     HandleRequestBlockLocator |-> {"RequestBlockLocator"},
     HandleRequestHeaders |-> {"RequestHeaders", "RequestNextHeaders"},
     HandleIBDBlockRequests |-> {"RequestIBDBlocks"},
     HandleRequestPruningPointUTXOSet |->
        {"RequestPruningPointUTXOSet", "RequestNextPruningPointUTXOSetChunk"},
     HandlePruningPointAndItsAnticoneRequests |->
        {"RequestPruningPointAndItsAnticone", "RequestNextPruningPointAndItsAnticoneBlocks"},
     HandleIBDBlockLocator |-> {"IBDBlockLocator"},
     HandleRequestIBDChainBlockLocator |-> {"RequestIBDChainBlockLocator"},
     HandleRequestAnticone |-> {"RequestAnticone"},
     HandlePruningPointProofRequests |-> {"RequestPruningPointProof"}]

PingFlows ==
    [ReceivePings |-> {"Ping"},
     SendPings |-> {"Pong"}]

TransactionRelayFlows ==
    [HandleRelayedTransactions |-> {"InvTransaction", "Tx", "TransactionNotFound"},
     HandleRequestTransactions |-> {"RequestTransactions"}]

RejectsFlows ==
    [HandleRejects |-> {"Reject"}]

\* The routes of two groups of flows.
Both(f, g) == [x \in DOMAIN f \cup DOMAIN g |-> IF x \in DOMAIN f THEN f[x] ELSE g[x]]

FlowRoutes ==
    Both(AddressFlows,
         Both(BlockRelayFlows, Both(PingFlows, Both(TransactionRelayFlows, RejectsFlows))))

-----------------------------------------------------------------------------
(* The commands that have a handler in the RPC server (every handler is    *)
(* named after its command), and those the RPC client has a route for: the *)
(* ones with a string representation.                                      *)

handlers ==
    {"GetCurrentNetworkRequestMessage", "SubmitBlockRequestMessage",
     "GetBlockTemplateRequestMessage", "NotifyBlockAddedRequestMessage",
     "GetPeerAddressesRequestMessage", "GetSelectedTipHashRequestMessage",
     "GetMempoolEntryRequestMessage", "GetConnectedPeerInfoRequestMessage",
     "AddPeerRequestMessage", "SubmitTransactionRequestMessage",
     "NotifyVirtualSelectedParentChainChangedRequestMessage", "GetBlockRequestMessage",
     "GetSubnetworkRequestMessage", "GetVirtualSelectedParentChainFromBlockRequestMessage",
     "GetBlocksRequestMessage", "GetBlockCountRequestMessage",
     "GetBalanceByAddressRequestMessage", "GetBlockDAGInfoRequestMessage",
     "ResolveFinalityConflictRequestMessage", "NotifyFinalityConflictsRequestMessage",
     "GetMempoolEntriesRequestMessage", "ShutDownRequestMessage", "GetHeadersRequestMessage",
     "NotifyUTXOsChangedRequestMessage", "StopNotifyingUTXOsChangedRequestMessage",
     "GetUTXOsByAddressesRequestMessage", "GetBalancesByAddressesRequestMessage",
     "GetVirtualSelectedParentBlueScoreRequestMessage",
     "NotifyVirtualSelectedParentBlueScoreChangedRequestMessage", "BanRequestMessage",
     "UnbanRequestMessage", "GetInfoRequestMessage",
     "NotifyPruningPointUTXOSetOverrideRequestMessage",
     "StopNotifyingPruningPointUTXOSetOverrideRequestMessage",
     "EstimateNetworkHashesPerSecondRequestMessage",
     "NotifyVirtualDaaScoreChangedRequestMessage", "NotifyNewBlockTemplateRequestMessage",
     "GetCoinSupplyRequestMessage", "GetMempoolEntriesByAddressesRequestMessage"}

RPCMessageCommandToString ==
    {"GetCurrentNetworkRequestMessage", "GetCurrentNetworkResponseMessage",
     "SubmitBlockRequestMessage", "SubmitBlockResponseMessage",
     "GetBlockTemplateRequestMessage", "GetBlockTemplateResponseMessage",
     "GetBlockTemplateTransactionMessage", "NotifyBlockAddedRequestMessage",
     "NotifyBlockAddedResponseMessage", "BlockAddedNotificationMessage",
     "GetPeerAddressesRequestMessage", "GetPeerAddressesResponseMessage",
     "GetSelectedTipHashRequestMessage", "GetSelectedTipHashResponseMessage",
     "GetMempoolEntryRequestMessage", "GetMempoolEntryResponseMessage",
     "GetConnectedPeerInfoRequestMessage", "GetConnectedPeerInfoResponseMessage",
     "AddPeerRequestMessage", "AddPeerResponseMessage", "SubmitTransactionRequestMessage",
     "SubmitTransactionResponseMessage",
     "NotifyVirtualSelectedParentChainChangedRequestMessage",
     "NotifyVirtualSelectedParentChainChangedResponseMessage",
     "VirtualSelectedParentChainChangedNotificationMessage", "GetBlockRequestMessage",
     "GetBlockResponseMessage", "GetSubnetworkRequestMessage", "GetSubnetworkResponseMessage",
     "GetVirtualSelectedParentChainFromBlockRequestMessage",
     "GetVirtualSelectedParentChainFromBlockResponseMessage", "GetBlocksRequestMessage",
     "GetBlocksResponseMessage", "GetBlockCountRequestMessage",
     "GetBlockCountResponseMessage", "GetBlockDAGInfoRequestMessage",
     "GetBlockDAGInfoResponseMessage", "ResolveFinalityConflictRequestMessage",
     "ResolveFinalityConflictResponseMessage", "NotifyFinalityConflictsRequestMessage",
     "NotifyFinalityConflictsResponseMessage", "FinalityConflictNotificationMessage",
     "FinalityConflictResolvedNotificationMessage", "GetMempoolEntriesRequestMessage",
     "GetMempoolEntriesResponseMessage", "GetHeadersRequestMessage",
     "GetHeadersResponseMessage", "NotifyUTXOsChangedRequestMessage",
     "NotifyUTXOsChangedResponseMessage", "UTXOsChangedNotificationMessage",
     "StopNotifyingUTXOsChangedRequestMessage", "StopNotifyingUTXOsChangedResponseMessage",
     "GetUTXOsByAddressesRequestMessage", "GetUTXOsByAddressesResponseMessage",
     "GetBalanceByAddressRequestMessage", "GetBalanceByAddressResponseMessage",
     "GetVirtualSelectedParentBlueScoreRequestMessage",
     "GetVirtualSelectedParentBlueScoreResponseMessage",
     "NotifyVirtualSelectedParentBlueScoreChangedRequestMessage",
     "NotifyVirtualSelectedParentBlueScoreChangedResponseMessage",
     "VirtualSelectedParentBlueScoreChangedNotificationMessage", "BanRequestMessage",
     "BanResponseMessage", "UnbanRequestMessage", "UnbanResponseMessage",
     "GetInfoRequestMessage", "GetInfoResponseMessage",
     "NotifyPruningPointUTXOSetOverrideRequestMessage",
     "NotifyPruningPointUTXOSetOverrideResponseMessage",
     "PruningPointUTXOSetOverrideNotificationMessage",
     "StopNotifyingPruningPointUTXOSetOverrideRequestMessage",
     "StopNotifyingPruningPointUTXOSetOverrideResponseMessage",
     "EstimateNetworkHashesPerSecondRequestMessage",
     "EstimateNetworkHashesPerSecondResponseMessage",
     "NotifyVirtualDaaScoreChangedRequestMessage",
     "NotifyVirtualDaaScoreChangedResponseMessage",
     "VirtualDaaScoreChangedNotificationMessage", "GetBalancesByAddressesRequestMessage",
     "GetBalancesByAddressesResponseMessage", "NotifyNewBlockTemplateRequestMessage",
     "NotifyNewBlockTemplateResponseMessage", "NewBlockTemplateNotificationMessage",
     "GetMempoolEntriesByAddressesRequestMessage",
     "GetMempoolEntriesByAddressesResponseMessage", "GetCoinSupplyRequestMessage",
     "GetCoinSupplyResponseMessage"}
====
