---- MODULE Payloads ----
(***************************************************************************)
(* protowire/wire.go: FromAppMessage picks the payload of a C4exdMessage   *)
(* by the type of the message, ToAppMessage the converter by the payload.  *)
(* A message type without a case is the error "unknown message type".      *)
(***************************************************************************)
EXTENDS RPCConverters

Payload(name, results) == {[payload |-> name, msg |-> x] : x \in results}

toP2PPayload(m) ==
    CASE m.type = "MsgAddresses" -> Payload("Addresses", AddressesFromApp(m))
      [] m.type = "MsgBlock" -> Payload("Block", BlockFromApp(m))
      [] m.type = "MsgRequestBlockLocator" ->
            Payload("RequestBlockLocator", RequestBlockLocatorFromApp(m))
      [] m.type = "MsgBlockLocator" -> Payload("BlockLocator", BlockLocatorFromApp(m))
      [] m.type = "MsgRequestAddresses" ->
            Payload("RequestAddresses", RequestAddressesFromApp(m))
      [] m.type = "MsgRequestIBDBlocks" ->
            Payload("RequestIBDBlocks", RequestIBDBlocksFromApp(m))
      [] m.type = "MsgRequestNextHeaders" ->
            Payload("RequestNextHeaders", RequestNextHeadersFromApp(m))
      [] m.type = "MsgDoneHeaders" -> Payload("DoneHeaders", DoneHeadersFromApp(m))
      [] m.type = "MsgRequestRelayBlocks" ->
            Payload("RequestRelayBlocks", RequestRelayBlocksFromApp(m))
      [] m.type = "MsgRequestTransactions" ->
            Payload("RequestTransactions", RequestTransactionsFromApp(m))
      [] m.type = "MsgTransactionNotFound" ->
            Payload("TransactionNotFound", TransactionNotFoundFromApp(m))
      [] m.type = "MsgInvRelayBlock" -> Payload("InvRelayBlock", InvRelayBlockFromApp(m))
      [] m.type = "MsgInvTransaction" -> Payload("InvTransactions", InvTransactionsFromApp(m))
      [] m.type = "MsgPing" -> Payload("Ping", PingFromApp(m))
      [] m.type = "MsgPong" -> Payload("Pong", PongFromApp(m))
      [] m.type = "MsgTx" -> Payload("Transaction", TransactionFromApp(m))
      [] m.type = "MsgVerAck" -> Payload("Verack", VerackFromApp(m))
      [] m.type = "MsgVersion" -> Payload("Version", VersionFromApp(m))
      [] m.type = "MsgReject" -> Payload("Reject", RejectFromApp(m))
      [] m.type = "MsgRequestPruningPointUTXOSet" ->
            Payload("RequestPruningPointUTXOSet", RequestPruningPointUTXOSetFromApp(m))
      [] m.type = "MsgPruningPointUTXOSetChunk" ->
            Payload("PruningPointUtxoSetChunk", PruningPointUtxoSetChunkFromApp(m))
      [] m.type = "MsgUnexpectedPruningPoint" ->
            Payload("UnexpectedPruningPoint", UnexpectedPruningPointFromApp(m))
      [] m.type = "MsgIBDBlockLocator" -> Payload("IbdBlockLocator", IbdBlockLocatorFromApp(m))
      [] m.type = "MsgIBDBlockLocatorHighestHash" ->
            Payload("IbdBlockLocatorHighestHash", IbdBlockLocatorHighestHashFromApp(m))
      [] m.type = "MsgIBDBlockLocatorHighestHashNotFound" ->
            Payload("IbdBlockLocatorHighestHashNotFound",
                    IbdBlockLocatorHighestHashNotFoundFromApp(m))
      [] m.type = "BlockHeadersMessage" -> Payload("BlockHeaders", BlockHeadersFromApp(m))
      [] m.type = "MsgRequestNextPruningPointUTXOSetChunk" ->
            Payload("RequestNextPruningPointUtxoSetChunk",
                    RequestNextPruningPointUtxoSetChunkFromApp(m))
      [] m.type = "MsgDonePruningPointUTXOSetChunks" ->
            Payload("DonePruningPointUtxoSetChunks", DonePruningPointUtxoSetChunksFromApp(m))
      [] m.type = "MsgBlockWithTrustedData" ->
            Payload("BlockWithTrustedData", BlockWithTrustedDataFromApp(m))
      [] m.type = "MsgRequestPruningPointAndItsAnticone" ->
            Payload("RequestPruningPointAndItsAnticone",
                    RequestPruningPointAndItsAnticoneFromApp(m))
      [] m.type = "MsgDoneBlocksWithTrustedData" ->
            Payload("DoneBlocksWithTrustedData", DoneBlocksWithTrustedDataFromApp(m))
      [] m.type = "MsgIBDBlock" -> Payload("IbdBlock", IbdBlockFromApp(m))
      [] m.type = "MsgRequestHeaders" -> Payload("RequestHeaders", RequestHeadersFromApp(m))
      [] m.type = "MsgPruningPoints" -> Payload("PruningPoints", PruningPointsFromApp(m))
      [] m.type = "MsgRequestPruningPointProof" ->
            Payload("RequestPruningPointProof", RequestPruningPointProofFromApp(m))
      [] m.type = "MsgPruningPointProof" ->
            Payload("PruningPointProof", PruningPointProofFromApp(m))
      [] m.type = "MsgReady" -> Payload("Ready", ReadyFromApp(m))
      [] m.type = "MsgTrustedData" -> Payload("TrustedData", TrustedDataFromApp(m))
      [] m.type = "MsgBlockWithTrustedDataV4" ->
            Payload("BlockWithTrustedDataV4", BlockWithTrustedDataV4FromApp(m))
      [] m.type = "MsgRequestNextPruningPointAndItsAnticoneBlocks" ->
            Payload("RequestNextPruningPointAndItsAnticoneBlocks",
                    RequestNextPruningPointAndItsAnticoneBlocksFromApp(m))
      [] m.type = "MsgRequestIBDChainBlockLocator" ->
            Payload("RequestIBDChainBlockLocator", RequestIBDChainBlockLocatorFromApp(m))
      [] m.type = "MsgIBDChainBlockLocator" ->
            Payload("IbdChainBlockLocator", IbdChainBlockLocatorFromApp(m))
      [] m.type = "MsgRequestAnticone" -> Payload("RequestAnticone", RequestAnticoneFromApp(m))
      [] OTHER -> {}

toRPCPayload(m) ==
    CASE m.type = "GetCurrentNetworkRequestMessage" ->
            Payload("GetCurrentNetworkRequest", GetCurrentNetworkRequestFromApp(m))
      [] m.type = "GetCurrentNetworkResponseMessage" ->
            Payload("GetCurrentNetworkResponse", GetCurrentNetworkResponseFromApp(m))
      [] m.type = "SubmitBlockRequestMessage" ->
            Payload("SubmitBlockRequest", SubmitBlockRequestFromApp(m))
      [] m.type = "SubmitBlockResponseMessage" ->
            Payload("SubmitBlockResponse", SubmitBlockResponseFromApp(m))
      [] m.type = "GetBlockTemplateRequestMessage" ->
            Payload("GetBlockTemplateRequest", GetBlockTemplateRequestFromApp(m))
      [] m.type = "GetBlockTemplateResponseMessage" ->
            Payload("GetBlockTemplateResponse", GetBlockTemplateResponseFromApp(m))
      [] m.type = "NotifyBlockAddedRequestMessage" ->
            Payload("NotifyBlockAddedRequest", NotifyBlockAddedRequestFromApp(m))
      [] m.type = "NotifyBlockAddedResponseMessage" ->
            Payload("NotifyBlockAddedResponse", NotifyBlockAddedResponseFromApp(m))
      [] m.type = "BlockAddedNotificationMessage" ->
            Payload("BlockAddedNotification", BlockAddedNotificationFromApp(m))
      [] m.type = "GetPeerAddressesRequestMessage" ->
            Payload("GetPeerAddressesRequest", GetPeerAddressesRequestFromApp(m))
      [] m.type = "GetPeerAddressesResponseMessage" ->
            Payload("GetPeerAddressesResponse", GetPeerAddressesResponseFromApp(m))
      [] m.type = "GetSelectedTipHashRequestMessage" ->
            Payload("GetSelectedTipHashRequest", GetSelectedTipHashRequestFromApp(m))
      [] m.type = "GetSelectedTipHashResponseMessage" ->
            Payload("GetSelectedTipHashResponse", GetSelectedTipHashResponseFromApp(m))
      [] m.type = "GetMempoolEntryRequestMessage" ->
            Payload("GetMempoolEntryRequest", GetMempoolEntryRequestFromApp(m))
      [] m.type = "GetMempoolEntryResponseMessage" ->
            Payload("GetMempoolEntryResponse", GetMempoolEntryResponseFromApp(m))
      [] m.type = "GetConnectedPeerInfoRequestMessage" ->
            Payload("GetConnectedPeerInfoRequest", GetConnectedPeerInfoRequestFromApp(m))
      [] m.type = "GetConnectedPeerInfoResponseMessage" ->
            Payload("GetConnectedPeerInfoResponse", GetConnectedPeerInfoResponseFromApp(m))
      [] m.type = "AddPeerRequestMessage" ->
            Payload("AddPeerRequest", AddPeerRequestFromApp(m))
      [] m.type = "AddPeerResponseMessage" ->
            Payload("AddPeerResponse", AddPeerResponseFromApp(m))
      [] m.type = "SubmitTransactionRequestMessage" ->
            Payload("SubmitTransactionRequest", SubmitTransactionRequestFromApp(m))
      [] m.type = "SubmitTransactionResponseMessage" ->
            Payload("SubmitTransactionResponse", SubmitTransactionResponseFromApp(m))
      [] m.type = "NotifyVirtualSelectedParentChainChangedRequestMessage" ->
            Payload("NotifyVirtualSelectedParentChainChangedRequest",
                    NotifyVirtualSelectedParentChainChangedRequestFromApp(m))
      [] m.type = "NotifyVirtualSelectedParentChainChangedResponseMessage" ->
            Payload("NotifyVirtualSelectedParentChainChangedResponse",
                    NotifyVirtualSelectedParentChainChangedResponseFromApp(m))
      [] m.type = "VirtualSelectedParentChainChangedNotificationMessage" ->
            Payload("VirtualSelectedParentChainChangedNotification",
                    VirtualSelectedParentChainChangedNotificationFromApp(m))
      [] m.type = "GetBlockRequestMessage" ->
            Payload("GetBlockRequest", GetBlockRequestFromApp(m))
      [] m.type = "GetBlockResponseMessage" ->
            Payload("GetBlockResponse", GetBlockResponseFromApp(m))
      [] m.type = "GetSubnetworkRequestMessage" ->
            Payload("GetSubnetworkRequest", GetSubnetworkRequestFromApp(m))
      [] m.type = "GetSubnetworkResponseMessage" ->
            Payload("GetSubnetworkResponse", GetSubnetworkResponseFromApp(m))
      [] m.type = "GetVirtualSelectedParentChainFromBlockRequestMessage" ->
            Payload("GetVirtualSelectedParentChainFromBlockRequest",
                    GetVirtualSelectedParentChainFromBlockRequestFromApp(m))
      [] m.type = "GetVirtualSelectedParentChainFromBlockResponseMessage" ->
            Payload("GetVirtualSelectedParentChainFromBlockResponse",
                    GetVirtualSelectedParentChainFromBlockResponseFromApp(m))
      [] m.type = "GetBlocksRequestMessage" ->
            Payload("GetBlocksRequest", GetBlocksRequestFromApp(m))
      [] m.type = "GetBlocksResponseMessage" ->
            Payload("GetBlocksResponse", GetBlocksResponseFromApp(m))
      [] m.type = "GetBlockCountRequestMessage" ->
            Payload("GetBlockCountRequest", GetBlockCountRequestFromApp(m))
      [] m.type = "GetBlockCountResponseMessage" ->
            Payload("GetBlockCountResponse", GetBlockCountResponseFromApp(m))
      [] m.type = "GetBlockDAGInfoRequestMessage" ->
            Payload("GetBlockDagInfoRequest", GetBlockDagInfoRequestFromApp(m))
      [] m.type = "GetBlockDAGInfoResponseMessage" ->
            Payload("GetBlockDagInfoResponse", GetBlockDagInfoResponseFromApp(m))
      [] m.type = "ResolveFinalityConflictRequestMessage" ->
            Payload("ResolveFinalityConflictRequest",
                    ResolveFinalityConflictRequestFromApp(m))
      [] m.type = "ResolveFinalityConflictResponseMessage" ->
            Payload("ResolveFinalityConflictResponse",
                    ResolveFinalityConflictResponseFromApp(m))
      [] m.type = "NotifyFinalityConflictsRequestMessage" ->
            Payload("NotifyFinalityConflictsRequest",
                    NotifyFinalityConflictsRequestFromApp(m))
      [] m.type = "NotifyFinalityConflictsResponseMessage" ->
            Payload("NotifyFinalityConflictsResponse",
                    NotifyFinalityConflictsResponseFromApp(m))
      [] m.type = "FinalityConflictNotificationMessage" ->
            Payload("FinalityConflictNotification", FinalityConflictNotificationFromApp(m))
      [] m.type = "FinalityConflictResolvedNotificationMessage" ->
            Payload("FinalityConflictResolvedNotification",
                    FinalityConflictResolvedNotificationFromApp(m))
      [] m.type = "GetMempoolEntriesRequestMessage" ->
            Payload("GetMempoolEntriesRequest", GetMempoolEntriesRequestFromApp(m))
      [] m.type = "GetMempoolEntriesResponseMessage" ->
            Payload("GetMempoolEntriesResponse", GetMempoolEntriesResponseFromApp(m))
      [] m.type = "ShutDownRequestMessage" ->
            Payload("ShutDownRequest", ShutDownRequestFromApp(m))
      [] m.type = "ShutDownResponseMessage" ->
            Payload("ShutDownResponse", ShutDownResponseFromApp(m))
      [] m.type = "GetHeadersRequestMessage" ->
            Payload("GetHeadersRequest", GetHeadersRequestFromApp(m))
      [] m.type = "GetHeadersResponseMessage" ->
            Payload("GetHeadersResponse", GetHeadersResponseFromApp(m))
      [] m.type = "NotifyUTXOsChangedRequestMessage" ->
            Payload("NotifyUtxosChangedRequest", NotifyUtxosChangedRequestFromApp(m))
      [] m.type = "NotifyUTXOsChangedResponseMessage" ->
            Payload("NotifyUtxosChangedResponse", NotifyUtxosChangedResponseFromApp(m))
      [] m.type = "UTXOsChangedNotificationMessage" ->
            Payload("UtxosChangedNotification", UtxosChangedNotificationFromApp(m))
      [] m.type = "StopNotifyingUTXOsChangedRequestMessage" ->
            Payload("StopNotifyingUtxosChangedRequest",
                    StopNotifyingUtxosChangedRequestFromApp(m))
      [] m.type = "StopNotifyingUTXOsChangedResponseMessage" ->
            Payload("StopNotifyingUtxosChangedResponse",
                    StopNotifyingUtxosChangedResponseFromApp(m))
      [] m.type = "GetUTXOsByAddressesRequestMessage" ->
            Payload("GetUtxosByAddressesRequest", GetUtxosByAddressesRequestFromApp(m))
      [] m.type = "GetUTXOsByAddressesResponseMessage" ->
            Payload("GetUtxosByAddressesResponse", GetUtxosByAddressesResponseFromApp(m))
      [] m.type = "GetBalanceByAddressRequestMessage" ->
            Payload("GetBalanceByAddressRequest", GetBalanceByAddressRequestFromApp(m))
      [] m.type = "GetBalanceByAddressResponseMessage" ->
            Payload("GetBalanceByAddressResponse", GetBalanceByAddressResponseFromApp(m))
      [] m.type = "GetVirtualSelectedParentBlueScoreRequestMessage" ->
            Payload("GetVirtualSelectedParentBlueScoreRequest",
                    GetVirtualSelectedParentBlueScoreRequestFromApp(m))
      [] m.type = "GetVirtualSelectedParentBlueScoreResponseMessage" ->
            Payload("GetVirtualSelectedParentBlueScoreResponse",
                    GetVirtualSelectedParentBlueScoreResponseFromApp(m))
      [] m.type = "NotifyVirtualSelectedParentBlueScoreChangedRequestMessage" ->
            Payload("NotifyVirtualSelectedParentBlueScoreChangedRequest",
                    NotifyVirtualSelectedParentBlueScoreChangedRequestFromApp(m))
      [] m.type = "NotifyVirtualSelectedParentBlueScoreChangedResponseMessage" ->
            Payload("NotifyVirtualSelectedParentBlueScoreChangedResponse",
                    NotifyVirtualSelectedParentBlueScoreChangedResponseFromApp(m))
      [] m.type = "VirtualSelectedParentBlueScoreChangedNotificationMessage" ->
            Payload("VirtualSelectedParentBlueScoreChangedNotification",
                    VirtualSelectedParentBlueScoreChangedNotificationFromApp(m))
      [] m.type = "BanRequestMessage" -> Payload("BanRequest", BanRequestFromApp(m))
      [] m.type = "BanResponseMessage" -> Payload("BanResponse", BanResponseFromApp(m))
      [] m.type = "UnbanRequestMessage" -> Payload("UnbanRequest", UnbanRequestFromApp(m))
      [] m.type = "UnbanResponseMessage" -> Payload("UnbanResponse", UnbanResponseFromApp(m))
      [] m.type = "GetInfoRequestMessage" ->
            Payload("GetInfoRequest", GetInfoRequestFromApp(m))
      [] m.type = "GetInfoResponseMessage" ->
            Payload("GetInfoResponse", GetInfoResponseFromApp(m))
      [] m.type = "NotifyPruningPointUTXOSetOverrideRequestMessage" ->
            Payload("NotifyPruningPointUTXOSetOverrideRequest",
                    NotifyPruningPointUTXOSetOverrideRequestFromApp(m))
      [] m.type = "NotifyPruningPointUTXOSetOverrideResponseMessage" ->
            Payload("NotifyPruningPointUTXOSetOverrideResponse",
                    NotifyPruningPointUTXOSetOverrideResponseFromApp(m))
      [] m.type = "PruningPointUTXOSetOverrideNotificationMessage" ->
            Payload("PruningPointUTXOSetOverrideNotification",
                    PruningPointUTXOSetOverrideNotificationFromApp(m))
      [] m.type = "StopNotifyingPruningPointUTXOSetOverrideRequestMessage" ->
            Payload("StopNotifyingPruningPointUTXOSetOverrideRequest",
                    StopNotifyingPruningPointUTXOSetOverrideRequestFromApp(m))
      [] m.type = "EstimateNetworkHashesPerSecondRequestMessage" ->
            Payload("EstimateNetworkHashesPerSecondRequest",
                    EstimateNetworkHashesPerSecondRequestFromApp(m))
      [] m.type = "EstimateNetworkHashesPerSecondResponseMessage" ->
            Payload("EstimateNetworkHashesPerSecondResponse",
                    EstimateNetworkHashesPerSecondResponseFromApp(m))
      [] m.type = "NotifyVirtualDaaScoreChangedRequestMessage" ->
            Payload("NotifyVirtualDaaScoreChangedRequest",
                    NotifyVirtualDaaScoreChangedRequestFromApp(m))
      [] m.type = "NotifyVirtualDaaScoreChangedResponseMessage" ->
            Payload("NotifyVirtualDaaScoreChangedResponse",
                    NotifyVirtualDaaScoreChangedResponseFromApp(m))
      [] m.type = "VirtualDaaScoreChangedNotificationMessage" ->
            Payload("VirtualDaaScoreChangedNotification",
                    VirtualDaaScoreChangedNotificationFromApp(m))
      [] m.type = "GetBalancesByAddressesRequestMessage" ->
            Payload("GetBalancesByAddressesRequest", GetBalancesByAddressesRequestFromApp(m))
      [] m.type = "GetBalancesByAddressesResponseMessage" ->
            Payload("GetBalancesByAddressesResponse",
                    GetBalancesByAddressesResponseFromApp(m))
      [] m.type = "NotifyNewBlockTemplateRequestMessage" ->
            Payload("NotifyNewBlockTemplateRequest", NotifyNewBlockTemplateRequestFromApp(m))
      [] m.type = "NotifyNewBlockTemplateResponseMessage" ->
            Payload("NotifyNewBlockTemplateResponse",
                    NotifyNewBlockTemplateResponseFromApp(m))
      [] m.type = "NewBlockTemplateNotificationMessage" ->
            Payload("NewBlockTemplateNotification", NewBlockTemplateNotificationFromApp(m))
      [] m.type = "GetMempoolEntriesByAddressesRequestMessage" ->
            Payload("GetMempoolEntriesByAddressesRequest",
                    GetMempoolEntriesByAddressesRequestFromApp(m))
      [] m.type = "GetMempoolEntriesByAddressesResponseMessage" ->
            Payload("GetMempoolEntriesByAddressesResponse",
                    GetMempoolEntriesByAddressesResponseFromApp(m))
      [] m.type = "GetCoinSupplyRequestMessage" ->
            Payload("GetCoinSupplyRequest", GetCoinSupplyRequestFromApp(m))
      [] m.type = "GetCoinSupplyResponseMessage" ->
            Payload("GetCoinSupplyResponse", GetCoinSupplyResponseFromApp(m))
      [] OTHER -> {}

FromAppMessage(m) == toP2PPayload(m) \union toRPCPayload(m)

P2PToApp(payload, x) ==
    CASE payload = "Addresses" -> AddressesToApp(x)
      [] payload = "Block" -> BlockToApp(x)
      [] payload = "Transaction" -> TransactionToApp(x)
      [] payload = "BlockLocator" -> BlockLocatorToApp(x)
      [] payload = "RequestAddresses" -> RequestAddressesToApp(x)
      [] payload = "RequestRelayBlocks" -> RequestRelayBlocksToApp(x)
      [] payload = "RequestTransactions" -> RequestTransactionsToApp(x)
      [] payload = "IbdBlock" -> IbdBlockToApp(x)
      [] payload = "InvRelayBlock" -> InvRelayBlockToApp(x)
      [] payload = "InvTransactions" -> InvTransactionsToApp(x)
      [] payload = "Ping" -> PingToApp(x)
      [] payload = "Pong" -> PongToApp(x)
      [] payload = "Verack" -> VerackToApp(x)
      [] payload = "Version" -> VersionToApp(x)
      [] payload = "TransactionNotFound" -> TransactionNotFoundToApp(x)
      [] payload = "Reject" -> RejectToApp(x)
      [] payload = "PruningPointUtxoSetChunk" -> PruningPointUtxoSetChunkToApp(x)
      [] payload = "RequestIBDBlocks" -> RequestIBDBlocksToApp(x)
      [] payload = "UnexpectedPruningPoint" -> UnexpectedPruningPointToApp(x)
      [] payload = "IbdBlockLocator" -> IbdBlockLocatorToApp(x)
      [] payload = "IbdBlockLocatorHighestHash" -> IbdBlockLocatorHighestHashToApp(x)
      [] payload = "RequestNextPruningPointUtxoSetChunk" ->
            RequestNextPruningPointUtxoSetChunkToApp(x)
      [] payload = "DonePruningPointUtxoSetChunks" -> DonePruningPointUtxoSetChunksToApp(x)
      [] payload = "IbdBlockLocatorHighestHashNotFound" ->
            IbdBlockLocatorHighestHashNotFoundToApp(x)
      [] payload = "BlockWithTrustedData" -> BlockWithTrustedDataToApp(x)
      [] payload = "DoneBlocksWithTrustedData" -> DoneBlocksWithTrustedDataToApp(x)
      [] payload = "RequestPruningPointAndItsAnticone" ->
            RequestPruningPointAndItsAnticoneToApp(x)
      [] payload = "BlockHeaders" -> BlockHeadersToApp(x)
      [] payload = "RequestNextHeaders" -> RequestNextHeadersToApp(x)
      [] payload = "DoneHeaders" -> DoneHeadersToApp(x)
      [] payload = "RequestPruningPointUTXOSet" -> RequestPruningPointUTXOSetToApp(x)
      [] payload = "RequestHeaders" -> RequestHeadersToApp(x)
      [] payload = "RequestBlockLocator" -> RequestBlockLocatorToApp(x)
      [] payload = "PruningPoints" -> PruningPointsToApp(x)
      [] payload = "RequestPruningPointProof" -> RequestPruningPointProofToApp(x)
      [] payload = "PruningPointProof" -> PruningPointProofToApp(x)
      [] payload = "Ready" -> ReadyToApp(x)
      [] payload = "BlockWithTrustedDataV4" -> BlockWithTrustedDataV4ToApp(x)
      [] payload = "TrustedData" -> TrustedDataToApp(x)
      [] payload = "RequestIBDChainBlockLocator" -> RequestIBDChainBlockLocatorToApp(x)
      [] payload = "IbdChainBlockLocator" -> IbdChainBlockLocatorToApp(x)
      [] payload = "RequestAnticone" -> RequestAnticoneToApp(x)
      [] payload = "RequestNextPruningPointAndItsAnticoneBlocks" ->
            RequestNextPruningPointAndItsAnticoneBlocksToApp(x)
      [] OTHER -> {}

RPCToApp(payload, x) ==
    CASE payload = "GetCurrentNetworkRequest" -> GetCurrentNetworkRequestToApp(x)
      [] payload = "GetCurrentNetworkResponse" -> GetCurrentNetworkResponseToApp(x)
      [] payload = "SubmitBlockRequest" -> SubmitBlockRequestToApp(x)
      [] payload = "SubmitBlockResponse" -> SubmitBlockResponseToApp(x)
      [] payload = "GetBlockTemplateRequest" -> GetBlockTemplateRequestToApp(x)
      [] payload = "GetBlockTemplateResponse" -> GetBlockTemplateResponseToApp(x)
      [] payload = "NotifyBlockAddedRequest" -> NotifyBlockAddedRequestToApp(x)
      [] payload = "NotifyBlockAddedResponse" -> NotifyBlockAddedResponseToApp(x)
      [] payload = "BlockAddedNotification" -> BlockAddedNotificationToApp(x)
      [] payload = "GetPeerAddressesRequest" -> GetPeerAddressesRequestToApp(x)
      [] payload = "GetPeerAddressesResponse" -> GetPeerAddressesResponseToApp(x)
      [] payload = "GetSelectedTipHashRequest" -> GetSelectedTipHashRequestToApp(x)
      [] payload = "GetSelectedTipHashResponse" -> GetSelectedTipHashResponseToApp(x)
      [] payload = "GetMempoolEntryRequest" -> GetMempoolEntryRequestToApp(x)
      [] payload = "GetMempoolEntryResponse" -> GetMempoolEntryResponseToApp(x)
      [] payload = "GetConnectedPeerInfoRequest" -> GetConnectedPeerInfoRequestToApp(x)
      [] payload = "GetConnectedPeerInfoResponse" -> GetConnectedPeerInfoResponseToApp(x)
      [] payload = "AddPeerRequest" -> AddPeerRequestToApp(x)
      [] payload = "AddPeerResponse" -> AddPeerResponseToApp(x)
      [] payload = "SubmitTransactionRequest" -> SubmitTransactionRequestToApp(x)
      [] payload = "SubmitTransactionResponse" -> SubmitTransactionResponseToApp(x)
      [] payload = "NotifyVirtualSelectedParentChainChangedRequest" ->
            NotifyVirtualSelectedParentChainChangedRequestToApp(x)
      [] payload = "NotifyVirtualSelectedParentChainChangedResponse" ->
            NotifyVirtualSelectedParentChainChangedResponseToApp(x)
      [] payload = "VirtualSelectedParentChainChangedNotification" ->
            VirtualSelectedParentChainChangedNotificationToApp(x)
      [] payload = "GetBlockRequest" -> GetBlockRequestToApp(x)
      [] payload = "GetBlockResponse" -> GetBlockResponseToApp(x)
      [] payload = "GetSubnetworkRequest" -> GetSubnetworkRequestToApp(x)
      [] payload = "GetSubnetworkResponse" -> GetSubnetworkResponseToApp(x)
      [] payload = "GetVirtualSelectedParentChainFromBlockRequest" ->
            GetVirtualSelectedParentChainFromBlockRequestToApp(x)
      [] payload = "GetVirtualSelectedParentChainFromBlockResponse" ->
            GetVirtualSelectedParentChainFromBlockResponseToApp(x)
      [] payload = "GetBlocksRequest" -> GetBlocksRequestToApp(x)
      [] payload = "GetBlocksResponse" -> GetBlocksResponseToApp(x)
      [] payload = "GetBlockCountRequest" -> GetBlockCountRequestToApp(x)
      [] payload = "GetBlockCountResponse" -> GetBlockCountResponseToApp(x)
      [] payload = "GetBlockDagInfoRequest" -> GetBlockDagInfoRequestToApp(x)
      [] payload = "GetBlockDagInfoResponse" -> GetBlockDagInfoResponseToApp(x)
      [] payload = "ResolveFinalityConflictRequest" -> ResolveFinalityConflictRequestToApp(x)
      [] payload = "ResolveFinalityConflictResponse" -> ResolveFinalityConflictResponseToApp(x)
      [] payload = "NotifyFinalityConflictsRequest" -> NotifyFinalityConflictsRequestToApp(x)
      [] payload = "NotifyFinalityConflictsResponse" -> NotifyFinalityConflictsResponseToApp(x)
      [] payload = "FinalityConflictNotification" -> FinalityConflictNotificationToApp(x)
      [] payload = "FinalityConflictResolvedNotification" ->
            FinalityConflictResolvedNotificationToApp(x)
      [] payload = "GetMempoolEntriesRequest" -> GetMempoolEntriesRequestToApp(x)
      [] payload = "GetMempoolEntriesResponse" -> GetMempoolEntriesResponseToApp(x)
      [] payload = "ShutDownRequest" -> ShutDownRequestToApp(x)
      [] payload = "ShutDownResponse" -> ShutDownResponseToApp(x)
      [] payload = "GetHeadersRequest" -> GetHeadersRequestToApp(x)
      [] payload = "GetHeadersResponse" -> GetHeadersResponseToApp(x)
      [] payload = "NotifyUtxosChangedRequest" -> NotifyUtxosChangedRequestToApp(x)
      [] payload = "NotifyUtxosChangedResponse" -> NotifyUtxosChangedResponseToApp(x)
      [] payload = "UtxosChangedNotification" -> UtxosChangedNotificationToApp(x)
      [] payload = "GetUtxosByAddressesRequest" -> GetUtxosByAddressesRequestToApp(x)
      [] payload = "GetUtxosByAddressesResponse" -> GetUtxosByAddressesResponseToApp(x)
      [] payload = "GetVirtualSelectedParentBlueScoreRequest" ->
            GetVirtualSelectedParentBlueScoreRequestToApp(x)
      [] payload = "GetVirtualSelectedParentBlueScoreResponse" ->
            GetVirtualSelectedParentBlueScoreResponseToApp(x)
      [] payload = "NotifyVirtualSelectedParentBlueScoreChangedRequest" ->
            NotifyVirtualSelectedParentBlueScoreChangedRequestToApp(x)
      [] payload = "NotifyVirtualSelectedParentBlueScoreChangedResponse" ->
            NotifyVirtualSelectedParentBlueScoreChangedResponseToApp(x)
      [] payload = "VirtualSelectedParentBlueScoreChangedNotification" ->
            VirtualSelectedParentBlueScoreChangedNotificationToApp(x)
      [] payload = "BanRequest" -> BanRequestToApp(x)
      [] payload = "BanResponse" -> BanResponseToApp(x)
      [] payload = "UnbanRequest" -> UnbanRequestToApp(x)
      [] payload = "UnbanResponse" -> UnbanResponseToApp(x)
      [] payload = "GetInfoRequest" -> GetInfoRequestToApp(x)
      [] payload = "GetInfoResponse" -> GetInfoResponseToApp(x)
      [] payload = "StopNotifyingUtxosChangedRequest" ->
            StopNotifyingUtxosChangedRequestToApp(x)
      [] payload = "StopNotifyingUtxosChangedResponse" ->
            StopNotifyingUtxosChangedResponseToApp(x)
      [] payload = "NotifyPruningPointUTXOSetOverrideRequest" ->
            NotifyPruningPointUTXOSetOverrideRequestToApp(x)
      [] payload = "NotifyPruningPointUTXOSetOverrideResponse" ->
            NotifyPruningPointUTXOSetOverrideResponseToApp(x)
      [] payload = "PruningPointUTXOSetOverrideNotification" ->
            PruningPointUTXOSetOverrideNotificationToApp(x)
      [] payload = "StopNotifyingPruningPointUTXOSetOverrideRequest" ->
            StopNotifyingPruningPointUTXOSetOverrideRequestToApp(x)
      [] payload = "StopNotifyingPruningPointUTXOSetOverrideResponse" ->
            StopNotifyingPruningPointUTXOSetOverrideResponseToApp(x)
      [] payload = "EstimateNetworkHashesPerSecondRequest" ->
            EstimateNetworkHashesPerSecondRequestToApp(x)
      [] payload = "EstimateNetworkHashesPerSecondResponse" ->
            EstimateNetworkHashesPerSecondResponseToApp(x)
      [] payload = "NotifyVirtualDaaScoreChangedRequest" ->
            NotifyVirtualDaaScoreChangedRequestToApp(x)
      [] payload = "NotifyVirtualDaaScoreChangedResponse" ->
            NotifyVirtualDaaScoreChangedResponseToApp(x)
      [] payload = "VirtualDaaScoreChangedNotification" ->
            VirtualDaaScoreChangedNotificationToApp(x)
      [] payload = "GetBalanceByAddressRequest" -> GetBalanceByAddressRequestToApp(x)
      [] payload = "GetBalanceByAddressResponse" -> GetBalanceByAddressResponseToApp(x)
      [] payload = "GetBalancesByAddressesRequest" -> GetBalancesByAddressesRequestToApp(x)
      [] payload = "GetBalancesByAddressesResponse" -> GetBalancesByAddressesResponseToApp(x)
      [] payload = "NotifyNewBlockTemplateRequest" -> NotifyNewBlockTemplateRequestToApp(x)
      [] payload = "NotifyNewBlockTemplateResponse" -> NotifyNewBlockTemplateResponseToApp(x)
      [] payload = "NewBlockTemplateNotification" -> NewBlockTemplateNotificationToApp(x)
      [] payload = "GetMempoolEntriesByAddressesRequest" ->
            GetMempoolEntriesByAddressesRequestToApp(x)
      [] payload = "GetMempoolEntriesByAddressesResponse" ->
            GetMempoolEntriesByAddressesResponseToApp(x)
      [] payload = "GetCoinSupplyRequest" -> GetCoinSupplyRequestToApp(x)
      [] payload = "GetCoinSupplyResponse" -> GetCoinSupplyResponseToApp(x)
      [] OTHER -> {}

ToAppMessage(c) == P2PToApp(c.payload, c.msg) \union RPCToApp(c.payload, c.msg)
====
