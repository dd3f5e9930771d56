---- MODULE ProtoRPCMessages ----
(***************************************************************************)
(* The structs protoc generates for rpc.proto (protowire/rpc.pb.go) and    *)
(* the payloads of C4exdMessage that carry them.  Every nested message is  *)
(* a pointer that may be nil.                                              *)
(***************************************************************************)
EXTENDS MessageTypes

RPCError == Struct([Message |-> String])
RpcBlockLevelParents == Struct([ParentHashes |-> Slice(String)])
RpcBlockHeader ==
    Struct([Version |-> Uint32, Parents |-> Slice(RpcBlockLevelParents),
            HashMerkleRoot |-> String, AcceptedIdMerkleRoot |-> String,
            UtxoCommitment |-> String, Timestamp |-> Int64, Bits |-> Uint32, Nonce |-> Uint64,
            DaaScore |-> Uint64, BlueWork |-> String, PruningPoint |-> String,
            BlueScore |-> Uint64])
RpcOutpoint == Struct([TransactionId |-> String, Index |-> Uint32])
RpcTransactionInputVerboseData == Struct(NoFields)
RpcTransactionInput ==
    Struct([PreviousOutpoint |-> Optional(RpcOutpoint), SignatureScript |-> String,
            Sequence |-> Uint64, SigOpCount |-> Uint32,
            VerboseData |-> Optional(RpcTransactionInputVerboseData)])
RpcScriptPublicKey == Struct([Version |-> Uint32, ScriptPublicKey |-> String])
RpcTransactionOutputVerboseData ==
    Struct([ScriptPublicKeyType |-> String, ScriptPublicKeyAddress |-> String])
RpcTransactionOutput ==
    Struct([Amount |-> Uint64, ScriptPublicKey |-> Optional(RpcScriptPublicKey),
            VerboseData |-> Optional(RpcTransactionOutputVerboseData)])
RpcTransactionVerboseData ==
    Struct([TransactionId |-> String, Hash |-> String, Mass |-> Uint64, BlockHash |-> String,
            BlockTime |-> Uint64])
RpcTransaction ==
    Struct([Version |-> Uint32, Inputs |-> Slice(RpcTransactionInput),
            Outputs |-> Slice(RpcTransactionOutput), LockTime |-> Uint64,
            SubnetworkId |-> String, Gas |-> Uint64, Payload |-> String,
            VerboseData |-> Optional(RpcTransactionVerboseData)])
RpcBlockVerboseData ==
    Struct([Hash |-> String, Difficulty |-> Float64, SelectedParentHash |-> String,
            TransactionIds |-> Slice(String), IsHeaderOnly |-> Bool, BlueScore |-> Uint64,
            ChildrenHashes |-> Slice(String), MergeSetBluesHashes |-> Slice(String),
            MergeSetRedsHashes |-> Slice(String), IsChainBlock |-> Bool])
RpcBlock ==
    Struct([Header |-> Optional(RpcBlockHeader), Transactions |-> Slice(RpcTransaction),
            VerboseData |-> Optional(RpcBlockVerboseData)])
RpcUtxoEntry ==
    Struct([Amount |-> Uint64, ScriptPublicKey |-> Optional(RpcScriptPublicKey),
            BlockDaaScore |-> Uint64, IsCoinbase |-> Bool])
GetCurrentNetworkRequestMessage == Struct(NoFields)
GetCurrentNetworkResponseMessage ==
    Struct([CurrentNetwork |-> String, Error |-> Optional(RPCError)])
SubmitBlockRequestMessage == Struct([Block |-> Optional(RpcBlock), AllowNonDAABlocks |-> Bool])
SubmitBlockResponseMessage == Struct([RejectReason |-> Uint8, Error |-> Optional(RPCError)])
GetBlockTemplateRequestMessage == Struct([PayAddress |-> String, ExtraData |-> String])
GetBlockTemplateResponseMessage ==
    Struct([Block |-> Optional(RpcBlock), IsSynced |-> Bool, Error |-> Optional(RPCError)])
NotifyBlockAddedRequestMessage == Struct(NoFields)
NotifyBlockAddedResponseMessage == Struct([Error |-> Optional(RPCError)])
BlockAddedNotificationMessage == Struct([Block |-> Optional(RpcBlock)])
GetPeerAddressesRequestMessage == Struct(NoFields)
GetPeerAddressesKnownAddressMessage == Struct([Addr |-> String])
GetPeerAddressesResponseMessage ==
    Struct([Addresses |-> Slice(GetPeerAddressesKnownAddressMessage),
            BannedAddresses |-> Slice(GetPeerAddressesKnownAddressMessage),
            Error |-> Optional(RPCError)])
GetSelectedTipHashRequestMessage == Struct(NoFields)
GetSelectedTipHashResponseMessage ==
    Struct([SelectedTipHash |-> String, Error |-> Optional(RPCError)])
GetMempoolEntryRequestMessage ==
    Struct([TxId |-> String, IncludeOrphanPool |-> Bool, FilterTransactionPool |-> Bool])
MempoolEntry ==
    Struct([Fee |-> Uint64, Transaction |-> Optional(RpcTransaction), IsOrphan |-> Bool])
GetMempoolEntryResponseMessage ==
    Struct([Entry |-> Optional(MempoolEntry), Error |-> Optional(RPCError)])
GetMempoolEntriesRequestMessage ==
    Struct([IncludeOrphanPool |-> Bool, FilterTransactionPool |-> Bool])
GetMempoolEntriesResponseMessage ==
    Struct([Entries |-> Slice(MempoolEntry), Error |-> Optional(RPCError)])
GetConnectedPeerInfoRequestMessage == Struct(NoFields)
GetConnectedPeerInfoMessage ==
    Struct([Id |-> String, Address |-> String, LastPingDuration |-> Int64,
            IsOutbound |-> Bool, TimeOffset |-> Int64, UserAgent |-> String,
            AdvertisedProtocolVersion |-> Uint32, TimeConnected |-> Int64, IsIbdPeer |-> Bool])
GetConnectedPeerInfoResponseMessage ==
    Struct([Infos |-> Slice(GetConnectedPeerInfoMessage), Error |-> Optional(RPCError)])
AddPeerRequestMessage == Struct([Address |-> String, IsPermanent |-> Bool])
AddPeerResponseMessage == Struct([Error |-> Optional(RPCError)])
SubmitTransactionRequestMessage ==
    Struct([Transaction |-> Optional(RpcTransaction), AllowOrphan |-> Bool])
SubmitTransactionResponseMessage ==
    Struct([TransactionId |-> String, Error |-> Optional(RPCError)])
NotifyVirtualSelectedParentChainChangedRequestMessage ==
    Struct([IncludeAcceptedTransactionIds |-> Bool])
NotifyVirtualSelectedParentChainChangedResponseMessage == Struct([Error |-> Optional(RPCError)])
AcceptedTransactionIds ==
    Struct([AcceptingBlockHash |-> String, AcceptedTransactionIds |-> Slice(String)])
VirtualSelectedParentChainChangedNotificationMessage ==
    Struct([RemovedChainBlockHashes |-> Slice(String),
            AddedChainBlockHashes |-> Slice(String),
            AcceptedTransactionIds |-> Slice(AcceptedTransactionIds)])
GetBlockRequestMessage == Struct([Hash |-> String, IncludeTransactions |-> Bool])
GetBlockResponseMessage == Struct([Block |-> Optional(RpcBlock), Error |-> Optional(RPCError)])
GetSubnetworkRequestMessage == Struct([SubnetworkId |-> String])
GetSubnetworkResponseMessage == Struct([GasLimit |-> Uint64, Error |-> Optional(RPCError)])
GetVirtualSelectedParentChainFromBlockRequestMessage ==
    Struct([StartHash |-> String, IncludeAcceptedTransactionIds |-> Bool])
GetVirtualSelectedParentChainFromBlockResponseMessage ==
    Struct([RemovedChainBlockHashes |-> Slice(String),
            AddedChainBlockHashes |-> Slice(String),
            AcceptedTransactionIds |-> Slice(AcceptedTransactionIds),
            Error |-> Optional(RPCError)])
GetBlocksRequestMessage ==
    Struct([LowHash |-> String, IncludeBlocks |-> Bool, IncludeTransactions |-> Bool])
GetBlocksResponseMessage ==
    Struct([BlockHashes |-> Slice(String), Blocks |-> Slice(RpcBlock),
            Error |-> Optional(RPCError)])
GetBlockCountRequestMessage == Struct(NoFields)
GetBlockCountResponseMessage ==
    Struct([BlockCount |-> Uint64, HeaderCount |-> Uint64, Error |-> Optional(RPCError)])
GetBlockDagInfoRequestMessage == Struct(NoFields)
GetBlockDagInfoResponseMessage ==
    Struct([NetworkName |-> String, BlockCount |-> Uint64, HeaderCount |-> Uint64,
            TipHashes |-> Slice(String), Difficulty |-> Float64, PastMedianTime |-> Int64,
            VirtualParentHashes |-> Slice(String), PruningPointHash |-> String,
            VirtualDaaScore |-> Uint64, Error |-> Optional(RPCError)])
ResolveFinalityConflictRequestMessage == Struct([FinalityBlockHash |-> String])
ResolveFinalityConflictResponseMessage == Struct([Error |-> Optional(RPCError)])
NotifyFinalityConflictsRequestMessage == Struct(NoFields)
NotifyFinalityConflictsResponseMessage == Struct([Error |-> Optional(RPCError)])
FinalityConflictNotificationMessage == Struct([ViolatingBlockHash |-> String])
FinalityConflictResolvedNotificationMessage == Struct([FinalityBlockHash |-> String])
ShutDownRequestMessage == Struct(NoFields)
ShutDownResponseMessage == Struct([Error |-> Optional(RPCError)])
GetHeadersRequestMessage ==
    Struct([StartHash |-> String, Limit |-> Uint64, IsAscending |-> Bool])
GetHeadersResponseMessage == Struct([Headers |-> Slice(String), Error |-> Optional(RPCError)])
NotifyUtxosChangedRequestMessage == Struct([Addresses |-> Slice(String)])
NotifyUtxosChangedResponseMessage == Struct([Error |-> Optional(RPCError)])
UtxosByAddressesEntry ==
    Struct([Address |-> String, Outpoint |-> Optional(RpcOutpoint),
            UtxoEntry |-> Optional(RpcUtxoEntry)])
UtxosChangedNotificationMessage ==
    Struct([Added |-> Slice(UtxosByAddressesEntry), Removed |-> Slice(UtxosByAddressesEntry)])
StopNotifyingUtxosChangedRequestMessage == Struct([Addresses |-> Slice(String)])
StopNotifyingUtxosChangedResponseMessage == Struct([Error |-> Optional(RPCError)])
GetUtxosByAddressesRequestMessage == Struct([Addresses |-> Slice(String)])
GetUtxosByAddressesResponseMessage ==
    Struct([Entries |-> Slice(UtxosByAddressesEntry), Error |-> Optional(RPCError)])
GetBalanceByAddressRequestMessage == Struct([Address |-> String])
GetBalanceByAddressResponseMessage == Struct([Balance |-> Uint64, Error |-> Optional(RPCError)])
GetBalancesByAddressesRequestMessage == Struct([Addresses |-> Slice(String)])
BalancesByAddressEntry ==
    Struct([Address |-> String, Balance |-> Uint64, Error |-> Optional(RPCError)])
GetBalancesByAddressesResponseMessage ==
    Struct([Entries |-> Slice(BalancesByAddressEntry), Error |-> Optional(RPCError)])
GetVirtualSelectedParentBlueScoreRequestMessage == Struct(NoFields)
GetVirtualSelectedParentBlueScoreResponseMessage ==
    Struct([BlueScore |-> Uint64, Error |-> Optional(RPCError)])
NotifyVirtualSelectedParentBlueScoreChangedRequestMessage == Struct(NoFields)
NotifyVirtualSelectedParentBlueScoreChangedResponseMessage ==
    Struct([Error |-> Optional(RPCError)])
VirtualSelectedParentBlueScoreChangedNotificationMessage ==
    Struct([VirtualSelectedParentBlueScore |-> Uint64])
NotifyVirtualDaaScoreChangedRequestMessage == Struct(NoFields)
NotifyVirtualDaaScoreChangedResponseMessage == Struct([Error |-> Optional(RPCError)])
VirtualDaaScoreChangedNotificationMessage == Struct([VirtualDaaScore |-> Uint64])
NotifyPruningPointUTXOSetOverrideRequestMessage == Struct(NoFields)
NotifyPruningPointUTXOSetOverrideResponseMessage == Struct([Error |-> Optional(RPCError)])
PruningPointUTXOSetOverrideNotificationMessage == Struct(NoFields)
StopNotifyingPruningPointUTXOSetOverrideRequestMessage == Struct(NoFields)
StopNotifyingPruningPointUTXOSetOverrideResponseMessage ==
    Struct([Error |-> Optional(RPCError)])
BanRequestMessage == Struct([Ip |-> String])
BanResponseMessage == Struct([Error |-> Optional(RPCError)])
UnbanRequestMessage == Struct([Ip |-> String])
UnbanResponseMessage == Struct([Error |-> Optional(RPCError)])
GetInfoRequestMessage == Struct(NoFields)
GetInfoResponseMessage ==
    Struct([P2PId |-> String, MempoolSize |-> Uint64, ServerVersion |-> String,
            IsUtxoIndexed |-> Bool, IsSynced |-> Bool, Error |-> Optional(RPCError)])
EstimateNetworkHashesPerSecondRequestMessage ==
    Struct([WindowSize |-> Uint32, StartHash |-> String])
EstimateNetworkHashesPerSecondResponseMessage ==
    Struct([NetworkHashesPerSecond |-> Uint64, Error |-> Optional(RPCError)])
NotifyNewBlockTemplateRequestMessage == Struct(NoFields)
NotifyNewBlockTemplateResponseMessage == Struct([Error |-> Optional(RPCError)])
NewBlockTemplateNotificationMessage == Struct(NoFields)
MempoolEntryByAddress ==
    Struct([Address |-> String, Sending |-> Slice(MempoolEntry),
            Receiving |-> Slice(MempoolEntry)])
GetMempoolEntriesByAddressesRequestMessage ==
    Struct([Addresses |-> Slice(String), IncludeOrphanPool |-> Bool,
            FilterTransactionPool |-> Bool])
GetMempoolEntriesByAddressesResponseMessage ==
    Struct([Entries |-> Slice(MempoolEntryByAddress), Error |-> Optional(RPCError)])
GetCoinSupplyRequestMessage == Struct(NoFields)
GetCoinSupplyResponseMessage ==
    Struct([MaxSompi |-> Uint64, CirculatingSompi |-> Uint64, Error |-> Optional(RPCError)])

\* The payload of a C4exdMessage, by the name of its oneof field.
RPCPayloads ==
    [GetCurrentNetworkRequest |-> GetCurrentNetworkRequestMessage,
     GetCurrentNetworkResponse |-> GetCurrentNetworkResponseMessage,
     SubmitBlockRequest |-> SubmitBlockRequestMessage,
     SubmitBlockResponse |-> SubmitBlockResponseMessage,
     GetBlockTemplateRequest |-> GetBlockTemplateRequestMessage,
     GetBlockTemplateResponse |-> GetBlockTemplateResponseMessage,
     NotifyBlockAddedRequest |-> NotifyBlockAddedRequestMessage,
     NotifyBlockAddedResponse |-> NotifyBlockAddedResponseMessage,
     BlockAddedNotification |-> BlockAddedNotificationMessage,
     GetPeerAddressesRequest |-> GetPeerAddressesRequestMessage,
     GetPeerAddressesResponse |-> GetPeerAddressesResponseMessage,
     GetSelectedTipHashRequest |-> GetSelectedTipHashRequestMessage,
     GetSelectedTipHashResponse |-> GetSelectedTipHashResponseMessage,
     GetMempoolEntryRequest |-> GetMempoolEntryRequestMessage,
     GetMempoolEntryResponse |-> GetMempoolEntryResponseMessage,
     GetConnectedPeerInfoRequest |-> GetConnectedPeerInfoRequestMessage,
     GetConnectedPeerInfoResponse |-> GetConnectedPeerInfoResponseMessage,
     AddPeerRequest |-> AddPeerRequestMessage, AddPeerResponse |-> AddPeerResponseMessage,
     SubmitTransactionRequest |-> SubmitTransactionRequestMessage,
     SubmitTransactionResponse |-> SubmitTransactionResponseMessage,
     NotifyVirtualSelectedParentChainChangedRequest |->
     NotifyVirtualSelectedParentChainChangedRequestMessage,
     NotifyVirtualSelectedParentChainChangedResponse |->
     NotifyVirtualSelectedParentChainChangedResponseMessage,
     VirtualSelectedParentChainChangedNotification |->
     VirtualSelectedParentChainChangedNotificationMessage,
     GetBlockRequest |-> GetBlockRequestMessage, GetBlockResponse |-> GetBlockResponseMessage,
     GetSubnetworkRequest |-> GetSubnetworkRequestMessage,
     GetSubnetworkResponse |-> GetSubnetworkResponseMessage,
     GetVirtualSelectedParentChainFromBlockRequest |->
     GetVirtualSelectedParentChainFromBlockRequestMessage,
     GetVirtualSelectedParentChainFromBlockResponse |->
     GetVirtualSelectedParentChainFromBlockResponseMessage,
     GetBlocksRequest |-> GetBlocksRequestMessage,
     GetBlocksResponse |-> GetBlocksResponseMessage,
     GetBlockCountRequest |-> GetBlockCountRequestMessage,
     GetBlockCountResponse |-> GetBlockCountResponseMessage,
     GetBlockDagInfoRequest |-> GetBlockDagInfoRequestMessage,
     GetBlockDagInfoResponse |-> GetBlockDagInfoResponseMessage,
     ResolveFinalityConflictRequest |-> ResolveFinalityConflictRequestMessage,
     ResolveFinalityConflictResponse |-> ResolveFinalityConflictResponseMessage,
     NotifyFinalityConflictsRequest |-> NotifyFinalityConflictsRequestMessage,
     NotifyFinalityConflictsResponse |-> NotifyFinalityConflictsResponseMessage,
     FinalityConflictNotification |-> FinalityConflictNotificationMessage,
     FinalityConflictResolvedNotification |-> FinalityConflictResolvedNotificationMessage,
     GetMempoolEntriesRequest |-> GetMempoolEntriesRequestMessage,
     GetMempoolEntriesResponse |-> GetMempoolEntriesResponseMessage,
     ShutDownRequest |-> ShutDownRequestMessage, ShutDownResponse |-> ShutDownResponseMessage,
     GetHeadersRequest |-> GetHeadersRequestMessage,
     GetHeadersResponse |-> GetHeadersResponseMessage,
     NotifyUtxosChangedRequest |-> NotifyUtxosChangedRequestMessage,
     NotifyUtxosChangedResponse |-> NotifyUtxosChangedResponseMessage,
     UtxosChangedNotification |-> UtxosChangedNotificationMessage,
     GetUtxosByAddressesRequest |-> GetUtxosByAddressesRequestMessage,
     GetUtxosByAddressesResponse |-> GetUtxosByAddressesResponseMessage,
     GetVirtualSelectedParentBlueScoreRequest |->
     GetVirtualSelectedParentBlueScoreRequestMessage,
     GetVirtualSelectedParentBlueScoreResponse |->
     GetVirtualSelectedParentBlueScoreResponseMessage,
     NotifyVirtualSelectedParentBlueScoreChangedRequest |->
     NotifyVirtualSelectedParentBlueScoreChangedRequestMessage,
     NotifyVirtualSelectedParentBlueScoreChangedResponse |->
     NotifyVirtualSelectedParentBlueScoreChangedResponseMessage,
     VirtualSelectedParentBlueScoreChangedNotification |->
     VirtualSelectedParentBlueScoreChangedNotificationMessage, BanRequest |-> BanRequestMessage,
     BanResponse |-> BanResponseMessage, UnbanRequest |-> UnbanRequestMessage,
     UnbanResponse |-> UnbanResponseMessage, GetInfoRequest |-> GetInfoRequestMessage,
     GetInfoResponse |-> GetInfoResponseMessage,
     StopNotifyingUtxosChangedRequest |-> StopNotifyingUtxosChangedRequestMessage,
     StopNotifyingUtxosChangedResponse |-> StopNotifyingUtxosChangedResponseMessage,
     NotifyPruningPointUTXOSetOverrideRequest |->
     NotifyPruningPointUTXOSetOverrideRequestMessage,
     NotifyPruningPointUTXOSetOverrideResponse |->
     NotifyPruningPointUTXOSetOverrideResponseMessage,
     PruningPointUTXOSetOverrideNotification |-> PruningPointUTXOSetOverrideNotificationMessage,
     StopNotifyingPruningPointUTXOSetOverrideRequest |->
     StopNotifyingPruningPointUTXOSetOverrideRequestMessage,
     StopNotifyingPruningPointUTXOSetOverrideResponse |->
     StopNotifyingPruningPointUTXOSetOverrideResponseMessage,
     EstimateNetworkHashesPerSecondRequest |-> EstimateNetworkHashesPerSecondRequestMessage,
     EstimateNetworkHashesPerSecondResponse |-> EstimateNetworkHashesPerSecondResponseMessage,
     NotifyVirtualDaaScoreChangedRequest |-> NotifyVirtualDaaScoreChangedRequestMessage,
     NotifyVirtualDaaScoreChangedResponse |-> NotifyVirtualDaaScoreChangedResponseMessage,
     VirtualDaaScoreChangedNotification |-> VirtualDaaScoreChangedNotificationMessage,
     GetBalanceByAddressRequest |-> GetBalanceByAddressRequestMessage,
     GetBalanceByAddressResponse |-> GetBalanceByAddressResponseMessage,
     GetBalancesByAddressesRequest |-> GetBalancesByAddressesRequestMessage,
     GetBalancesByAddressesResponse |-> GetBalancesByAddressesResponseMessage,
     NotifyNewBlockTemplateRequest |-> NotifyNewBlockTemplateRequestMessage,
     NotifyNewBlockTemplateResponse |-> NotifyNewBlockTemplateResponseMessage,
     NewBlockTemplateNotification |-> NewBlockTemplateNotificationMessage,
     GetMempoolEntriesByAddressesRequest |-> GetMempoolEntriesByAddressesRequestMessage,
     GetMempoolEntriesByAddressesResponse |-> GetMempoolEntriesByAddressesResponseMessage,
     GetCoinSupplyRequest |-> GetCoinSupplyRequestMessage,
     GetCoinSupplyResponse |-> GetCoinSupplyResponseMessage]
====
