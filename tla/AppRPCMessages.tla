---- MODULE AppRPCMessages ----
(***************************************************************************)
(* The structs of app/appmessage/rpc_*.go: the requests, responses and     *)
(* notifications of the RPC server.  A response carries either its fields  *)
(* or an Error.                                                            *)
(***************************************************************************)
EXTENDS MessageTypes

RPCError == Struct([Message |-> String])
AddPeerRequestMessage == Struct([Address |-> String, IsPermanent |-> Bool])
AddPeerResponseMessage == Struct([Error |-> Optional(RPCError)])
BanRequestMessage == Struct([IP |-> String])
BanResponseMessage == Struct([Error |-> Optional(RPCError)])
EstimateNetworkHashesPerSecondRequestMessage ==
    Struct([StartHash |-> String, WindowSize |-> Uint32])
EstimateNetworkHashesPerSecondResponseMessage ==
    Struct([NetworkHashesPerSecond |-> Uint64, Error |-> Optional(RPCError)])
GetBalanceByAddressRequestMessage == Struct([Address |-> String])
GetBalanceByAddressResponseMessage == Struct([Balance |-> Uint64, Error |-> Optional(RPCError)])
GetBalancesByAddressesRequestMessage == Struct([Addresses |-> Slice(String)])
BalancesByAddressesEntry == Struct([Address |-> String, Balance |-> Uint64])
GetBalancesByAddressesResponseMessage ==
    Struct([Entries |-> Slice(BalancesByAddressesEntry), Error |-> Optional(RPCError)])
GetBlockRequestMessage == Struct([Hash |-> String, IncludeTransactions |-> Bool])
RPCBlockLevelParents == Struct([ParentHashes |-> Slice(String)])
RPCBlockHeader ==
    Struct([Version |-> UintUpTo(MaxUint16), Parents |-> Slice(RPCBlockLevelParents),
            HashMerkleRoot |-> String, AcceptedIDMerkleRoot |-> String,
            UTXOCommitment |-> String, Timestamp |-> Int64, Bits |-> Uint32, Nonce |-> Uint64,
            DAAScore |-> Uint64, BlueScore |-> Uint64, BlueWork |-> String,
            PruningPoint |-> String])
RPCOutpoint == Struct([TransactionID |-> String, Index |-> Uint32])
RPCTransactionInputVerboseData == Struct(NoFields)
RPCTransactionInput ==
    Struct([PreviousOutpoint |-> Pointer(RPCOutpoint), SignatureScript |-> String,
            Sequence |-> Uint64, SigOpCount |-> Uint8,
            VerboseData |-> Lost(Optional(RPCTransactionInputVerboseData))])
RPCScriptPublicKey == Struct([Version |-> Uint16, Script |-> String])
RPCTransactionOutputVerboseData ==
    Struct([ScriptPublicKeyType |-> String, ScriptPublicKeyAddress |-> String])
RPCTransactionOutput ==
    Struct([Amount |-> Uint64, ScriptPublicKey |-> Pointer(RPCScriptPublicKey),
            VerboseData |-> Optional(RPCTransactionOutputVerboseData)])
RPCTransactionVerboseData ==
    Struct([TransactionID |-> String, Hash |-> String, Mass |-> Uint64, BlockHash |-> String,
            BlockTime |-> Uint64])
RPCTransaction ==
    Struct([Version |-> Uint16, Inputs |-> Slice(RPCTransactionInput),
            Outputs |-> Slice(RPCTransactionOutput), LockTime |-> Uint64,
            SubnetworkID |-> String, Gas |-> Uint64, Payload |-> String,
            VerboseData |-> Optional(RPCTransactionVerboseData)])
RPCBlockVerboseData ==
    Struct([Hash |-> String, Difficulty |-> Float64, SelectedParentHash |-> String,
            TransactionIDs |-> Slice(String), IsHeaderOnly |-> Bool, BlueScore |-> Uint64,
            ChildrenHashes |-> Slice(String), MergeSetBluesHashes |-> Slice(String),
            MergeSetRedsHashes |-> Slice(String), IsChainBlock |-> Bool])
RPCBlock ==
    Struct([Header |-> Pointer(RPCBlockHeader), Transactions |-> Slice(RPCTransaction),
            VerboseData |-> Optional(RPCBlockVerboseData)])
GetBlockResponseMessage == Struct([Block |-> Pointer(RPCBlock), Error |-> Optional(RPCError)])
GetBlockCountRequestMessage == Struct(NoFields)
GetBlockCountResponseMessage ==
    Struct([BlockCount |-> Uint64, HeaderCount |-> Uint64, Error |-> Optional(RPCError)])
GetBlockDAGInfoRequestMessage == Struct(NoFields)
GetBlockDAGInfoResponseMessage ==
    Struct([NetworkName |-> String, BlockCount |-> Uint64, HeaderCount |-> Uint64,
            TipHashes |-> Slice(String), VirtualParentHashes |-> Slice(String),
            Difficulty |-> Float64, PastMedianTime |-> Int64, PruningPointHash |-> String,
            VirtualDAAScore |-> Uint64, Error |-> Optional(RPCError)])
GetBlockTemplateRequestMessage == Struct([PayAddress |-> String, ExtraData |-> String])
GetBlockTemplateResponseMessage ==
    Struct([Block |-> Pointer(RPCBlock), IsSynced |-> Bool, Error |-> Optional(RPCError)])
GetBlocksRequestMessage ==
    Struct([LowHash |-> String, IncludeBlocks |-> Bool, IncludeTransactions |-> Bool])
GetBlocksResponseMessage ==
    Struct([BlockHashes |-> Slice(String), Blocks |-> Slice(RPCBlock),
            Error |-> Optional(RPCError)])
GetCoinSupplyRequestMessage == Struct(NoFields)
GetCoinSupplyResponseMessage ==
    Struct([MaxSompi |-> Uint64, CirculatingSompi |-> Uint64, Error |-> Optional(RPCError)])
GetConnectedPeerInfoRequestMessage == Struct(NoFields)
GetConnectedPeerInfoMessage ==
    Struct([ID |-> String, Address |-> String, LastPingDuration |-> Int64,
            IsOutbound |-> Bool, TimeOffset |-> Int64, UserAgent |-> String,
            AdvertisedProtocolVersion |-> Uint32, TimeConnected |-> Lost(Int64),
            IsIBDPeer |-> Bool])
GetConnectedPeerInfoResponseMessage ==
    Struct([Infos |-> Slice(GetConnectedPeerInfoMessage), Error |-> Optional(RPCError)])
GetCurrentNetworkRequestMessage == Struct(NoFields)
GetCurrentNetworkResponseMessage ==
    Struct([CurrentNetwork |-> String, Error |-> Optional(RPCError)])
GetHeadersRequestMessage ==
    Struct([StartHash |-> String, Limit |-> Uint64, IsAscending |-> Bool])
GetHeadersResponseMessage == Struct([Headers |-> Slice(String), Error |-> Optional(RPCError)])
GetInfoRequestMessage == Struct(NoFields)
GetInfoResponseMessage ==
    Struct([P2PID |-> String, MempoolSize |-> Uint64, ServerVersion |-> String,
            IsUtxoIndexed |-> Bool, IsSynced |-> Bool, Error |-> Optional(RPCError)])
GetMempoolEntriesRequestMessage ==
    Struct([IncludeOrphanPool |-> Bool, FilterTransactionPool |-> Bool])
MempoolEntry ==
    Struct([Fee |-> Uint64, Transaction |-> Pointer(RPCTransaction), IsOrphan |-> Bool])
GetMempoolEntriesResponseMessage ==
    Struct([Entries |-> Slice(MempoolEntry), Error |-> Optional(RPCError)])
MempoolEntryByAddress ==
    Struct([Address |-> String, Receiving |-> Slice(MempoolEntry),
            Sending |-> Slice(MempoolEntry)])
GetMempoolEntriesByAddressesRequestMessage ==
    Struct([Addresses |-> Slice(String), IncludeOrphanPool |-> Bool,
            FilterTransactionPool |-> Bool])
GetMempoolEntriesByAddressesResponseMessage ==
    Struct([Entries |-> Slice(MempoolEntryByAddress), Error |-> Optional(RPCError)])
GetMempoolEntryRequestMessage ==
    Struct([TxID |-> String, IncludeOrphanPool |-> Bool, FilterTransactionPool |-> Bool])
GetMempoolEntryResponseMessage ==
    Struct([Entry |-> Pointer(MempoolEntry), Error |-> Optional(RPCError)])
GetPeerAddressesRequestMessage == Struct(NoFields)
GetPeerAddressesKnownAddressMessage == Struct([Addr |-> String])
GetPeerAddressesResponseMessage ==
    Struct([Addresses |-> Slice(GetPeerAddressesKnownAddressMessage),
            BannedAddresses |-> Slice(GetPeerAddressesKnownAddressMessage),
            Error |-> Optional(RPCError)])
GetSelectedTipHashRequestMessage == Struct(NoFields)
GetSelectedTipHashResponseMessage ==
    Struct([SelectedTipHash |-> String, Error |-> Optional(RPCError)])
GetSubnetworkRequestMessage == Struct([SubnetworkID |-> String])
GetSubnetworkResponseMessage == Struct([GasLimit |-> Uint64, Error |-> Optional(RPCError)])
GetUTXOsByAddressesRequestMessage == Struct([Addresses |-> Slice(String)])
RPCUTXOEntry ==
    Struct([Amount |-> Uint64, ScriptPublicKey |-> Pointer(RPCScriptPublicKey),
            BlockDAAScore |-> Uint64, IsCoinbase |-> Bool])
UTXOsByAddressesEntryWith(entry) ==
    Struct([Address |-> String, Outpoint |-> Pointer(RPCOutpoint), UTXOEntry |-> entry])
UTXOsByAddressesEntry == UTXOsByAddressesEntryWith(Optional(RPCUTXOEntry))
GetUTXOsByAddressesResponseMessage ==
    Struct([Entries |-> Slice(UTXOsByAddressesEntry), Error |-> Optional(RPCError)])
GetVirtualSelectedParentBlueScoreRequestMessage == Struct(NoFields)
GetVirtualSelectedParentBlueScoreResponseMessage ==
    Struct([BlueScore |-> Uint64, Error |-> Optional(RPCError)])
GetVirtualSelectedParentChainFromBlockRequestMessage ==
    Struct([StartHash |-> String, IncludeAcceptedTransactionIDs |-> Bool])
AcceptedTransactionIDs ==
    Struct([AcceptingBlockHash |-> String, AcceptedTransactionIDs |-> Slice(String)])
GetVirtualSelectedParentChainFromBlockResponseMessage ==
    Struct([RemovedChainBlockHashes |-> Slice(String),
            AddedChainBlockHashes |-> Slice(String),
            AcceptedTransactionIDs |-> Slice(AcceptedTransactionIDs),
            Error |-> Optional(RPCError)])
NotifyBlockAddedRequestMessage == Struct(NoFields)
NotifyBlockAddedResponseMessage == Struct([Error |-> Optional(RPCError)])
BlockAddedNotificationMessage == Struct([Block |-> Pointer(RPCBlock)])
NotifyFinalityConflictsRequestMessage == Struct(NoFields)
NotifyFinalityConflictsResponseMessage == Struct([Error |-> Optional(RPCError)])
FinalityConflictNotificationMessage == Struct([ViolatingBlockHash |-> String])
FinalityConflictResolvedNotificationMessage == Struct([FinalityBlockHash |-> String])
NotifyNewBlockTemplateRequestMessage == Struct(NoFields)
NotifyNewBlockTemplateResponseMessage == Struct([Error |-> Optional(RPCError)])
NewBlockTemplateNotificationMessage == Struct(NoFields)
NotifyPruningPointUTXOSetOverrideRequestMessage == Struct(NoFields)
NotifyPruningPointUTXOSetOverrideResponseMessage == Struct([Error |-> Optional(RPCError)])
PruningPointUTXOSetOverrideNotificationMessage == Struct(NoFields)
StopNotifyingPruningPointUTXOSetOverrideRequestMessage == Struct(NoFields)
StopNotifyingPruningPointUTXOSetOverrideResponseMessage ==
    Struct([Error |-> Optional(RPCError)])
NotifyUTXOsChangedRequestMessage == Struct([Addresses |-> Slice(String)])
NotifyUTXOsChangedResponseMessage == Struct([Error |-> Optional(RPCError)])
UTXOsChangedNotificationMessage ==
    Struct([Added |-> Slice(UTXOsByAddressesEntryWith(Pointer(RPCUTXOEntry))),
            Removed |-> Slice(UTXOsByAddressesEntry)])
NotifyVirtualDaaScoreChangedRequestMessage == Struct(NoFields)
NotifyVirtualDaaScoreChangedResponseMessage == Struct([Error |-> Optional(RPCError)])
VirtualDaaScoreChangedNotificationMessage == Struct([VirtualDaaScore |-> Uint64])
NotifyVirtualSelectedParentBlueScoreChangedRequestMessage == Struct(NoFields)
NotifyVirtualSelectedParentBlueScoreChangedResponseMessage ==
    Struct([Error |-> Optional(RPCError)])
VirtualSelectedParentBlueScoreChangedNotificationMessage ==
    Struct([VirtualSelectedParentBlueScore |-> Uint64])
NotifyVirtualSelectedParentChainChangedRequestMessage ==
    Struct([IncludeAcceptedTransactionIDs |-> Bool])
NotifyVirtualSelectedParentChainChangedResponseMessage == Struct([Error |-> Optional(RPCError)])
VirtualSelectedParentChainChangedNotificationMessage ==
    Struct([RemovedChainBlockHashes |-> Slice(String),
            AddedChainBlockHashes |-> Slice(String),
            AcceptedTransactionIDs |-> Slice(AcceptedTransactionIDs)])
ResolveFinalityConflictRequestMessage == Struct([FinalityBlockHash |-> String])
ResolveFinalityConflictResponseMessage == Struct([Error |-> Optional(RPCError)])
ShutDownRequestMessage == Struct(NoFields)
ShutDownResponseMessage == Struct([Error |-> Optional(RPCError)])
StopNotifyingUTXOsChangedRequestMessage == Struct([Addresses |-> Slice(String)])
StopNotifyingUTXOsChangedResponseMessage == Struct([Error |-> Optional(RPCError)])
SubmitBlockRequestMessage == Struct([Block |-> Pointer(RPCBlock), AllowNonDAABlocks |-> Bool])
SubmitBlockResponseMessage ==
    Struct([RejectReason |-> UintUpTo(2), Error |-> Optional(RPCError)])
SubmitTransactionRequestMessage ==
    Struct([Transaction |-> Pointer(RPCTransaction), AllowOrphan |-> Bool])
SubmitTransactionResponseMessage ==
    Struct([TransactionID |-> String, Error |-> Optional(RPCError)])
UnbanRequestMessage == Struct([IP |-> String])
UnbanResponseMessage == Struct([Error |-> Optional(RPCError)])

\* The message types, by name.
RPCMessages ==
    [AddPeerRequestMessage |-> AddPeerRequestMessage,
     AddPeerResponseMessage |-> AddPeerResponseMessage, BanRequestMessage |-> BanRequestMessage,
     BanResponseMessage |-> BanResponseMessage, EstimateNetworkHashesPerSecondRequestMessage |->
     EstimateNetworkHashesPerSecondRequestMessage,
     EstimateNetworkHashesPerSecondResponseMessage |->
     EstimateNetworkHashesPerSecondResponseMessage,
     GetBalanceByAddressRequestMessage |-> GetBalanceByAddressRequestMessage,
     GetBalanceByAddressResponseMessage |-> GetBalanceByAddressResponseMessage,
     GetBalancesByAddressesRequestMessage |-> GetBalancesByAddressesRequestMessage,
     GetBalancesByAddressesResponseMessage |-> GetBalancesByAddressesResponseMessage,
     GetBlockRequestMessage |-> GetBlockRequestMessage,
     GetBlockResponseMessage |-> GetBlockResponseMessage,
     GetBlockCountRequestMessage |-> GetBlockCountRequestMessage,
     GetBlockCountResponseMessage |-> GetBlockCountResponseMessage,
     GetBlockDAGInfoRequestMessage |-> GetBlockDAGInfoRequestMessage,
     GetBlockDAGInfoResponseMessage |-> GetBlockDAGInfoResponseMessage,
     GetBlockTemplateRequestMessage |-> GetBlockTemplateRequestMessage,
     GetBlockTemplateResponseMessage |-> GetBlockTemplateResponseMessage,
     GetBlocksRequestMessage |-> GetBlocksRequestMessage,
     GetBlocksResponseMessage |-> GetBlocksResponseMessage,
     GetCoinSupplyRequestMessage |-> GetCoinSupplyRequestMessage,
     GetCoinSupplyResponseMessage |-> GetCoinSupplyResponseMessage,
     GetConnectedPeerInfoRequestMessage |-> GetConnectedPeerInfoRequestMessage,
     GetConnectedPeerInfoResponseMessage |-> GetConnectedPeerInfoResponseMessage,
     GetCurrentNetworkRequestMessage |-> GetCurrentNetworkRequestMessage,
     GetCurrentNetworkResponseMessage |-> GetCurrentNetworkResponseMessage,
     GetHeadersRequestMessage |-> GetHeadersRequestMessage,
     GetHeadersResponseMessage |-> GetHeadersResponseMessage,
     GetInfoRequestMessage |-> GetInfoRequestMessage,
     GetInfoResponseMessage |-> GetInfoResponseMessage,
     GetMempoolEntriesRequestMessage |-> GetMempoolEntriesRequestMessage,
     GetMempoolEntriesResponseMessage |-> GetMempoolEntriesResponseMessage,
     GetMempoolEntriesByAddressesRequestMessage |-> GetMempoolEntriesByAddressesRequestMessage,
     GetMempoolEntriesByAddressesResponseMessage |->
     GetMempoolEntriesByAddressesResponseMessage,
     GetMempoolEntryRequestMessage |-> GetMempoolEntryRequestMessage,
     GetMempoolEntryResponseMessage |-> GetMempoolEntryResponseMessage,
     GetPeerAddressesRequestMessage |-> GetPeerAddressesRequestMessage,
     GetPeerAddressesResponseMessage |-> GetPeerAddressesResponseMessage,
     GetSelectedTipHashRequestMessage |-> GetSelectedTipHashRequestMessage,
     GetSelectedTipHashResponseMessage |-> GetSelectedTipHashResponseMessage,
     GetSubnetworkRequestMessage |-> GetSubnetworkRequestMessage,
     GetSubnetworkResponseMessage |-> GetSubnetworkResponseMessage,
     GetUTXOsByAddressesRequestMessage |-> GetUTXOsByAddressesRequestMessage,
     GetUTXOsByAddressesResponseMessage |-> GetUTXOsByAddressesResponseMessage,
     GetVirtualSelectedParentBlueScoreRequestMessage |->
     GetVirtualSelectedParentBlueScoreRequestMessage,
     GetVirtualSelectedParentBlueScoreResponseMessage |->
     GetVirtualSelectedParentBlueScoreResponseMessage,
     GetVirtualSelectedParentChainFromBlockRequestMessage |->
     GetVirtualSelectedParentChainFromBlockRequestMessage,
     GetVirtualSelectedParentChainFromBlockResponseMessage |->
     GetVirtualSelectedParentChainFromBlockResponseMessage,
     NotifyBlockAddedRequestMessage |-> NotifyBlockAddedRequestMessage,
     NotifyBlockAddedResponseMessage |-> NotifyBlockAddedResponseMessage,
     BlockAddedNotificationMessage |-> BlockAddedNotificationMessage,
     NotifyFinalityConflictsRequestMessage |-> NotifyFinalityConflictsRequestMessage,
     NotifyFinalityConflictsResponseMessage |-> NotifyFinalityConflictsResponseMessage,
     FinalityConflictNotificationMessage |-> FinalityConflictNotificationMessage,
     FinalityConflictResolvedNotificationMessage |->
     FinalityConflictResolvedNotificationMessage,
     NotifyNewBlockTemplateRequestMessage |-> NotifyNewBlockTemplateRequestMessage,
     NotifyNewBlockTemplateResponseMessage |-> NotifyNewBlockTemplateResponseMessage,
     NewBlockTemplateNotificationMessage |-> NewBlockTemplateNotificationMessage,
     NotifyPruningPointUTXOSetOverrideRequestMessage |->
     NotifyPruningPointUTXOSetOverrideRequestMessage,
     NotifyPruningPointUTXOSetOverrideResponseMessage |->
     NotifyPruningPointUTXOSetOverrideResponseMessage,
     PruningPointUTXOSetOverrideNotificationMessage |->
     PruningPointUTXOSetOverrideNotificationMessage,
     StopNotifyingPruningPointUTXOSetOverrideRequestMessage |->
     StopNotifyingPruningPointUTXOSetOverrideRequestMessage,
     StopNotifyingPruningPointUTXOSetOverrideResponseMessage |->
     StopNotifyingPruningPointUTXOSetOverrideResponseMessage,
     NotifyUTXOsChangedRequestMessage |-> NotifyUTXOsChangedRequestMessage,
     NotifyUTXOsChangedResponseMessage |-> NotifyUTXOsChangedResponseMessage,
     UTXOsChangedNotificationMessage |-> UTXOsChangedNotificationMessage,
     NotifyVirtualDaaScoreChangedRequestMessage |-> NotifyVirtualDaaScoreChangedRequestMessage,
     NotifyVirtualDaaScoreChangedResponseMessage |->
     NotifyVirtualDaaScoreChangedResponseMessage, VirtualDaaScoreChangedNotificationMessage |->
     VirtualDaaScoreChangedNotificationMessage,
     NotifyVirtualSelectedParentBlueScoreChangedRequestMessage |->
     NotifyVirtualSelectedParentBlueScoreChangedRequestMessage,
     NotifyVirtualSelectedParentBlueScoreChangedResponseMessage |->
     NotifyVirtualSelectedParentBlueScoreChangedResponseMessage,
     VirtualSelectedParentBlueScoreChangedNotificationMessage |->
     VirtualSelectedParentBlueScoreChangedNotificationMessage,
     NotifyVirtualSelectedParentChainChangedRequestMessage |->
     NotifyVirtualSelectedParentChainChangedRequestMessage,
     NotifyVirtualSelectedParentChainChangedResponseMessage |->
     NotifyVirtualSelectedParentChainChangedResponseMessage,
     VirtualSelectedParentChainChangedNotificationMessage |->
     VirtualSelectedParentChainChangedNotificationMessage,
     ResolveFinalityConflictRequestMessage |-> ResolveFinalityConflictRequestMessage,
     ResolveFinalityConflictResponseMessage |-> ResolveFinalityConflictResponseMessage,
     ShutDownRequestMessage |-> ShutDownRequestMessage,
     ShutDownResponseMessage |-> ShutDownResponseMessage,
     StopNotifyingUTXOsChangedRequestMessage |-> StopNotifyingUTXOsChangedRequestMessage,
     StopNotifyingUTXOsChangedResponseMessage |-> StopNotifyingUTXOsChangedResponseMessage,
     SubmitBlockRequestMessage |-> SubmitBlockRequestMessage,
     SubmitBlockResponseMessage |-> SubmitBlockResponseMessage,
     SubmitTransactionRequestMessage |-> SubmitTransactionRequestMessage,
     SubmitTransactionResponseMessage |-> SubmitTransactionResponseMessage,
     UnbanRequestMessage |-> UnbanRequestMessage, UnbanResponseMessage |-> UnbanResponseMessage]
====
