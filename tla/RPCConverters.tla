---- MODULE RPCConverters ----
(***************************************************************************)
(* protowire/rpc_*.go: the converters between the requests, responses and  *)
(* notifications of the RPC server and their protobuf structures, in the   *)
(* order of their files.  toAppMessage of                                  *)
(* C4exdMessage_GetCurrentNetworkResponse calls itself: a converter that   *)
(* never returns has no result.                                            *)
(***************************************************************************)
EXTENDS RPCPartConverters

AddPeerRequestToApp(x) ==
    Require(x # Nil, {[type |-> "AddPeerRequestMessage", Address |-> x.Address,
                       IsPermanent |-> x.IsPermanent]})

AddPeerRequestFromApp(m) == {[Address |-> m.Address, IsPermanent |-> m.IsPermanent]}

AddPeerResponseToApp(x) == OnlyErrorToApp(x, "AddPeerResponseMessage")

AddPeerResponseFromApp(m) == OnlyErrorFromApp(m)

BanRequestToApp(x) == Require(x # Nil, {[type |-> "BanRequestMessage", IP |-> x.Ip]})

BanRequestFromApp(m) == {[Ip |-> m.IP]}

BanResponseToApp(x) == OnlyErrorToApp(x, "BanResponseMessage")

BanResponseFromApp(m) == OnlyErrorFromApp(m)

EstimateNetworkHashesPerSecondRequestToApp(x) ==
    Require(x # Nil, {[type |-> "EstimateNetworkHashesPerSecondRequestMessage",
                       WindowSize |-> x.WindowSize, StartHash |-> x.StartHash]})

EstimateNetworkHashesPerSecondRequestFromApp(m) ==
    {[WindowSize |-> m.WindowSize, StartHash |-> m.StartHash]}

EstimateNetworkHashesPerSecondResponseToApp(x) ==
    Response(x, x.NetworkHashesPerSecond # 0,
             [type |-> "EstimateNetworkHashesPerSecondResponseMessage",
              NetworkHashesPerSecond |-> x.NetworkHashesPerSecond,
              Error |-> RPCErrorToApp(x.Error)])

EstimateNetworkHashesPerSecondResponseFromApp(m) ==
    {[NetworkHashesPerSecond |-> m.NetworkHashesPerSecond,
      Error |-> RPCErrorFromApp(m.Error)]}

GetBalanceByAddressRequestToApp(x) ==
    Require(x # Nil, {[type |-> "GetBalanceByAddressRequestMessage", Address |-> x.Address]})

GetBalanceByAddressRequestFromApp(m) == {[Address |-> m.Address]}

GetBalanceByAddressResponseToApp(x) ==
    Response(x, x.Balance # 1,
             [type |-> "GetBalanceByAddressResponseMessage", Balance |-> x.Balance,
              Error |-> RPCErrorToApp(x.Error)])

GetBalanceByAddressResponseFromApp(m) ==
    {[Balance |-> m.Balance, Error |-> RPCErrorFromApp(m.Error)]}

GetBalancesByAddressesRequestToApp(x) ==
    Require(x # Nil, {[type |-> "GetBalancesByAddressesRequestMessage",
                       Addresses |-> x.Addresses]})

GetBalancesByAddressesRequestFromApp(m) == {[Addresses |-> m.Addresses]}

GetBalancesByAddressesResponseToApp(x) ==
    Require(x # Nil /\ ~(x.Error # Nil /\ x.Entries # <<>>),
            {[type |-> "GetBalancesByAddressesResponseMessage", Entries |-> entries,
              Error |-> RPCErrorToApp(x.Error)] :
                entries \in Each(BalancesByAddressEntryToApp, x.Entries)})

GetBalancesByAddressesResponseFromApp(m) ==
    {[Entries |-> MapSlice(BalancesByAddressEntryFromApp, m.Entries),
      Error |-> RPCErrorFromApp(m.Error)]}

GetBlockRequestToApp(x) ==
    Require(x # Nil, {[type |-> "GetBlockRequestMessage", Hash |-> x.Hash,
                       IncludeTransactions |-> x.IncludeTransactions]})

GetBlockRequestFromApp(m) == {[Hash |-> m.Hash, IncludeTransactions |-> m.IncludeTransactions]}

GetBlockResponseToApp(x) ==
    Require(x # Nil /\ ~(x.Error # Nil /\ x.Block # Nil),
            {[type |-> "GetBlockResponseMessage", Block |-> block,
              Error |-> RPCErrorToApp(x.Error)] :
                block \in IF x.Error # Nil THEN {Nil} ELSE RpcBlockToApp(x.Block)})

GetBlockResponseFromApp(m) ==
    {[Block |-> IF m.Block = Nil THEN Nil ELSE RpcBlockFromApp(m.Block),
      Error |-> RPCErrorFromApp(m.Error)]}

GetBlockCountRequestToApp(x) == {[type |-> "GetBlockCountRequestMessage"]}

GetBlockCountRequestFromApp(m) == {NoFields}

GetBlockCountResponseToApp(x) ==
    Response(x, x.BlockCount # 0 \/ x.HeaderCount # 0,
             [type |-> "GetBlockCountResponseMessage", BlockCount |-> x.BlockCount,
              HeaderCount |-> x.HeaderCount, Error |-> RPCErrorToApp(x.Error)])

GetBlockCountResponseFromApp(m) ==
    {[BlockCount |-> m.BlockCount, HeaderCount |-> m.HeaderCount,
      Error |-> RPCErrorFromApp(m.Error)]}

GetBlockDagInfoRequestToApp(x) == {[type |-> "GetBlockDAGInfoRequestMessage"]}

GetBlockDagInfoRequestFromApp(m) == {NoFields}

GetBlockDagInfoResponseToApp(x) ==
    Response(x, x.NetworkName # <<>> \/ x.BlockCount # 0 \/ x.HeaderCount # 0
                \/ x.TipHashes # <<>> \/ x.VirtualParentHashes # <<>>
                \/ x.Difficulty # 0 \/ x.PastMedianTime # 0
                \/ x.PruningPointHash # <<>>,
             [type |-> "GetBlockDAGInfoResponseMessage", NetworkName |-> x.NetworkName,
              BlockCount |-> x.BlockCount, HeaderCount |-> x.HeaderCount,
              TipHashes |-> x.TipHashes, VirtualParentHashes |-> x.VirtualParentHashes,
              Difficulty |-> x.Difficulty, PastMedianTime |-> x.PastMedianTime,
              PruningPointHash |-> x.PruningPointHash,
              VirtualDAAScore |-> x.VirtualDaaScore, Error |-> RPCErrorToApp(x.Error)])

GetBlockDagInfoResponseFromApp(m) ==
    {[NetworkName |-> m.NetworkName, BlockCount |-> m.BlockCount,
      HeaderCount |-> m.HeaderCount, TipHashes |-> m.TipHashes,
      VirtualParentHashes |-> m.VirtualParentHashes, Difficulty |-> m.Difficulty,
      PastMedianTime |-> m.PastMedianTime, PruningPointHash |-> m.PruningPointHash,
      VirtualDaaScore |-> m.VirtualDAAScore, Error |-> RPCErrorFromApp(m.Error)]}

GetBlockTemplateRequestToApp(x) ==
    Require(x # Nil, {[type |-> "GetBlockTemplateRequestMessage",
                       PayAddress |-> x.PayAddress, ExtraData |-> x.ExtraData]})

GetBlockTemplateRequestFromApp(m) == {[PayAddress |-> m.PayAddress, ExtraData |-> m.ExtraData]}

GetBlockTemplateResponseToApp(x) ==
    Require(x # Nil,
            {[type |-> "GetBlockTemplateResponseMessage", Block |-> block,
              IsSynced |-> x.IsSynced, Error |-> RPCErrorToApp(x.Error)] :
                block \in OptionalPart(RpcBlockToApp, x.Block)})

GetBlockTemplateResponseFromApp(m) ==
    {[Block |-> IF m.Block = Nil THEN Nil ELSE RpcBlockFromApp(m.Block),
      IsSynced |-> m.IsSynced, Error |-> RPCErrorFromApp(m.Error)]}

GetBlocksRequestToApp(x) ==
    Require(x # Nil, {[type |-> "GetBlocksRequestMessage", LowHash |-> x.LowHash,
                       IncludeBlocks |-> x.IncludeBlocks,
                       IncludeTransactions |-> x.IncludeTransactions]})

GetBlocksRequestFromApp(m) ==
    {[LowHash |-> m.LowHash, IncludeBlocks |-> m.IncludeBlocks,
      IncludeTransactions |-> m.IncludeTransactions]}

GetBlocksResponseToApp(x) ==
    Require(x # Nil /\ ~(x.Error # Nil /\ x.Blocks # <<>>),
            {[type |-> "GetBlocksResponseMessage", BlockHashes |-> x.BlockHashes,
              Blocks |-> blocks, Error |-> RPCErrorToApp(x.Error)] :
                blocks \in Each(RpcBlockToApp, x.Blocks)})

GetBlocksResponseFromApp(m) ==
    {[Error |-> RPCErrorFromApp(m.Error), BlockHashes |-> m.BlockHashes,
      Blocks |-> MapSlice(RpcBlockFromApp, m.Blocks)]}

GetConnectedPeerInfoRequestToApp(x) == {[type |-> "GetConnectedPeerInfoRequestMessage"]}

GetConnectedPeerInfoRequestFromApp(m) == {Nil}

GetConnectedPeerInfoResponseToApp(x) ==
    Require(x # Nil /\ ~(x.Error # Nil /\ x.Infos # <<>>),
            {[type |-> "GetConnectedPeerInfoResponseMessage", Infos |-> infos,
              Error |-> RPCErrorToApp(x.Error)] :
                infos \in Each(ConnectedPeerInfoToApp, x.Infos)})

GetConnectedPeerInfoResponseFromApp(m) ==
    {[Infos |-> MapSlice(ConnectedPeerInfoFromApp, m.Infos),
      Error |-> RPCErrorFromApp(m.Error)]}

GetCurrentNetworkRequestToApp(x) == {[type |-> "GetCurrentNetworkRequestMessage"]}

GetCurrentNetworkRequestFromApp(m) == {Nil}

GetCurrentNetworkResponseToApp(x) == {}

GetCurrentNetworkResponseFromApp(m) ==
    {[CurrentNetwork |-> m.CurrentNetwork, Error |-> RPCErrorFromApp(m.Error)]}

GetHeadersRequestToApp(x) ==
    Require(x # Nil, {[type |-> "GetHeadersRequestMessage", StartHash |-> x.StartHash,
                       Limit |-> x.Limit, IsAscending |-> x.IsAscending]})

GetHeadersRequestFromApp(m) ==
    {[StartHash |-> m.StartHash, Limit |-> m.Limit, IsAscending |-> m.IsAscending]}

GetHeadersResponseToApp(x) ==
    Response(x, x.Headers # <<>>,
             [type |-> "GetHeadersResponseMessage", Headers |-> x.Headers,
              Error |-> RPCErrorToApp(x.Error)])

GetHeadersResponseFromApp(m) == {[Headers |-> m.Headers, Error |-> RPCErrorFromApp(m.Error)]}

GetInfoRequestToApp(x) == {[type |-> "GetInfoRequestMessage"]}

GetInfoRequestFromApp(m) == {NoFields}

GetInfoResponseToApp(x) ==
    Response(x, x.P2PId # <<>>,
             [type |-> "GetInfoResponseMessage", P2PID |-> x.P2PId,
              MempoolSize |-> x.MempoolSize, ServerVersion |-> x.ServerVersion,
              IsUtxoIndexed |-> x.IsUtxoIndexed, IsSynced |-> x.IsSynced,
              Error |-> RPCErrorToApp(x.Error)])

GetInfoResponseFromApp(m) ==
    {[P2PId |-> m.P2PID, ServerVersion |-> m.ServerVersion, MempoolSize |-> m.MempoolSize,
      IsUtxoIndexed |-> m.IsUtxoIndexed, IsSynced |-> m.IsSynced,
      Error |-> RPCErrorFromApp(m.Error)]}

GetMempoolEntriesRequestToApp(x) ==
    Require(x # Nil, {[type |-> "GetMempoolEntriesRequestMessage",
                       IncludeOrphanPool |-> x.IncludeOrphanPool,
                       FilterTransactionPool |-> x.FilterTransactionPool]})

GetMempoolEntriesRequestFromApp(m) ==
    {[IncludeOrphanPool |-> m.IncludeOrphanPool,
      FilterTransactionPool |-> m.FilterTransactionPool]}

GetMempoolEntriesResponseToApp(x) ==
    Require(x # Nil /\ ~(x.Error # Nil /\ x.Entries # <<>>),
            {[type |-> "GetMempoolEntriesResponseMessage", Entries |-> entries,
              Error |-> RPCErrorToApp(x.Error)] :
                entries \in Each(MempoolEntryToApp, x.Entries)})

GetMempoolEntriesResponseFromApp(m) ==
    {[Entries |-> MapSlice(MempoolEntryFromApp, m.Entries),
      Error |-> RPCErrorFromApp(m.Error)]}

GetMempoolEntriesByAddressesRequestToApp(x) ==
    Require(x # Nil, {[type |-> "GetMempoolEntriesByAddressesRequestMessage",
                       Addresses |-> x.Addresses,
                       IncludeOrphanPool |-> x.IncludeOrphanPool,
                       FilterTransactionPool |-> x.FilterTransactionPool]})

GetMempoolEntriesByAddressesRequestFromApp(m) ==
    {[Addresses |-> m.Addresses, IncludeOrphanPool |-> m.IncludeOrphanPool,
      FilterTransactionPool |-> m.FilterTransactionPool]}

GetMempoolEntriesByAddressesResponseToApp(x) ==
    Require(x # Nil /\ ~(x.Error # Nil /\ x.Entries # <<>>),
            {[type |-> "GetMempoolEntriesByAddressesResponseMessage", Entries |-> entries,
              Error |-> RPCErrorToApp(x.Error)] :
                entries \in Each(MempoolEntryByAddressToApp, x.Entries)})

GetMempoolEntriesByAddressesResponseFromApp(m) ==
    {[Entries |-> MapSlice(MempoolEntryByAddressFromApp, m.Entries),
      Error |-> RPCErrorFromApp(m.Error)]}

GetMempoolEntryRequestToApp(x) ==
    Require(x # Nil, {[type |-> "GetMempoolEntryRequestMessage", TxID |-> x.TxId,
                       IncludeOrphanPool |-> x.IncludeOrphanPool,
                       FilterTransactionPool |-> x.FilterTransactionPool]})

GetMempoolEntryRequestFromApp(m) ==
    {[TxId |-> m.TxID, IncludeOrphanPool |-> m.IncludeOrphanPool,
      FilterTransactionPool |-> m.FilterTransactionPool]}

GetMempoolEntryResponseToApp(x) ==
    Require(x # Nil,
            {[type |-> "GetMempoolEntryResponseMessage", Entry |-> entry,
              Error |-> RPCErrorToApp(x.Error)] :
                entry \in {e \in IF x.Entry = Nil \/ x.Entry.Transaction = Nil
                                    THEN {Nil} ELSE MempoolEntryToApp(x.Entry) :
                             ~(x.Error # Nil /\ e # Nil)}})

GetMempoolEntryResponseFromApp(m) ==
    {[Entry |-> IF m.Entry = Nil THEN Nil ELSE MempoolEntryFromApp(m.Entry),
      Error |-> RPCErrorFromApp(m.Error)]}

GetPeerAddressesRequestToApp(x) == {[type |-> "GetPeerAddressesRequestMessage"]}

GetPeerAddressesRequestFromApp(m) == {Nil}

GetPeerAddressesResponseToApp(x) ==
    Require(x # Nil /\ ~(x.Error # Nil /\ (x.Addresses # <<>> \/ x.BannedAddresses # <<>>)),
            {[type |-> "GetPeerAddressesResponseMessage", Addresses |-> addresses,
              BannedAddresses |-> banned, Error |-> RPCErrorToApp(x.Error)] :
                addresses \in Each(KnownAddressToApp, x.Addresses),
                banned \in Each(KnownAddressToApp, x.BannedAddresses)})

GetPeerAddressesResponseFromApp(m) ==
    {[Addresses |-> MapSlice(KnownAddressFromApp, m.Addresses),
      BannedAddresses |-> MapSlice(KnownAddressFromApp, m.BannedAddresses),
      Error |-> RPCErrorFromApp(m.Error)]}

GetSelectedTipHashRequestToApp(x) == {[type |-> "GetSelectedTipHashRequestMessage"]}

GetSelectedTipHashRequestFromApp(m) == {Nil}

GetSelectedTipHashResponseToApp(x) ==
    Response(x, x.SelectedTipHash # <<>>,
             [type |-> "GetSelectedTipHashResponseMessage",
              SelectedTipHash |-> x.SelectedTipHash, Error |-> RPCErrorToApp(x.Error)])

GetSelectedTipHashResponseFromApp(m) ==
    {[SelectedTipHash |-> m.SelectedTipHash, Error |-> RPCErrorFromApp(m.Error)]}

GetSubnetworkRequestToApp(x) ==
    Require(x # Nil, {[type |-> "GetSubnetworkRequestMessage",
                       SubnetworkID |-> x.SubnetworkId]})

GetSubnetworkRequestFromApp(m) == {[SubnetworkId |-> m.SubnetworkID]}

GetSubnetworkResponseToApp(x) ==
    Response(x, x.GasLimit # 0,
             [type |-> "GetSubnetworkResponseMessage", GasLimit |-> x.GasLimit,
              Error |-> RPCErrorToApp(x.Error)])

GetSubnetworkResponseFromApp(m) ==
    {[GasLimit |-> m.GasLimit, Error |-> RPCErrorFromApp(m.Error)]}

GetCoinSupplyRequestToApp(x) == {[type |-> "GetCoinSupplyRequestMessage"]}

GetCoinSupplyRequestFromApp(m) == {NoFields}

GetCoinSupplyResponseToApp(x) ==
    Require(x # Nil, {[type |-> "GetCoinSupplyResponseMessage", MaxSompi |-> x.MaxSompi,
                       CirculatingSompi |-> x.CirculatingSompi,
                       Error |-> RPCErrorToApp(x.Error)]})

GetCoinSupplyResponseFromApp(m) ==
    {[MaxSompi |-> m.MaxSompi, CirculatingSompi |-> m.CirculatingSompi,
      Error |-> RPCErrorFromApp(m.Error)]}

GetUtxosByAddressesRequestToApp(x) ==
    Require(x # Nil, {[type |-> "GetUTXOsByAddressesRequestMessage",
                       Addresses |-> x.Addresses]})

GetUtxosByAddressesRequestFromApp(m) == {[Addresses |-> m.Addresses]}

GetUtxosByAddressesResponseToApp(x) ==
    Require(x # Nil /\ ~(x.Error # Nil /\ x.Entries # <<>>),
            {[type |-> "GetUTXOsByAddressesResponseMessage", Entries |-> entries,
              Error |-> RPCErrorToApp(x.Error)] :
                entries \in Each(UtxosByAddressesEntryToApp, x.Entries)})

GetUtxosByAddressesResponseFromApp(m) ==
    {[Entries |-> MapSlice(UtxosByAddressesEntryFromApp, m.Entries),
      Error |-> RPCErrorFromApp(m.Error)]}

GetVirtualSelectedParentBlueScoreRequestToApp(x) ==
    {[type |-> "GetVirtualSelectedParentBlueScoreRequestMessage"]}

GetVirtualSelectedParentBlueScoreRequestFromApp(m) == {NoFields}

GetVirtualSelectedParentBlueScoreResponseToApp(x) ==
    Response(x, x.BlueScore # 0,
             [type |-> "GetVirtualSelectedParentBlueScoreResponseMessage",
              BlueScore |-> x.BlueScore, Error |-> RPCErrorToApp(x.Error)])

GetVirtualSelectedParentBlueScoreResponseFromApp(m) ==
    {[BlueScore |-> m.BlueScore, Error |-> RPCErrorFromApp(m.Error)]}

GetVirtualSelectedParentChainFromBlockRequestToApp(x) ==
    Require(x # Nil, {[type |-> "GetVirtualSelectedParentChainFromBlockRequestMessage",
                       StartHash |-> x.StartHash,
                       IncludeAcceptedTransactionIDs |-> x.IncludeAcceptedTransactionIds]})

GetVirtualSelectedParentChainFromBlockRequestFromApp(m) ==
    {[StartHash |-> m.StartHash,
      IncludeAcceptedTransactionIds |-> m.IncludeAcceptedTransactionIDs]}

GetVirtualSelectedParentChainFromBlockResponseToApp(x) ==
    Response(x, x.AddedChainBlockHashes # <<>> \/ x.RemovedChainBlockHashes # <<>>,
             [type |-> "GetVirtualSelectedParentChainFromBlockResponseMessage",
              RemovedChainBlockHashes |-> x.RemovedChainBlockHashes,
              AddedChainBlockHashes |-> x.AddedChainBlockHashes,
              AcceptedTransactionIDs |-> MapSlice(AcceptedTransactionIdsToApp,
                                                  x.AcceptedTransactionIds),
              Error |-> RPCErrorToApp(x.Error)])

GetVirtualSelectedParentChainFromBlockResponseFromApp(m) ==
    {[RemovedChainBlockHashes |-> m.RemovedChainBlockHashes,
      AddedChainBlockHashes |-> m.AddedChainBlockHashes,
      AcceptedTransactionIds |-> MapSlice(AcceptedTransactionIdsFromApp,
                                          m.AcceptedTransactionIDs),
      Error |-> RPCErrorFromApp(m.Error)]}

NotifyBlockAddedRequestToApp(x) == {[type |-> "NotifyBlockAddedRequestMessage"]}

NotifyBlockAddedRequestFromApp(m) == {NoFields}

NotifyBlockAddedResponseToApp(x) == OnlyErrorToApp(x, "NotifyBlockAddedResponseMessage")

NotifyBlockAddedResponseFromApp(m) == OnlyErrorFromApp(m)

BlockAddedNotificationToApp(x) ==
    Require(x # Nil, {[type |-> "BlockAddedNotificationMessage", Block |-> block] :
                        block \in RpcBlockToApp(x.Block)})

BlockAddedNotificationFromApp(m) == {[Block |-> RpcBlockFromApp(m.Block)]}

NotifyFinalityConflictsRequestToApp(x) == {[type |-> "NotifyFinalityConflictsRequestMessage"]}

NotifyFinalityConflictsRequestFromApp(m) == {NoFields}

NotifyFinalityConflictsResponseToApp(x) ==
    OnlyErrorToApp(x, "NotifyFinalityConflictsResponseMessage")

NotifyFinalityConflictsResponseFromApp(m) == OnlyErrorFromApp(m)

FinalityConflictNotificationToApp(x) ==
    Require(x # Nil, {[type |-> "FinalityConflictNotificationMessage",
                       ViolatingBlockHash |-> x.ViolatingBlockHash]})

FinalityConflictNotificationFromApp(m) == {[ViolatingBlockHash |-> m.ViolatingBlockHash]}

FinalityConflictResolvedNotificationToApp(x) ==
    Require(x # Nil, {[type |-> "FinalityConflictResolvedNotificationMessage",
                       FinalityBlockHash |-> x.FinalityBlockHash]})

FinalityConflictResolvedNotificationFromApp(m) == {[FinalityBlockHash |-> m.FinalityBlockHash]}

NotifyNewBlockTemplateRequestToApp(x) == {[type |-> "NotifyNewBlockTemplateRequestMessage"]}

NotifyNewBlockTemplateRequestFromApp(m) == {NoFields}

NotifyNewBlockTemplateResponseToApp(x) ==
    OnlyErrorToApp(x, "NotifyNewBlockTemplateResponseMessage")

NotifyNewBlockTemplateResponseFromApp(m) == OnlyErrorFromApp(m)

NewBlockTemplateNotificationToApp(x) ==
    Require(x # Nil, {[type |-> "NewBlockTemplateNotificationMessage"]})

NewBlockTemplateNotificationFromApp(m) == {NoFields}

NotifyPruningPointUTXOSetOverrideRequestToApp(x) ==
    {[type |-> "NotifyPruningPointUTXOSetOverrideRequestMessage"]}

NotifyPruningPointUTXOSetOverrideRequestFromApp(m) == {NoFields}

NotifyPruningPointUTXOSetOverrideResponseToApp(x) ==
    OnlyErrorToApp(x, "NotifyPruningPointUTXOSetOverrideResponseMessage")

NotifyPruningPointUTXOSetOverrideResponseFromApp(m) == OnlyErrorFromApp(m)

PruningPointUTXOSetOverrideNotificationToApp(x) ==
    {[type |-> "PruningPointUTXOSetOverrideNotificationMessage"]}

PruningPointUTXOSetOverrideNotificationFromApp(m) == {NoFields}

StopNotifyingPruningPointUTXOSetOverrideRequestToApp(x) ==
    {[type |-> "StopNotifyingPruningPointUTXOSetOverrideRequestMessage"]}

StopNotifyingPruningPointUTXOSetOverrideRequestFromApp(m) == {NoFields}

StopNotifyingPruningPointUTXOSetOverrideResponseToApp(x) ==
    OnlyErrorToApp(x, "StopNotifyingPruningPointUTXOSetOverrideResponseMessage")

StopNotifyingPruningPointUTXOSetOverrideResponseFromApp(m) == OnlyErrorFromApp(m)

NotifyUtxosChangedRequestToApp(x) ==
    Require(x # Nil, {[type |-> "NotifyUTXOsChangedRequestMessage",
                       Addresses |-> x.Addresses]})

NotifyUtxosChangedRequestFromApp(m) == {[Addresses |-> m.Addresses]}

NotifyUtxosChangedResponseToApp(x) ==
    OnlyErrorToApp(x, "NotifyUTXOsChangedResponseMessage")

NotifyUtxosChangedResponseFromApp(m) == OnlyErrorFromApp(m)

UtxosChangedNotificationToApp(x) ==
    Require(x # Nil,
            {[type |-> "UTXOsChangedNotificationMessage", Added |-> added, Removed |-> removed] :
                added \in Each(LAMBDA entry : {e \in UtxosByAddressesEntryToApp(entry) :
                                                 e.UTXOEntry # Nil}, x.Added),
                removed \in Each(UtxosByAddressesEntryToApp, x.Removed)})

UtxosChangedNotificationFromApp(m) ==
    {[Added |-> MapSlice(UtxosByAddressesEntryFromApp, m.Added),
      Removed |-> MapSlice(UtxosByAddressesEntryFromApp, m.Removed)]}

NotifyVirtualDaaScoreChangedRequestToApp(x) ==
    {[type |-> "NotifyVirtualDaaScoreChangedRequestMessage"]}

NotifyVirtualDaaScoreChangedRequestFromApp(m) == {NoFields}

NotifyVirtualDaaScoreChangedResponseToApp(x) ==
    OnlyErrorToApp(x, "NotifyVirtualDaaScoreChangedResponseMessage")

NotifyVirtualDaaScoreChangedResponseFromApp(m) == OnlyErrorFromApp(m)

VirtualDaaScoreChangedNotificationToApp(x) ==
    Require(x # Nil, {[type |-> "VirtualDaaScoreChangedNotificationMessage",
                       VirtualDaaScore |-> x.VirtualDaaScore]})

VirtualDaaScoreChangedNotificationFromApp(m) == {[VirtualDaaScore |-> m.VirtualDaaScore]}

NotifyVirtualSelectedParentBlueScoreChangedRequestToApp(x) ==
    {[type |-> "NotifyVirtualSelectedParentBlueScoreChangedRequestMessage"]}

NotifyVirtualSelectedParentBlueScoreChangedRequestFromApp(m) == {NoFields}

NotifyVirtualSelectedParentBlueScoreChangedResponseToApp(x) ==
    OnlyErrorToApp(x, "NotifyVirtualSelectedParentBlueScoreChangedResponseMessage")

NotifyVirtualSelectedParentBlueScoreChangedResponseFromApp(m) == OnlyErrorFromApp(m)

VirtualSelectedParentBlueScoreChangedNotificationToApp(x) ==
    Require(x # Nil, {[type |-> "VirtualSelectedParentBlueScoreChangedNotificationMessage",
                       VirtualSelectedParentBlueScore |-> x.VirtualSelectedParentBlueScore]})

VirtualSelectedParentBlueScoreChangedNotificationFromApp(m) ==
    {[VirtualSelectedParentBlueScore |-> m.VirtualSelectedParentBlueScore]}

NotifyVirtualSelectedParentChainChangedRequestToApp(x) ==
    Require(x # Nil, {[type |-> "NotifyVirtualSelectedParentChainChangedRequestMessage",
                       IncludeAcceptedTransactionIDs |-> x.IncludeAcceptedTransactionIds]})

NotifyVirtualSelectedParentChainChangedRequestFromApp(m) ==
    {[IncludeAcceptedTransactionIds |-> m.IncludeAcceptedTransactionIDs]}

NotifyVirtualSelectedParentChainChangedResponseToApp(x) ==
    OnlyErrorToApp(x, "NotifyVirtualSelectedParentChainChangedResponseMessage")

NotifyVirtualSelectedParentChainChangedResponseFromApp(m) == OnlyErrorFromApp(m)

VirtualSelectedParentChainChangedNotificationToApp(x) ==
    Require(x # Nil,
            {[type |-> "VirtualSelectedParentChainChangedNotificationMessage",
              RemovedChainBlockHashes |-> x.RemovedChainBlockHashes,
              AddedChainBlockHashes |-> x.AddedChainBlockHashes,
              AcceptedTransactionIDs |-> MapSlice(AcceptedTransactionIdsToApp,
                                                  x.AcceptedTransactionIds)]})

VirtualSelectedParentChainChangedNotificationFromApp(m) ==
    {[RemovedChainBlockHashes |-> m.RemovedChainBlockHashes,
      AddedChainBlockHashes |-> m.AddedChainBlockHashes,
      AcceptedTransactionIds |-> MapSlice(AcceptedTransactionIdsFromApp,
                                          m.AcceptedTransactionIDs)]}

ResolveFinalityConflictRequestToApp(x) ==
    Require(x # Nil, {[type |-> "ResolveFinalityConflictRequestMessage",
                       FinalityBlockHash |-> x.FinalityBlockHash]})

ResolveFinalityConflictRequestFromApp(m) == {[FinalityBlockHash |-> m.FinalityBlockHash]}

ResolveFinalityConflictResponseToApp(x) ==
    OnlyErrorToApp(x, "ResolveFinalityConflictResponseMessage")

ResolveFinalityConflictResponseFromApp(m) == OnlyErrorFromApp(m)

ShutDownRequestToApp(x) == {[type |-> "ShutDownRequestMessage"]}

ShutDownRequestFromApp(m) == {NoFields}

ShutDownResponseToApp(x) == OnlyErrorToApp(x, "ShutDownResponseMessage")

ShutDownResponseFromApp(m) == OnlyErrorFromApp(m)

StopNotifyingUtxosChangedRequestToApp(x) ==
    Require(x # Nil, {[type |-> "StopNotifyingUTXOsChangedRequestMessage",
                       Addresses |-> x.Addresses]})

StopNotifyingUtxosChangedRequestFromApp(m) == {[Addresses |-> m.Addresses]}

StopNotifyingUtxosChangedResponseToApp(x) ==
    OnlyErrorToApp(x, "StopNotifyingUTXOsChangedResponseMessage")

StopNotifyingUtxosChangedResponseFromApp(m) == OnlyErrorFromApp(m)

SubmitBlockRequestToApp(x) ==
    Require(x # Nil, {[type |-> "SubmitBlockRequestMessage", Block |-> block,
                       AllowNonDAABlocks |-> x.AllowNonDAABlocks] :
                        block \in RpcBlockToApp(x.Block)})

SubmitBlockRequestFromApp(m) ==
    {[Block |-> RpcBlockFromApp(m.Block), AllowNonDAABlocks |-> m.AllowNonDAABlocks]}

SubmitBlockResponseToApp(x) ==
    Require(x # Nil, {[type |-> "SubmitBlockResponseMessage", RejectReason |-> x.RejectReason,
                       Error |-> RPCErrorToApp(x.Error)]})

SubmitBlockResponseFromApp(m) ==
    {[RejectReason |-> m.RejectReason, Error |-> RPCErrorFromApp(m.Error)]}

SubmitTransactionRequestToApp(x) ==
    Require(x # Nil, {[type |-> "SubmitTransactionRequestMessage",
                       Transaction |-> transaction, AllowOrphan |-> x.AllowOrphan] :
                        transaction \in RpcTransactionToApp(x.Transaction)})

SubmitTransactionRequestFromApp(m) ==
    {[Transaction |-> RpcTransactionFromApp(m.Transaction), AllowOrphan |-> m.AllowOrphan]}

SubmitTransactionResponseToApp(x) ==
    Require(x # Nil, {[type |-> "SubmitTransactionResponseMessage",
                       TransactionID |-> x.TransactionId, Error |-> RPCErrorToApp(x.Error)]})

SubmitTransactionResponseFromApp(m) ==
    {[TransactionId |-> m.TransactionID, Error |-> RPCErrorFromApp(m.Error)]}

UnbanRequestToApp(x) == Require(x # Nil, {[type |-> "UnbanRequestMessage", IP |-> x.Ip]})

UnbanRequestFromApp(m) == {[Ip |-> m.IP]}

UnbanResponseToApp(x) == OnlyErrorToApp(x, "UnbanResponseMessage")

UnbanResponseFromApp(m) == OnlyErrorFromApp(m)
====
