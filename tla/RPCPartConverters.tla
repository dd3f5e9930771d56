---- MODULE RPCPartConverters ----
(***************************************************************************)
(* protowire/rpc_*.go: the converters of the structures that the messages  *)
(* of the RPC server are built from.  As in P2PConverters a converter that *)
(* may fail returns the set of its results.                                *)
(*                                                                         *)
(* Two converters do not return what was sent.  RpcTransactionInput's      *)
(* fromAppMessage assigns the verbose data to a variable that shadows the  *)
(* one it sends, and its toAppMessage loops for ever on verbose data that  *)
(* is present: a converter that never returns has no result.               *)
(* GetConnectedPeerInfoMessage's toAppMessage reads TimeConnected from     *)
(* TimeOffset.                                                             *)
(***************************************************************************)
EXTENDS P2PConverters

-----------------------------------------------------------------------------
(* Errors: an optional part of every response *)

RPCErrorToApp(x) == IF x = Nil THEN Nil ELSE [Message |-> x.Message]

RPCErrorFromApp(m) == IF m = Nil THEN Nil ELSE [Message |-> m.Message]

\* A response whose structure carries an error and a result is refused.
Response(x, hasResult, result) ==
    Require(x # Nil /\ ~(x.Error # Nil /\ hasResult), {result})

OnlyErrorToApp(x, type) ==
    Require(x # Nil, {[type |-> type, Error |-> RPCErrorToApp(x.Error)]})

OnlyErrorFromApp(m) == {[Error |-> RPCErrorFromApp(m.Error)]}

-----------------------------------------------------------------------------
(* The parts of blocks and transactions: rpc_submit_block.go and           *)
(* rpc_submit_transaction.go                                               *)

RpcOutpointToApp(x) ==
    Require(x # Nil, {[TransactionID |-> x.TransactionId, Index |-> x.Index]})

RpcOutpointFromApp(m) == [TransactionId |-> m.TransactionID, Index |-> m.Index]

RpcScriptPublicKeyToApp(x) ==
    Require(x # Nil /\ x.Version <= MaxUint16,
            {[Version |-> x.Version, Script |-> x.ScriptPublicKey]})

RpcScriptPublicKeyFromApp(m) == [Version |-> m.Version, ScriptPublicKey |-> m.Script]

RpcUtxoEntryToApp(x) ==
    Require(x # Nil, {[Amount |-> x.Amount, ScriptPublicKey |-> script,
                       BlockDAAScore |-> x.BlockDaaScore, IsCoinbase |-> x.IsCoinbase] :
                        script \in RpcScriptPublicKeyToApp(x.ScriptPublicKey)})

RpcUtxoEntryFromApp(m) ==
    [Amount |-> m.Amount, ScriptPublicKey |-> RpcScriptPublicKeyFromApp(m.ScriptPublicKey),
     BlockDaaScore |-> m.BlockDAAScore, IsCoinbase |-> m.IsCoinbase]

RpcTransactionInputToApp(x) ==
    Require(x # Nil /\ x.SigOpCount <= MaxUint8 /\ x.VerboseData = Nil,
            {[PreviousOutpoint |-> outpoint, SignatureScript |-> x.SignatureScript,
              Sequence |-> x.Sequence, VerboseData |-> Nil, SigOpCount |-> x.SigOpCount] :
                outpoint \in RpcOutpointToApp(x.PreviousOutpoint)})

RpcTransactionInputFromApp(m) ==
    [PreviousOutpoint |-> RpcOutpointFromApp(m.PreviousOutpoint),
     SignatureScript |-> m.SignatureScript, Sequence |-> m.Sequence, VerboseData |-> Nil,
     SigOpCount |-> m.SigOpCount]

RpcTransactionOutputVerboseDataToApp(x) ==
    Require(x # Nil, {[ScriptPublicKeyType |-> x.ScriptPublicKeyType,
                       ScriptPublicKeyAddress |-> x.ScriptPublicKeyAddress]})

RpcTransactionOutputVerboseDataFromApp(m) ==
    [ScriptPublicKeyType |-> m.ScriptPublicKeyType,
     ScriptPublicKeyAddress |-> m.ScriptPublicKeyAddress]

RpcTransactionOutputToApp(x) ==
    Require(x # Nil, {[Amount |-> x.Amount, ScriptPublicKey |-> script, VerboseData |-> data] :
                        script \in RpcScriptPublicKeyToApp(x.ScriptPublicKey),
                        data \in OptionalPart(RpcTransactionOutputVerboseDataToApp,
                                              x.VerboseData)})

RpcTransactionOutputFromApp(m) ==
    [Amount |-> m.Amount, ScriptPublicKey |-> RpcScriptPublicKeyFromApp(m.ScriptPublicKey),
     VerboseData |-> IF m.VerboseData = Nil THEN Nil
                     ELSE RpcTransactionOutputVerboseDataFromApp(m.VerboseData)]

RpcTransactionVerboseDataToApp(x) ==
    Require(x # Nil, {[TransactionID |-> x.TransactionId, Hash |-> x.Hash, Mass |-> x.Mass,
                       BlockHash |-> x.BlockHash, BlockTime |-> x.BlockTime]})

RpcTransactionVerboseDataFromApp(m) ==
    [TransactionId |-> m.TransactionID, Hash |-> m.Hash, Mass |-> m.Mass,
     BlockHash |-> m.BlockHash, BlockTime |-> m.BlockTime]

RpcTransactionToApp(x) ==
    Require(x # Nil /\ x.Version <= MaxUint16,
            {[Version |-> x.Version, Inputs |-> inputs, Outputs |-> outputs,
              LockTime |-> x.LockTime, SubnetworkID |-> x.SubnetworkId, Gas |-> x.Gas,
              Payload |-> x.Payload, VerboseData |-> data] :
                inputs \in Each(RpcTransactionInputToApp, x.Inputs),
                outputs \in Each(RpcTransactionOutputToApp, x.Outputs),
                data \in OptionalPart(RpcTransactionVerboseDataToApp, x.VerboseData)})

RpcTransactionFromApp(m) ==
    [Version |-> m.Version, Inputs |-> MapSlice(RpcTransactionInputFromApp, m.Inputs),
     Outputs |-> MapSlice(RpcTransactionOutputFromApp, m.Outputs), LockTime |-> m.LockTime,
     SubnetworkId |-> m.SubnetworkID, Gas |-> m.Gas, Payload |-> m.Payload,
     VerboseData |-> IF m.VerboseData = Nil THEN Nil
                     ELSE RpcTransactionVerboseDataFromApp(m.VerboseData)]

RpcBlockLevelParentsToApp(x) == Require(x # Nil, {[ParentHashes |-> x.ParentHashes]})

RpcBlockLevelParentsFromApp(m) == [ParentHashes |-> m.ParentHashes]

RpcBlockHeaderToApp(x) ==
    Require(x # Nil /\ x.Version <= MaxUint16,
            {[Version |-> x.Version, Parents |-> parents, HashMerkleRoot |-> x.HashMerkleRoot,
              AcceptedIDMerkleRoot |-> x.AcceptedIdMerkleRoot,
              UTXOCommitment |-> x.UtxoCommitment, Timestamp |-> x.Timestamp,
              Bits |-> x.Bits, Nonce |-> x.Nonce, DAAScore |-> x.DaaScore,
              BlueWork |-> x.BlueWork, BlueScore |-> x.BlueScore,
              PruningPoint |-> x.PruningPoint] :
                parents \in Each(RpcBlockLevelParentsToApp, x.Parents)})

RpcBlockHeaderFromApp(m) ==
    [Version |-> m.Version, Parents |-> MapSlice(RpcBlockLevelParentsFromApp, m.Parents),
     HashMerkleRoot |-> m.HashMerkleRoot, AcceptedIdMerkleRoot |-> m.AcceptedIDMerkleRoot,
     UtxoCommitment |-> m.UTXOCommitment, Timestamp |-> m.Timestamp, Bits |-> m.Bits,
     Nonce |-> m.Nonce, DaaScore |-> m.DAAScore, BlueWork |-> m.BlueWork,
     BlueScore |-> m.BlueScore, PruningPoint |-> m.PruningPoint]

RpcBlockVerboseDataToApp(x) ==
    Require(x # Nil,
            {[Hash |-> x.Hash, Difficulty |-> x.Difficulty,
              SelectedParentHash |-> x.SelectedParentHash,
              TransactionIDs |-> x.TransactionIds, IsHeaderOnly |-> x.IsHeaderOnly,
              BlueScore |-> x.BlueScore, ChildrenHashes |-> x.ChildrenHashes,
              MergeSetBluesHashes |-> x.MergeSetBluesHashes,
              MergeSetRedsHashes |-> x.MergeSetRedsHashes, IsChainBlock |-> x.IsChainBlock]})

RpcBlockVerboseDataFromApp(m) ==
    [Hash |-> m.Hash, Difficulty |-> m.Difficulty,
     SelectedParentHash |-> m.SelectedParentHash, TransactionIds |-> m.TransactionIDs,
     IsHeaderOnly |-> m.IsHeaderOnly, BlueScore |-> m.BlueScore,
     ChildrenHashes |-> m.ChildrenHashes, MergeSetBluesHashes |-> m.MergeSetBluesHashes,
     MergeSetRedsHashes |-> m.MergeSetRedsHashes, IsChainBlock |-> m.IsChainBlock]

RpcBlockToApp(x) ==
    Require(x # Nil,
            {[Header |-> header, Transactions |-> transactions, VerboseData |-> data] :
                header \in RpcBlockHeaderToApp(x.Header),
                transactions \in Each(RpcTransactionToApp, x.Transactions),
                data \in OptionalPart(RpcBlockVerboseDataToApp, x.VerboseData)})

RpcBlockFromApp(m) ==
    [Header |-> RpcBlockHeaderFromApp(m.Header),
     Transactions |-> MapSlice(RpcTransactionFromApp, m.Transactions),
     VerboseData |-> IF m.VerboseData = Nil THEN Nil
                     ELSE RpcBlockVerboseDataFromApp(m.VerboseData)]

-----------------------------------------------------------------------------
(* The other parts *)

BalancesByAddressEntryToApp(x) ==
    Require(x # Nil, {[Address |-> x.Address, Balance |-> x.Balance]})

BalancesByAddressEntryFromApp(m) ==
    [Address |-> m.Address, Balance |-> m.Balance, Error |-> Nil]

MempoolEntryToApp(x) ==
    Require(x # Nil, {[Fee |-> x.Fee, Transaction |-> transaction, IsOrphan |-> x.IsOrphan] :
                        transaction \in RpcTransactionToApp(x.Transaction)})

MempoolEntryFromApp(m) ==
    [Fee |-> m.Fee, IsOrphan |-> m.IsOrphan,
     Transaction |-> IF m.Transaction = Nil THEN Nil ELSE RpcTransactionFromApp(m.Transaction)]

MempoolEntryByAddressToApp(x) ==
    Require(x # Nil, {[Address |-> x.Address, Sending |-> sending, Receiving |-> receiving] :
                        sending \in Each(MempoolEntryToApp, x.Sending),
                        receiving \in Each(MempoolEntryToApp, x.Receiving)})

MempoolEntryByAddressFromApp(m) ==
    [Address |-> m.Address, Sending |-> MapSlice(MempoolEntryFromApp, m.Sending),
     Receiving |-> MapSlice(MempoolEntryFromApp, m.Receiving)]

KnownAddressToApp(x) == Require(x # Nil, {[Addr |-> x.Addr]})

KnownAddressFromApp(m) == [Addr |-> m.Addr]

ConnectedPeerInfoToApp(x) ==
    Require(x # Nil,
            {[ID |-> x.Id, Address |-> x.Address, LastPingDuration |-> x.LastPingDuration,
              IsOutbound |-> x.IsOutbound, TimeOffset |-> x.TimeOffset,
              UserAgent |-> x.UserAgent,
              AdvertisedProtocolVersion |-> x.AdvertisedProtocolVersion,
              TimeConnected |-> x.TimeOffset, IsIBDPeer |-> x.IsIbdPeer]})

ConnectedPeerInfoFromApp(m) ==
    [Id |-> m.ID, Address |-> m.Address, LastPingDuration |-> m.LastPingDuration,
     IsOutbound |-> m.IsOutbound, TimeOffset |-> m.TimeOffset, UserAgent |-> m.UserAgent,
     AdvertisedProtocolVersion |-> m.AdvertisedProtocolVersion,
     TimeConnected |-> m.TimeConnected, IsIbdPeer |-> m.IsIBDPeer]

AcceptedTransactionIdsToApp(x) ==
    [AcceptingBlockHash |-> x.AcceptingBlockHash,
     AcceptedTransactionIDs |-> x.AcceptedTransactionIds]

AcceptedTransactionIdsFromApp(m) ==
    [AcceptingBlockHash |-> m.AcceptingBlockHash,
     AcceptedTransactionIds |-> m.AcceptedTransactionIDs]

\* The UTXO entry is optional, and errorNil of its script makes it nil too.
UtxosByAddressesEntryToApp(x) ==
    Require(x # Nil,
            {[Address |-> x.Address, Outpoint |-> outpoint, UTXOEntry |-> entry] :
                outpoint \in RpcOutpointToApp(x.Outpoint),
                entry \in IF x.UtxoEntry = Nil \/ x.UtxoEntry.ScriptPublicKey = Nil
                             THEN {Nil} ELSE RpcUtxoEntryToApp(x.UtxoEntry)})

UtxosByAddressesEntryFromApp(m) ==
    [Address |-> m.Address, Outpoint |-> RpcOutpointFromApp(m.Outpoint),
     UtxoEntry |-> IF m.UTXOEntry = Nil THEN Nil ELSE RpcUtxoEntryFromApp(m.UTXOEntry)]
====
