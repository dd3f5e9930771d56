---- MODULE ProtoP2PMessages ----
(***************************************************************************)
(* The structs protoc generates for p2p.proto (protowire/p2p.pb.go) and    *)
(* the payloads of C4exdMessage that carry them.  Every nested message is  *)
(* a pointer that may be nil.                                              *)
(***************************************************************************)
EXTENDS MessageTypes

SubnetworkId == Struct([Bytes |-> Bytes])
RequestAddressesMessage ==
    Struct([IncludeAllSubnetworks |-> Bool, SubnetworkId |-> Optional(SubnetworkId)])
NetAddress == Struct([Timestamp |-> Int64, Ip |-> Bytes, Port |-> Uint32])
AddressesMessage == Struct([AddressList |-> Slice(NetAddress)])
TransactionId == Struct([Bytes |-> Bytes])
Outpoint == Struct([TransactionId |-> Optional(TransactionId), Index |-> Uint32])
TransactionInput ==
    Struct([PreviousOutpoint |-> Optional(Outpoint), SignatureScript |-> Bytes,
            Sequence |-> Uint64, SigOpCount |-> Uint32])
ScriptPublicKey == Struct([Script |-> Bytes, Version |-> Uint32])
TransactionOutput == Struct([Value |-> Uint64, ScriptPublicKey |-> Optional(ScriptPublicKey)])
TransactionMessage ==
    Struct([Version |-> Uint32, Inputs |-> Slice(TransactionInput),
            Outputs |-> Slice(TransactionOutput), LockTime |-> Uint64,
            SubnetworkId |-> Optional(SubnetworkId), Gas |-> Uint64, Payload |-> Bytes])
Hash == Struct([Bytes |-> Bytes])
BlockLevelParents == Struct([ParentHashes |-> Slice(Hash)])
BlockHeader ==
    Struct([Version |-> Uint32, Parents |-> Slice(BlockLevelParents),
            HashMerkleRoot |-> Optional(Hash), AcceptedIdMerkleRoot |-> Optional(Hash),
            UtxoCommitment |-> Optional(Hash), Timestamp |-> Int64, Bits |-> Uint32,
            Nonce |-> Uint64, DaaScore |-> Uint64, BlueWork |-> Bytes,
            PruningPoint |-> Optional(Hash), BlueScore |-> Uint64])
BlockMessage ==
    Struct([Header |-> Optional(BlockHeader), Transactions |-> Slice(TransactionMessage)])
RequestBlockLocatorMessage == Struct([HighHash |-> Optional(Hash), Limit |-> Uint32])
BlockLocatorMessage == Struct([Hashes |-> Slice(Hash)])
RequestHeadersMessage == Struct([LowHash |-> Optional(Hash), HighHash |-> Optional(Hash)])
RequestNextHeadersMessage == Struct(NoFields)
DoneHeadersMessage == Struct(NoFields)
RequestRelayBlocksMessage == Struct([Hashes |-> Slice(Hash)])
RequestTransactionsMessage == Struct([Ids |-> Slice(TransactionId)])
TransactionNotFoundMessage == Struct([Id |-> Optional(TransactionId)])
InvRelayBlockMessage == Struct([Hash |-> Optional(Hash)])
InvTransactionsMessage == Struct([Ids |-> Slice(TransactionId)])
PingMessage == Struct([Nonce |-> Uint64])
PongMessage == Struct([Nonce |-> Uint64])
VerackMessage == Struct(NoFields)
VersionMessage ==
    Struct([ProtocolVersion |-> Uint32, Services |-> Uint64, Timestamp |-> Int64,
            Address |-> Optional(NetAddress), Id |-> Bytes, UserAgent |-> String,
            DisableRelayTx |-> Bool, SubnetworkId |-> Optional(SubnetworkId),
            Network |-> String])
RejectMessage == Struct([Reason |-> String])
RequestPruningPointUTXOSetMessage == Struct([PruningPointHash |-> Optional(Hash)])
UtxoEntry ==
    Struct([Amount |-> Uint64, ScriptPublicKey |-> Optional(ScriptPublicKey),
            BlockDaaScore |-> Uint64, IsCoinbase |-> Bool])
OutpointAndUtxoEntryPair ==
    Struct([Outpoint |-> Optional(Outpoint), UtxoEntry |-> Optional(UtxoEntry)])
PruningPointUtxoSetChunkMessage ==
    Struct([OutpointAndUtxoEntryPairs |-> Slice(OutpointAndUtxoEntryPair)])
RequestNextPruningPointUtxoSetChunkMessage == Struct(NoFields)
DonePruningPointUtxoSetChunksMessage == Struct(NoFields)
RequestIBDBlocksMessage == Struct([Hashes |-> Slice(Hash)])
UnexpectedPruningPointMessage == Struct(NoFields)
IbdBlockLocatorMessage ==
    Struct([TargetHash |-> Optional(Hash), BlockLocatorHashes |-> Slice(Hash)])
RequestIBDChainBlockLocatorMessage ==
    Struct([LowHash |-> Optional(Hash), HighHash |-> Optional(Hash)])
IbdChainBlockLocatorMessage == Struct([BlockLocatorHashes |-> Slice(Hash)])
RequestAnticoneMessage == Struct([BlockHash |-> Optional(Hash), ContextHash |-> Optional(Hash)])
IbdBlockLocatorHighestHashMessage == Struct([HighestHash |-> Optional(Hash)])
IbdBlockLocatorHighestHashNotFoundMessage == Struct(NoFields)
BlockHeadersMessage == Struct([BlockHeaders |-> Slice(BlockHeader)])
RequestPruningPointAndItsAnticoneMessage == Struct(NoFields)
RequestNextPruningPointAndItsAnticoneBlocksMessage == Struct(NoFields)
BluesAnticoneSizes == Struct([BlueHash |-> Optional(Hash), AnticoneSize |-> Uint32])
GhostdagData ==
    Struct([BlueScore |-> Uint64, BlueWork |-> Bytes, SelectedParent |-> Optional(Hash),
            MergeSetBlues |-> Slice(Hash), MergeSetReds |-> Slice(Hash),
            BluesAnticoneSizes |-> Slice(BluesAnticoneSizes)])
DaaBlock == Struct([Block |-> Optional(BlockMessage), GhostdagData |-> Optional(GhostdagData)])
BlockGhostdagDataHashPair ==
    Struct([Hash |-> Optional(Hash), GhostdagData |-> Optional(GhostdagData)])
BlockWithTrustedDataMessage ==
    Struct([Block |-> Optional(BlockMessage), DaaScore |-> Uint64,
            DaaWindow |-> Slice(DaaBlock), GhostdagData |-> Slice(BlockGhostdagDataHashPair)])
DaaBlockV4 ==
    Struct([Header |-> Optional(BlockHeader), GhostdagData |-> Optional(GhostdagData)])
DoneBlocksWithTrustedDataMessage == Struct(NoFields)
PruningPointsMessage == Struct([Headers |-> Slice(BlockHeader)])
RequestPruningPointProofMessage == Struct(NoFields)
PruningPointProofHeaderArray == Struct([Headers |-> Slice(BlockHeader)])
PruningPointProofMessage == Struct([Headers |-> Slice(PruningPointProofHeaderArray)])
ReadyMessage == Struct(NoFields)
BlockWithTrustedDataV4Message ==
    Struct([Block |-> Optional(BlockMessage), DaaWindowIndices |-> Slice(Uint64),
            GhostdagDataIndices |-> Slice(Uint64)])
TrustedDataMessage ==
    Struct([DaaWindow |-> Slice(DaaBlockV4), GhostdagData |-> Slice(BlockGhostdagDataHashPair)])

\* The payload of a C4exdMessage, by the name of its oneof field.
P2PPayloads ==
    [Addresses |-> AddressesMessage, Block |-> BlockMessage, Transaction |-> TransactionMessage,
     BlockLocator |-> BlockLocatorMessage, RequestAddresses |-> RequestAddressesMessage,
     RequestRelayBlocks |-> RequestRelayBlocksMessage,
     RequestTransactions |-> RequestTransactionsMessage, IbdBlock |-> BlockMessage,
     InvRelayBlock |-> InvRelayBlockMessage, InvTransactions |-> InvTransactionsMessage,
     Ping |-> PingMessage, Pong |-> PongMessage, Verack |-> VerackMessage,
     Version |-> VersionMessage, TransactionNotFound |-> TransactionNotFoundMessage,
     Reject |-> RejectMessage, PruningPointUtxoSetChunk |-> PruningPointUtxoSetChunkMessage,
     RequestIBDBlocks |-> RequestIBDBlocksMessage,
     UnexpectedPruningPoint |-> UnexpectedPruningPointMessage,
     IbdBlockLocator |-> IbdBlockLocatorMessage,
     IbdBlockLocatorHighestHash |-> IbdBlockLocatorHighestHashMessage,
     RequestNextPruningPointUtxoSetChunk |-> RequestNextPruningPointUtxoSetChunkMessage,
     DonePruningPointUtxoSetChunks |-> DonePruningPointUtxoSetChunksMessage,
     IbdBlockLocatorHighestHashNotFound |-> IbdBlockLocatorHighestHashNotFoundMessage,
     BlockWithTrustedData |-> BlockWithTrustedDataMessage,
     DoneBlocksWithTrustedData |-> DoneBlocksWithTrustedDataMessage,
     RequestPruningPointAndItsAnticone |-> RequestPruningPointAndItsAnticoneMessage,
     BlockHeaders |-> BlockHeadersMessage, RequestNextHeaders |-> RequestNextHeadersMessage,
     DoneHeaders |-> DoneHeadersMessage,
     RequestPruningPointUTXOSet |-> RequestPruningPointUTXOSetMessage,
     RequestHeaders |-> RequestHeadersMessage,
     RequestBlockLocator |-> RequestBlockLocatorMessage, PruningPoints |-> PruningPointsMessage,
     RequestPruningPointProof |-> RequestPruningPointProofMessage,
     PruningPointProof |-> PruningPointProofMessage, Ready |-> ReadyMessage,
     BlockWithTrustedDataV4 |-> BlockWithTrustedDataV4Message,
     TrustedData |-> TrustedDataMessage,
     RequestIBDChainBlockLocator |-> RequestIBDChainBlockLocatorMessage,
     IbdChainBlockLocator |-> IbdChainBlockLocatorMessage,
     RequestAnticone |-> RequestAnticoneMessage, RequestNextPruningPointAndItsAnticoneBlocks |->
     RequestNextPruningPointAndItsAnticoneBlocksMessage]
====
