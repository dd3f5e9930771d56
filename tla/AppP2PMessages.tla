---- MODULE AppP2PMessages ----
(***************************************************************************)
(* The structs of app/appmessage/p2p_*.go: the messages the protocol flows *)
(* exchange, with the parts they are built from, and the types whose       *)
(* Command method makes them messages.                                     *)
(***************************************************************************)
EXTENDS MessageTypes

CONSTANTS MaxAddressesPerMsg, MaxBlockLocatorsPerMsg, MaxInvPerMsg, MaxUserAgentLen

ScriptPublicKey == Struct([Script |-> Bytes, Version |-> Uint16])
MsgBlockHeader ==
    Struct([Version |-> Uint16, Parents |-> Slice(Slice(DomainHash)),
            HashMerkleRoot |-> DomainHash, AcceptedIDMerkleRoot |-> DomainHash,
            UTXOCommitment |-> DomainHash, Timestamp |-> Time, Bits |-> Uint32,
            Nonce |-> Uint64, DAAScore |-> Uint64, BlueScore |-> Uint64, BlueWork |-> BigInt,
            PruningPoint |-> DomainHash])
BlockHeadersMessage == Struct([BlockHeaders |-> Slice(MsgBlockHeader)])
NetAddress == Struct([Timestamp |-> Time, IP |-> Bytes, Port |-> Uint16])
MsgAddresses == Struct([AddressList |-> SliceUpTo(NetAddress, MaxAddressesPerMsg)])
Outpoint == Struct([TxID |-> DomainHash, Index |-> Uint32])
TxIn ==
    Struct([PreviousOutpoint |-> Outpoint, SignatureScript |-> Bytes, Sequence |-> Uint64,
            SigOpCount |-> Uint8])
TxOut == Struct([Value |-> Uint64, ScriptPubKey |-> ScriptPublicKey])
MsgTx ==
    Struct([Version |-> Uint16, TxIn |-> Slice(TxIn), TxOut |-> Slice(TxOut),
            LockTime |-> Uint64, SubnetworkID |-> DomainSubnetworkID, Gas |-> Uint64,
            Payload |-> Bytes])
MsgBlock == Struct([Header |-> MsgBlockHeader, Transactions |-> Slice(MsgTx)])
MsgBlockLocator ==
    Struct([BlockLocatorHashes |-> SliceUpTo(DomainHash, MaxBlockLocatorsPerMsg)])
BluesAnticoneSizes == Struct([BlueHash |-> DomainHash, AnticoneSize |-> Uint8])
BlockGHOSTDAGData ==
    Struct([BlueScore |-> Uint64, BlueWork |-> BigInt, SelectedParent |-> DomainHash,
            MergeSetBlues |-> Slice(DomainHash), MergeSetReds |-> Slice(DomainHash),
            BluesAnticoneSizes |-> Slice(BluesAnticoneSizes)])
TrustedDataDataDAABlock ==
    Struct([Block |-> Pointer(MsgBlock), GHOSTDAGData |-> Pointer(BlockGHOSTDAGData)])
BlockGHOSTDAGDataHashPair ==
    Struct([Hash |-> DomainHash, GHOSTDAGData |-> Pointer(BlockGHOSTDAGData)])
MsgBlockWithTrustedData ==
    Struct([Block |-> Pointer(MsgBlock), DAAScore |-> Uint64,
            DAAWindow |-> Slice(TrustedDataDataDAABlock),
            GHOSTDAGData |-> Slice(BlockGHOSTDAGDataHashPair)])
MsgBlockWithTrustedDataV4 ==
    Struct([Block |-> Pointer(MsgBlock), DAAWindowIndices |-> Slice(Uint64),
            GHOSTDAGDataIndices |-> Slice(Uint64)])
MsgDoneBlocksWithTrustedData == Struct(NoFields)
MsgDoneHeaders == Struct(NoFields)
MsgDonePruningPointUTXOSetChunks == Struct(NoFields)
MsgRequestPruningPointAndItsAnticone == Struct(NoFields)
MsgIBDBlock == Struct([MsgBlock |-> MsgBlock])
MsgIBDBlockLocator ==
    Struct([TargetHash |-> DomainHash, BlockLocatorHashes |-> Slice(DomainHash)])
MsgIBDBlockLocatorHighestHash == Struct([HighestHash |-> DomainHash])
MsgIBDBlockLocatorHighestHashNotFound == Struct(NoFields)
MsgIBDChainBlockLocator == Struct([BlockLocatorHashes |-> Slice(DomainHash)])
MsgInvRelayBlock == Struct([Hash |-> DomainHash])
MsgInvTransaction == Struct([TxIDs |-> SliceUpTo(DomainHash, MaxInvPerMsg)])
MsgPing == Struct([Nonce |-> Uint64])
MsgPong == Struct([Nonce |-> Uint64])
MsgPruningPointProof == Struct([Headers |-> Slice(Slice(MsgBlockHeader))])
MsgPruningPoints == Struct([Headers |-> Slice(MsgBlockHeader)])
UTXOEntry ==
    Struct([Amount |-> Uint64, ScriptPublicKey |-> ScriptPublicKey, BlockDAAScore |-> Uint64,
            IsCoinbase |-> Bool])
OutpointAndUTXOEntryPair ==
    Struct([Outpoint |-> Pointer(Outpoint), UTXOEntry |-> Pointer(UTXOEntry)])
MsgPruningPointUTXOSetChunk ==
    Struct([OutpointAndUTXOEntryPairs |-> Slice(OutpointAndUTXOEntryPair)])
MsgReject == Struct([Reason |-> String])
MsgRequestAddresses ==
    Struct([IncludeAllSubnetworks |-> Bool, SubnetworkID |-> Optional(DomainSubnetworkID)])
MsgRequestAnticone == Struct([BlockHash |-> DomainHash, ContextHash |-> DomainHash])
MsgRequestBlockLocator == Struct([HighHash |-> DomainHash, Limit |-> Uint32])
MsgRequestHeaders == Struct([LowHash |-> DomainHash, HighHash |-> DomainHash])
MsgRequestIBDBlocks == Struct([Hashes |-> Slice(DomainHash)])
MsgRequestIBDChainBlockLocator ==
    Struct([HighHash |-> Optional(DomainHash), LowHash |-> Optional(DomainHash)])
MsgRequestNextHeaders == Struct(NoFields)
MsgRequestNextPruningPointAndItsAnticoneBlocks == Struct(NoFields)
MsgRequestNextPruningPointUTXOSetChunk == Struct(NoFields)
MsgRequestPruningPointProof == Struct(NoFields)
MsgRequestPruningPointUTXOSet == Struct([PruningPointHash |-> DomainHash])
MsgRequestRelayBlocks == Struct([Hashes |-> SliceUpTo(DomainHash, MaxInvPerMsg)])
MsgRequestTransactions == Struct([IDs |-> SliceUpTo(DomainHash, MaxInvPerMsg)])
MsgTransactionNotFound == Struct([ID |-> DomainHash])
TrustedDataDAAHeader ==
    Struct([Header |-> Pointer(MsgBlockHeader), GHOSTDAGData |-> Pointer(BlockGHOSTDAGData)])
MsgTrustedData ==
    Struct([DAAWindow |-> Slice(TrustedDataDAAHeader),
            GHOSTDAGData |-> Slice(BlockGHOSTDAGDataHashPair)])
MsgVerAck == Struct(NoFields)
MsgVersion ==
    Struct([ProtocolVersion |-> Uint32, Network |-> String, Services |-> Uint64,
            Timestamp |-> Time, Address |-> Optional(NetAddress), ID |-> ID,
            UserAgent |-> BytesUpTo(MaxUserAgentLen), DisableRelayTx |-> Bool,
            SubnetworkID |-> Optional(DomainSubnetworkID)])
MsgReady == Struct(NoFields)
MsgUnexpectedPruningPoint == Struct(NoFields)

\* The message types, by name.
P2PMessages ==
    [BlockHeadersMessage |-> BlockHeadersMessage, MsgAddresses |-> MsgAddresses,
     MsgTx |-> MsgTx, MsgBlock |-> MsgBlock, MsgBlockLocator |-> MsgBlockLocator,
     MsgBlockWithTrustedData |-> MsgBlockWithTrustedData,
     MsgBlockWithTrustedDataV4 |-> MsgBlockWithTrustedDataV4,
     MsgDoneBlocksWithTrustedData |-> MsgDoneBlocksWithTrustedData,
     MsgDoneHeaders |-> MsgDoneHeaders,
     MsgDonePruningPointUTXOSetChunks |-> MsgDonePruningPointUTXOSetChunks,
     MsgRequestPruningPointAndItsAnticone |-> MsgRequestPruningPointAndItsAnticone,
     MsgIBDBlock |-> MsgIBDBlock, MsgIBDBlockLocator |-> MsgIBDBlockLocator,
     MsgIBDBlockLocatorHighestHash |-> MsgIBDBlockLocatorHighestHash,
     MsgIBDBlockLocatorHighestHashNotFound |-> MsgIBDBlockLocatorHighestHashNotFound,
     MsgIBDChainBlockLocator |-> MsgIBDChainBlockLocator, MsgInvRelayBlock |-> MsgInvRelayBlock,
     MsgInvTransaction |-> MsgInvTransaction, MsgPing |-> MsgPing, MsgPong |-> MsgPong,
     MsgPruningPointProof |-> MsgPruningPointProof, MsgPruningPoints |-> MsgPruningPoints,
     MsgPruningPointUTXOSetChunk |-> MsgPruningPointUTXOSetChunk, MsgReject |-> MsgReject,
     MsgRequestAddresses |-> MsgRequestAddresses, MsgRequestAnticone |-> MsgRequestAnticone,
     MsgRequestBlockLocator |-> MsgRequestBlockLocator, MsgRequestHeaders |-> MsgRequestHeaders,
     MsgRequestIBDBlocks |-> MsgRequestIBDBlocks,
     MsgRequestIBDChainBlockLocator |-> MsgRequestIBDChainBlockLocator,
     MsgRequestNextHeaders |-> MsgRequestNextHeaders,
     MsgRequestNextPruningPointAndItsAnticoneBlocks |->
     MsgRequestNextPruningPointAndItsAnticoneBlocks,
     MsgRequestNextPruningPointUTXOSetChunk |-> MsgRequestNextPruningPointUTXOSetChunk,
     MsgRequestPruningPointProof |-> MsgRequestPruningPointProof,
     MsgRequestPruningPointUTXOSet |-> MsgRequestPruningPointUTXOSet,
     MsgRequestRelayBlocks |-> MsgRequestRelayBlocks,
     MsgRequestTransactions |-> MsgRequestTransactions,
     MsgTransactionNotFound |-> MsgTransactionNotFound, MsgTrustedData |-> MsgTrustedData,
     MsgVerAck |-> MsgVerAck, MsgVersion |-> MsgVersion, MsgReady |-> MsgReady,
     MsgUnexpectedPruningPoint |-> MsgUnexpectedPruningPoint]
====
