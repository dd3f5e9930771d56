---- MODULE P2PConverters ----
(***************************************************************************)
(* protowire/p2p_*.go and common.go: the converters between the messages   *)
(* of the protocol flows and their protobuf structures.                    *)
(*                                                                         *)
(* A converter that may fail returns the set of its results: {} when it    *)
(* returns an error, {m} when it returns m.  A converter of a part goes    *)
(* into the converter of the whole by a set comprehension, so that one     *)
(* failing part fails the whole, as the early returns of the code do.      *)
(* XToApp is toAppMessage of C4exdMessage_X and of the structure under it, *)
(* XFromApp is fromAppMessage of C4exdMessage_X.                           *)
(***************************************************************************)
EXTENDS MessageTypes, SequencesExt

CONSTANTS MaxAddressesPerMsg, MaxBlockLocatorsPerMsg, MaxInvPerMsg, MaxUserAgentLen,
          ByteBase               \* the number of values of a byte

Require(condition, results) == IF condition THEN results ELSE {}

\* The loop over a slice: the results of the elements in order, or a failure
\* when one of them fails.
Each(Convert(_), slice) ==
    FoldLeft(LAMBDA done, x : {Append(d, y) : d \in done, y \in Convert(x)}, {<<>>}, slice)

MapSlice(Convert(_), slice) == [i \in DOMAIN slice |-> Convert(slice[i])]

OptionalPart(Convert(_), x) == IF x = Nil THEN {Nil} ELSE Convert(x)

\* mstime.Time carries whole milliseconds.
UnixMilliseconds(ms) == [ms |-> ms]

\* big.Int's Bytes and SetBytes: big-endian, no leading zero, empty for zero.
BigIntBytes[n \in 0..MaxBig] ==
    IF n = 0 THEN <<>> ELSE Append(BigIntBytes[n \div ByteBase], n % ByteBase)

SetBytes(bytes) == FoldLeft(LAMBDA n, b : n * ByteBase + b, 0, bytes)

-----------------------------------------------------------------------------
(* common.go *)

NewDomainHashFromByteSlice(bytes) == Require(Len(bytes) = HashSize, {bytes})

HashToDomain(x) == Require(x # Nil, NewDomainHashFromByteSlice(x.Bytes))

domainHashToProto(hash) == [Bytes |-> hash]

domainHashesToProto(hashes) == MapSlice(domainHashToProto, hashes)

protoHashesToDomain(hashes) == Each(HashToDomain, hashes)

TransactionIdToDomain(x) == Require(x # Nil, NewDomainHashFromByteSlice(x.Bytes))

domainTransactionIDToProto(id) == [Bytes |-> id]

SubnetworkIdToDomain(x) == Require(x # Nil /\ Len(x.Bytes) = SubnetworkIDSize, {x.Bytes})

domainSubnetworkIDToProto(id) == IF id = Nil THEN Nil ELSE [Bytes |-> id]

NetAddressToApp(x) ==
    Require(x # Nil /\ x.Port <= MaxUint16,
            {[Timestamp |-> UnixMilliseconds(x.Timestamp), IP |-> x.Ip, Port |-> x.Port]})

appMessageNetAddressToProto(m) ==
    [Timestamp |-> m.Timestamp.ms, Ip |-> m.IP, Port |-> m.Port]

OutpointToApp(x) ==
    Require(x # Nil,
            {[TxID |-> id, Index |-> x.Index] : id \in TransactionIdToDomain(x.TransactionId)})

ScriptPublicKeyToApp(x) ==
    Require(x # Nil /\ x.Version <= MaxUint16, {[Script |-> x.Script, Version |-> x.Version]})

UtxoEntryToApp(x) ==
    Require(x # Nil,
            {[Amount |-> x.Amount, ScriptPublicKey |-> script,
              BlockDAAScore |-> x.BlockDaaScore, IsCoinbase |-> x.IsCoinbase] :
                script \in ScriptPublicKeyToApp(x.ScriptPublicKey)})

-----------------------------------------------------------------------------
(* p2p_header.go, p2p_transaction.go and p2p_block.go *)

BlockLevelParentsToDomain(x) ==
    Require(x # Nil, Each(LAMBDA h : NewDomainHashFromByteSlice(h.Bytes), x.ParentHashes))

protoParentsToDomain(parents) == Each(BlockLevelParentsToDomain, parents)

domainParentsToProto(parents) ==
    MapSlice(LAMBDA level : [ParentHashes |-> domainHashesToProto(level)], parents)

BlockHeaderToApp(x) ==
    Require(x # Nil /\ x.Version <= MaxUint16,
            {[type |-> "MsgBlockHeader", Version |-> x.Version, Parents |-> parents,
              HashMerkleRoot |-> merkle, AcceptedIDMerkleRoot |-> accepted,
              UTXOCommitment |-> utxo, Timestamp |-> UnixMilliseconds(x.Timestamp),
              Bits |-> x.Bits, Nonce |-> x.Nonce, DAAScore |-> x.DaaScore,
              BlueScore |-> x.BlueScore, BlueWork |-> SetBytes(x.BlueWork),
              PruningPoint |-> pruning] :
                parents \in protoParentsToDomain(x.Parents),
                merkle \in HashToDomain(x.HashMerkleRoot),
                accepted \in HashToDomain(x.AcceptedIdMerkleRoot),
                utxo \in HashToDomain(x.UtxoCommitment),
                pruning \in HashToDomain(x.PruningPoint)})

BlockHeaderFromApp(m) ==
    [Version |-> m.Version, Parents |-> domainParentsToProto(m.Parents),
     HashMerkleRoot |-> domainHashToProto(m.HashMerkleRoot),
     AcceptedIdMerkleRoot |-> domainHashToProto(m.AcceptedIDMerkleRoot),
     UtxoCommitment |-> domainHashToProto(m.UTXOCommitment),
     Timestamp |-> m.Timestamp.ms, Bits |-> m.Bits, Nonce |-> m.Nonce,
     DaaScore |-> m.DAAScore, BlueScore |-> m.BlueScore,
     BlueWork |-> BigIntBytes[m.BlueWork], PruningPoint |-> domainHashToProto(m.PruningPoint)]

TransactionInputToApp(x) ==
    Require(x # Nil /\ x.SigOpCount <= MaxUint8,
            {[PreviousOutpoint |-> outpoint, SignatureScript |-> x.SignatureScript,
              Sequence |-> x.Sequence, SigOpCount |-> x.SigOpCount] :
                outpoint \in OutpointToApp(x.PreviousOutpoint)})

TransactionOutputToApp(x) ==
    Require(x # Nil, {[Value |-> x.Value, ScriptPubKey |-> script] :
                        script \in ScriptPublicKeyToApp(x.ScriptPublicKey)})

TransactionToApp(x) ==
    Require(x # Nil /\ x.Version <= MaxUint16,
            {[type |-> "MsgTx", Version |-> x.Version, TxIn |-> inputs, TxOut |-> outputs,
              LockTime |-> x.LockTime, SubnetworkID |-> subnetwork, Gas |-> x.Gas,
              Payload |-> x.Payload] :
                inputs \in Each(TransactionInputToApp, x.Inputs),
                outputs \in Each(TransactionOutputToApp, x.Outputs),
                subnetwork \in SubnetworkIdToDomain(x.SubnetworkId)})

TransactionMessageFromApp(m) ==
    [Version |-> m.Version,
     Inputs |-> MapSlice(LAMBDA input :
        [PreviousOutpoint |->
            [TransactionId |-> domainTransactionIDToProto(input.PreviousOutpoint.TxID),
             Index |-> input.PreviousOutpoint.Index],
         SignatureScript |-> input.SignatureScript, Sequence |-> input.Sequence,
         SigOpCount |-> input.SigOpCount], m.TxIn),
     Outputs |-> MapSlice(LAMBDA output :
        [Value |-> output.Value,
         ScriptPublicKey |-> [Script |-> output.ScriptPubKey.Script,
                              Version |-> output.ScriptPubKey.Version]], m.TxOut),
     LockTime |-> m.LockTime, SubnetworkId |-> domainSubnetworkIDToProto(m.SubnetworkID),
     Gas |-> m.Gas, Payload |-> m.Payload]

TransactionFromApp(m) == {TransactionMessageFromApp(m)}

BlockToApp(x) ==
    Require(x # Nil,
            {[type |-> "MsgBlock", Header |-> header, Transactions |-> transactions] :
                header \in BlockHeaderToApp(x.Header),
                transactions \in Each(TransactionToApp, x.Transactions)})

BlockMessageFromApp(m) ==
    [Header |-> BlockHeaderFromApp(m.Header),
     Transactions |-> MapSlice(TransactionMessageFromApp, m.Transactions)]

BlockFromApp(m) == {BlockMessageFromApp(m)}

IbdBlockToApp(x) == {[type |-> "MsgIBDBlock", MsgBlock |-> block] : block \in BlockToApp(x)}

IbdBlockFromApp(m) == {BlockMessageFromApp(m.MsgBlock)}
-----------------------------------------------------------------------------
(* The trusted data of the pruning point and its anticone *)

maxKType == MaxUint8

BluesAnticoneSizesToApp(x) ==
    Require(x.AnticoneSize <= maxKType,
            {[BlueHash |-> hash, AnticoneSize |-> x.AnticoneSize] :
                hash \in HashToDomain(x.BlueHash)})

GhostdagDataToApp(x) ==
    Require(x # Nil,
            {[BlueScore |-> x.BlueScore, BlueWork |-> SetBytes(x.BlueWork),
              SelectedParent |-> parent, MergeSetBlues |-> blues, MergeSetReds |-> reds,
              BluesAnticoneSizes |-> sizes] :
                parent \in HashToDomain(x.SelectedParent),
                blues \in protoHashesToDomain(x.MergeSetBlues),
                reds \in protoHashesToDomain(x.MergeSetReds),
                sizes \in Each(BluesAnticoneSizesToApp, x.BluesAnticoneSizes)})

GhostdagDataFromApp(m) ==
    [BlueScore |-> m.BlueScore, BlueWork |-> BigIntBytes[m.BlueWork],
     SelectedParent |-> domainHashToProto(m.SelectedParent),
     MergeSetBlues |-> domainHashesToProto(m.MergeSetBlues),
     MergeSetReds |-> domainHashesToProto(m.MergeSetReds),
     BluesAnticoneSizes |-> MapSlice(LAMBDA pair :
        [BlueHash |-> domainHashToProto(pair.BlueHash), AnticoneSize |-> pair.AnticoneSize],
        m.BluesAnticoneSizes)]

HashPairToApp(x) ==
    {[Hash |-> hash, GHOSTDAGData |-> data] :
        hash \in HashToDomain(x.Hash), data \in GhostdagDataToApp(x.GhostdagData)}

HashPairFromApp(m) ==
    [Hash |-> domainHashToProto(m.Hash), GhostdagData |-> GhostdagDataFromApp(m.GHOSTDAGData)]

DaaBlockToApp(x) ==
    Require(x # Nil, {[Block |-> block, GHOSTDAGData |-> data] :
                        block \in BlockToApp(x.Block), data \in GhostdagDataToApp(x.GhostdagData)})

DaaBlockFromApp(m) ==
    [Block |-> BlockMessageFromApp(m.Block), GhostdagData |-> GhostdagDataFromApp(m.GHOSTDAGData)]

DaaBlockV4ToApp(x) ==
    Require(x # Nil, {[Header |-> header, GHOSTDAGData |-> data] :
                        header \in BlockHeaderToApp(x.Header),
                        data \in GhostdagDataToApp(x.GhostdagData)})

DaaBlockV4FromApp(m) ==
    [Header |-> BlockHeaderFromApp(m.Header), GhostdagData |-> GhostdagDataFromApp(m.GHOSTDAGData)]

BlockWithTrustedDataToApp(x) ==
    {[type |-> "MsgBlockWithTrustedData", Block |-> block, DAAScore |-> x.DaaScore,
      DAAWindow |-> window, GHOSTDAGData |-> data] :
        block \in BlockToApp(x.Block), window \in Each(DaaBlockToApp, x.DaaWindow),
        data \in Each(HashPairToApp, x.GhostdagData)}

BlockWithTrustedDataFromApp(m) ==
    {[Block |-> BlockMessageFromApp(m.Block), DaaScore |-> m.DAAScore,
      DaaWindow |-> MapSlice(DaaBlockFromApp, m.DAAWindow),
      GhostdagData |-> MapSlice(HashPairFromApp, m.GHOSTDAGData)]}

BlockWithTrustedDataV4ToApp(x) ==
    {[type |-> "MsgBlockWithTrustedDataV4", Block |-> block,
      DAAWindowIndices |-> x.DaaWindowIndices,
      GHOSTDAGDataIndices |-> x.GhostdagDataIndices] : block \in BlockToApp(x.Block)}

BlockWithTrustedDataV4FromApp(m) ==
    {[Block |-> BlockMessageFromApp(m.Block), DaaWindowIndices |-> m.DAAWindowIndices,
      GhostdagDataIndices |-> m.GHOSTDAGDataIndices]}

TrustedDataToApp(x) ==
    {[type |-> "MsgTrustedData", DAAWindow |-> window, GHOSTDAGData |-> data] :
        window \in Each(DaaBlockV4ToApp, x.DaaWindow),
        data \in Each(HashPairToApp, x.GhostdagData)}

TrustedDataFromApp(m) ==
    {[DaaWindow |-> MapSlice(DaaBlockV4FromApp, m.DAAWindow),
      GhostdagData |-> MapSlice(HashPairFromApp, m.GHOSTDAGData)]}

DoneBlocksWithTrustedDataToApp(x) == {[type |-> "MsgDoneBlocksWithTrustedData"]}

DoneBlocksWithTrustedDataFromApp(m) == {Nil}

PruningPointsToApp(x) ==
    Require(x # Nil, {[type |-> "MsgPruningPoints", Headers |-> headers] :
                        headers \in Each(BlockHeaderToApp, x.Headers)})

PruningPointsFromApp(m) == {[Headers |-> MapSlice(BlockHeaderFromApp, m.Headers)]}

PruningPointProofToApp(x) ==
    Require(x # Nil, {[type |-> "MsgPruningPointProof", Headers |-> headers] :
                        headers \in Each(LAMBDA level : Each(BlockHeaderToApp, level.Headers),
                                         x.Headers)})

PruningPointProofFromApp(m) ==
    {[Headers |-> MapSlice(LAMBDA level : [Headers |-> MapSlice(BlockHeaderFromApp, level)],
                           m.Headers)]}

OutpointAndUtxoEntryPairToApp(x) ==
    Require(x # Nil, {[Outpoint |-> outpoint, UTXOEntry |-> entry] :
                        outpoint \in OutpointToApp(x.Outpoint),
                        entry \in UtxoEntryToApp(x.UtxoEntry)})

PruningPointUtxoSetChunkToApp(x) ==
    {[type |-> "MsgPruningPointUTXOSetChunk", OutpointAndUTXOEntryPairs |-> pairs] :
        pairs \in Each(OutpointAndUtxoEntryPairToApp, x.OutpointAndUtxoEntryPairs)}

PruningPointUtxoSetChunkFromApp(m) ==
    {[OutpointAndUtxoEntryPairs |-> MapSlice(LAMBDA pair :
        [Outpoint |-> [TransactionId |-> domainTransactionIDToProto(pair.Outpoint.TxID),
                       Index |-> pair.Outpoint.Index],
         UtxoEntry |-> [Amount |-> pair.UTXOEntry.Amount,
                        ScriptPublicKey |-> [Script |-> pair.UTXOEntry.ScriptPublicKey.Script,
                                             Version |-> pair.UTXOEntry.ScriptPublicKey.Version],
                        BlockDaaScore |-> pair.UTXOEntry.BlockDAAScore,
                        IsCoinbase |-> pair.UTXOEntry.IsCoinbase]],
        m.OutpointAndUTXOEntryPairs)]}

RequestPruningPointAndItsAnticoneToApp(x) == {[type |-> "MsgRequestPruningPointAndItsAnticone"]}

RequestPruningPointAndItsAnticoneFromApp(m) == {Nil}

RequestNextPruningPointAndItsAnticoneBlocksToApp(x) ==
    {[type |-> "MsgRequestNextPruningPointAndItsAnticoneBlocks"]}

RequestNextPruningPointAndItsAnticoneBlocksFromApp(m) == {Nil}

RequestPruningPointProofToApp(x) == {[type |-> "MsgRequestPruningPointProof"]}

RequestPruningPointProofFromApp(m) == {Nil}

RequestPruningPointUTXOSetToApp(x) ==
    Require(x # Nil, {[type |-> "MsgRequestPruningPointUTXOSet", PruningPointHash |-> hash] :
                        hash \in HashToDomain(x.PruningPointHash)})

RequestPruningPointUTXOSetFromApp(m) ==
    {[PruningPointHash |-> domainHashToProto(m.PruningPointHash)]}

RequestNextPruningPointUtxoSetChunkToApp(x) == {[type |-> "MsgRequestNextPruningPointUTXOSetChunk"]}

RequestNextPruningPointUtxoSetChunkFromApp(m) == {NoFields}

DonePruningPointUtxoSetChunksToApp(x) == {[type |-> "MsgDonePruningPointUTXOSetChunks"]}

DonePruningPointUtxoSetChunksFromApp(m) == {NoFields}

UnexpectedPruningPointToApp(x) == {[type |-> "MsgUnexpectedPruningPoint"]}

UnexpectedPruningPointFromApp(m) == {Nil}
-----------------------------------------------------------------------------
(* Block relay, headers and locators *)

InvRelayBlockToApp(x) ==
    Require(x # Nil, {[type |-> "MsgInvRelayBlock", Hash |-> hash] : hash \in HashToDomain(x.Hash)})

InvRelayBlockFromApp(m) == {[Hash |-> domainHashToProto(m.Hash)]}

RequestRelayBlocksToApp(x) ==
    Require(x # Nil /\ Len(x.Hashes) <= MaxInvPerMsg,
            {[type |-> "MsgRequestRelayBlocks", Hashes |-> v] :
                v \in protoHashesToDomain(x.Hashes)})

RequestRelayBlocksFromApp(m) ==
    Require(Len(m.Hashes) <= MaxInvPerMsg, {[Hashes |-> domainHashesToProto(m.Hashes)]})

BlockLocatorToApp(x) ==
    Require(x # Nil /\ Len(x.Hashes) <= MaxBlockLocatorsPerMsg,
            {[type |-> "MsgBlockLocator", BlockLocatorHashes |-> v] :
                v \in protoHashesToDomain(x.Hashes)})

BlockLocatorFromApp(m) ==
    Require(Len(m.BlockLocatorHashes) <= MaxBlockLocatorsPerMsg,
            {[Hashes |-> domainHashesToProto(m.BlockLocatorHashes)]})

RequestBlockLocatorToApp(x) ==
    Require(x # Nil, {[type |-> "MsgRequestBlockLocator", HighHash |-> high, Limit |-> x.Limit] :
                        high \in HashToDomain(x.HighHash)})

RequestBlockLocatorFromApp(m) ==
    {[HighHash |-> domainHashToProto(m.HighHash), Limit |-> m.Limit]}

IbdBlockLocatorToApp(x) ==
    Require(x # Nil,
            {[type |-> "MsgIBDBlockLocator", TargetHash |-> target, BlockLocatorHashes |-> hashes] :
                target \in HashToDomain(x.TargetHash),
                hashes \in protoHashesToDomain(x.BlockLocatorHashes)})

IbdBlockLocatorFromApp(m) ==
    {[TargetHash |-> domainHashToProto(m.TargetHash),
      BlockLocatorHashes |-> domainHashesToProto(m.BlockLocatorHashes)]}

IbdBlockLocatorHighestHashToApp(x) ==
    Require(x # Nil, {[type |-> "MsgIBDBlockLocatorHighestHash", HighestHash |-> hash] :
                        hash \in HashToDomain(x.HighestHash)})

IbdBlockLocatorHighestHashFromApp(m) == {[HighestHash |-> domainHashToProto(m.HighestHash)]}

IbdBlockLocatorHighestHashNotFoundToApp(x) == {[type |-> "MsgIBDBlockLocatorHighestHashNotFound"]}

IbdBlockLocatorHighestHashNotFoundFromApp(m) == {NoFields}

IbdChainBlockLocatorToApp(x) ==
    Require(x # Nil,
            {[type |-> "MsgIBDChainBlockLocator", BlockLocatorHashes |-> v] :
                v \in protoHashesToDomain(x.BlockLocatorHashes)})

IbdChainBlockLocatorFromApp(m) ==
    {[BlockLocatorHashes |-> domainHashesToProto(m.BlockLocatorHashes)]}

RequestIBDChainBlockLocatorToApp(x) ==
    Require(x # Nil,
            {[type |-> "MsgRequestIBDChainBlockLocator", HighHash |-> high, LowHash |-> low] :
                high \in OptionalPart(HashToDomain, x.HighHash),
                low \in OptionalPart(HashToDomain, x.LowHash)})

RequestIBDChainBlockLocatorFromApp(m) ==
    {[HighHash |-> IF m.HighHash = Nil THEN Nil ELSE domainHashToProto(m.HighHash),
      LowHash |-> IF m.LowHash = Nil THEN Nil ELSE domainHashToProto(m.LowHash)]}

RequestIBDBlocksToApp(x) ==
    Require(x # Nil,
            {[type |-> "MsgRequestIBDBlocks", Hashes |-> v] :
                v \in protoHashesToDomain(x.Hashes)})

RequestIBDBlocksFromApp(m) ==
    {[Hashes |-> domainHashesToProto(m.Hashes)]}

\* Mutant: the two ends of the range are swapped.
RequestHeadersToAppSwapped(x) ==
    {[type |-> "MsgRequestHeaders", LowHash |-> high, HighHash |-> low] :
        low \in HashToDomain(x.LowHash), high \in HashToDomain(x.HighHash)}

RequestHeadersToApp(x) ==
    {[type |-> "MsgRequestHeaders", LowHash |-> low, HighHash |-> high] :
        low \in HashToDomain(x.LowHash), high \in HashToDomain(x.HighHash)}

RequestHeadersFromApp(m) ==
    {[LowHash |-> domainHashToProto(m.LowHash), HighHash |-> domainHashToProto(m.HighHash)]}

RequestAnticoneToApp(x) ==
    Require(x # Nil,
            {[type |-> "MsgRequestAnticone", BlockHash |-> block, ContextHash |-> context] :
                block \in HashToDomain(x.BlockHash), context \in HashToDomain(x.ContextHash)})

RequestAnticoneFromApp(m) ==
    {[BlockHash |-> domainHashToProto(m.BlockHash),
      ContextHash |-> domainHashToProto(m.ContextHash)]}

RequestNextHeadersToApp(x) == {[type |-> "MsgRequestNextHeaders"]}

RequestNextHeadersFromApp(m) == {Nil}

BlockHeadersToApp(x) ==
    Require(x # Nil,
            {[type |-> "BlockHeadersMessage", BlockHeaders |-> v] :
                v \in Each(BlockHeaderToApp, x.BlockHeaders)})

BlockHeadersFromApp(m) ==
    {[BlockHeaders |-> MapSlice(BlockHeaderFromApp, m.BlockHeaders)]}

DoneHeadersToApp(x) == {[type |-> "MsgDoneHeaders"]}

DoneHeadersFromApp(m) == {Nil}

-----------------------------------------------------------------------------
(* Transaction relay *)

InvTransactionsToApp(x) ==
    Require(x # Nil /\ Len(x.Ids) <= MaxInvPerMsg,
            {[type |-> "MsgInvTransaction", TxIDs |-> v] :
                v \in Each(TransactionIdToDomain, x.Ids)})

InvTransactionsFromApp(m) ==
    Require(Len(m.TxIDs) <= MaxInvPerMsg,
            {[Ids |-> MapSlice(domainTransactionIDToProto, m.TxIDs)]})

RequestTransactionsToApp(x) ==
    Require(x # Nil /\ Len(x.Ids) <= MaxInvPerMsg,
            {[type |-> "MsgRequestTransactions", IDs |-> v] :
                v \in Each(TransactionIdToDomain, x.Ids)})

RequestTransactionsFromApp(m) ==
    Require(Len(m.IDs) <= MaxInvPerMsg, {[Ids |-> MapSlice(domainTransactionIDToProto, m.IDs)]})

TransactionNotFoundToApp(x) ==
    Require(x # Nil,
            {[type |-> "MsgTransactionNotFound", ID |-> id] : id \in TransactionIdToDomain(x.Id)})

TransactionNotFoundFromApp(m) == {[Id |-> domainTransactionIDToProto(m.ID)]}

-----------------------------------------------------------------------------
(* Handshake, addresses, pings and rejects *)

\* id.FromBytes reads IDLength bytes and ignores what follows them.
IDFromBytes(bytes) == Require(Len(bytes) >= IDLength, {SubSeq(bytes, 1, IDLength)})

VersionToApp(x) ==
    Require(x # Nil /\ Len(x.UserAgent) <= MaxUserAgentLen,
            {[type |-> "MsgVersion", ProtocolVersion |-> x.ProtocolVersion,
              Network |-> x.Network, Services |-> x.Services,
              Timestamp |-> UnixMilliseconds(x.Timestamp), Address |-> address, ID |-> id,
              UserAgent |-> x.UserAgent, DisableRelayTx |-> x.DisableRelayTx,
              SubnetworkID |-> subnetwork] :
                address \in OptionalPart(NetAddressToApp, x.Address),
                subnetwork \in OptionalPart(SubnetworkIdToDomain, x.SubnetworkId),
                id \in IDFromBytes(x.Id)})

VersionFromApp(m) ==
    Require(Len(m.UserAgent) <= MaxUserAgentLen,
            {[ProtocolVersion |-> m.ProtocolVersion, Network |-> m.Network,
              Services |-> m.Services, Timestamp |-> m.Timestamp.ms,
              Address |-> IF m.Address = Nil THEN Nil ELSE appMessageNetAddressToProto(m.Address),
              Id |-> m.ID, UserAgent |-> m.UserAgent, DisableRelayTx |-> m.DisableRelayTx,
              SubnetworkId |-> domainSubnetworkIDToProto(m.SubnetworkID)]})

VerackToApp(x) == {[type |-> "MsgVerAck"]}

VerackFromApp(m) == {Nil}

ReadyToApp(x) == {[type |-> "MsgReady"]}

ReadyFromApp(m) == {Nil}

RequestAddressesToApp(x) ==
    Require(x # Nil,
            {[type |-> "MsgRequestAddresses", IncludeAllSubnetworks |-> x.IncludeAllSubnetworks,
              SubnetworkID |-> subnetwork] :
                subnetwork \in OptionalPart(SubnetworkIdToDomain, x.SubnetworkId)})

RequestAddressesFromApp(m) ==
    {[IncludeAllSubnetworks |-> m.IncludeAllSubnetworks,
      SubnetworkId |-> domainSubnetworkIDToProto(m.SubnetworkID)]}

\* Mutant: a full message is refused.
AddressesToAppBelow(x) ==
    Require(x # Nil /\ Len(x.AddressList) < MaxAddressesPerMsg,
            {[type |-> "MsgAddresses", AddressList |-> v] :
                v \in Each(NetAddressToApp, x.AddressList)})

AddressesToApp(x) ==
    Require(x # Nil /\ Len(x.AddressList) <= MaxAddressesPerMsg,
            {[type |-> "MsgAddresses", AddressList |-> v] :
                v \in Each(NetAddressToApp, x.AddressList)})

AddressesFromApp(m) ==
    Require(Len(m.AddressList) <= MaxAddressesPerMsg,
            {[AddressList |-> MapSlice(appMessageNetAddressToProto, m.AddressList)]})

PingToApp(x) == Require(x # Nil, {[type |-> "MsgPing", Nonce |-> x.Nonce]})

PingFromApp(m) == {[Nonce |-> m.Nonce]}

PongToApp(x) == Require(x # Nil, {[type |-> "MsgPong", Nonce |-> x.Nonce]})

PongFromApp(m) == {[Nonce |-> m.Nonce]}

RejectToApp(x) == Require(x # Nil, {[type |-> "MsgReject", Reason |-> x.Reason]})

RejectFromApp(m) == {[Reason |-> m.Reason]}
====
