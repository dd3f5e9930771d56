---- MODULE DomainConverters ----
(***************************************************************************)
(* app/appmessage/domainconverters.go: between the consensus' objects and  *)
(* the messages that carry them.  As in P2PConverters a converter that may *)
(* fail returns the set of its results, and so does one whose result       *)
(* depends on the order in which Go ranges over a map.                     *)
(*                                                                         *)
(* Both converters of RPC transactions set Gas to the lock time.           *)
(***************************************************************************)
EXTENDS P2PConverters

CONSTANT HexBase                 \* the number of hexadecimal digits

\* encoding/hex: a byte is two digits; an odd length is an error.
EncodeToString(bytes) ==
    FlattenSeq(MapSlice(LAMBDA b : <<b \div HexBase, b % HexBase>>, bytes))

DecodeString(string) ==
    Require(Len(string) % 2 = 0,
            {[i \in 1..Len(string) \div 2 |-> string[2 * i - 1] * HexBase + string[2 * i]]})

\* big.Int's Text(16) and SetString(_, 16): zero is the digit 0 and an empty
\* string is no number.
BigIntText(n) ==
    LET digits[m \in 0..MaxBig] ==
            IF m = 0 THEN <<>> ELSE Append(digits[m \div HexBase], m % HexBase)
    IN  IF n = 0 THEN <<0>> ELSE digits[n]

BigIntSetString(string) ==
    Require(string # <<>>, {FoldLeft(LAMBDA n, d : n * HexBase + d, 0, string)})

NewDomainHashFromString(string) ==
    Require(Len(string) = 2 * HashSize,
            UNION {NewDomainHashFromByteSlice(bytes) : bytes \in DecodeString(string)})

SubnetworkIDFromString(string) ==
    {bytes \in DecodeString(string) : Len(bytes) = SubnetworkIDSize}

\* The orders in which Go may range over a map: sequences of its keys.
RangeOrders(map) == SetToSeqs(DOMAIN map)

-----------------------------------------------------------------------------
(* Blocks and transactions on the peer-to-peer network *)

DomainBlockHeaderToBlockHeader(h) ==
    [type |-> "MsgBlockHeader", Version |-> h.Version, Parents |-> h.Parents,
     HashMerkleRoot |-> h.HashMerkleRoot, AcceptedIDMerkleRoot |-> h.AcceptedIDMerkleRoot,
     UTXOCommitment |-> h.UTXOCommitment,
     Timestamp |-> UnixMilliseconds(h.TimeInMilliseconds), Bits |-> h.Bits,
     Nonce |-> h.Nonce, BlueScore |-> h.BlueScore, DAAScore |-> h.DAAScore,
     BlueWork |-> h.BlueWork, PruningPoint |-> h.PruningPoint]

BlockHeaderToDomainBlockHeader(m) ==
    [Version |-> m.Version, Parents |-> m.Parents, HashMerkleRoot |-> m.HashMerkleRoot,
     AcceptedIDMerkleRoot |-> m.AcceptedIDMerkleRoot, UTXOCommitment |-> m.UTXOCommitment,
     TimeInMilliseconds |-> m.Timestamp.ms, Bits |-> m.Bits, Nonce |-> m.Nonce,
     DAAScore |-> m.DAAScore, BlueScore |-> m.BlueScore, BlueWork |-> m.BlueWork,
     PruningPoint |-> m.PruningPoint]

domainOutpointToOutpoint(o) == [TxID |-> o.TransactionID, Index |-> o.Index]

outpointToDomainOutpoint(m) == [TransactionID |-> m.TxID, Index |-> m.Index]

domainTransactionInputToTxIn(input) ==
    [PreviousOutpoint |-> domainOutpointToOutpoint(input.PreviousOutpoint),
     SignatureScript |-> input.SignatureScript, Sequence |-> input.Sequence,
     SigOpCount |-> input.SigOpCount]

txInToDomainTransactionInput(txIn) ==
    [PreviousOutpoint |-> outpointToDomainOutpoint(txIn.PreviousOutpoint),
     SignatureScript |-> txIn.SignatureScript, SigOpCount |-> txIn.SigOpCount,
     Sequence |-> txIn.Sequence]

domainTransactionOutputToTxOut(output) ==
    [Value |-> output.Value, ScriptPubKey |-> output.ScriptPublicKey]

txOutToDomainTransactionOutput(txOut) ==
    [Value |-> txOut.Value, ScriptPublicKey |-> txOut.ScriptPubKey]

DomainTransactionToMsgTx(tx) ==
    [type |-> "MsgTx", Version |-> tx.Version,
     TxIn |-> MapSlice(domainTransactionInputToTxIn, tx.Inputs),
     TxOut |-> MapSlice(domainTransactionOutputToTxOut, tx.Outputs),
     LockTime |-> tx.LockTime, SubnetworkID |-> tx.SubnetworkID, Gas |-> tx.Gas,
     Payload |-> tx.Payload]

MsgTxToDomainTransaction(m) ==
    [Version |-> m.Version, Inputs |-> MapSlice(txInToDomainTransactionInput, m.TxIn),
     Outputs |-> MapSlice(txOutToDomainTransactionOutput, m.TxOut),
     LockTime |-> m.LockTime, SubnetworkID |-> m.SubnetworkID, Gas |-> m.Gas,
     Payload |-> m.Payload]

DomainBlockToMsgBlock(block) ==
    [type |-> "MsgBlock", Header |-> DomainBlockHeaderToBlockHeader(block.Header),
     Transactions |-> MapSlice(DomainTransactionToMsgTx, block.Transactions)]

MsgBlockToDomainBlock(m) ==
    [Header |-> BlockHeaderToDomainBlockHeader(m.Header),
     Transactions |-> MapSlice(MsgTxToDomainTransaction, m.Transactions)]

-----------------------------------------------------------------------------
(* The pruning point: its UTXO set, trusted data and proof *)

DomainOutpointAndUTXOEntryPairsToOutpointAndUTXOEntryPairs(pairs) ==
    MapSlice(LAMBDA pair :
        [Outpoint |-> [TxID |-> pair.Outpoint.TransactionID, Index |-> pair.Outpoint.Index],
         UTXOEntry |-> [Amount |-> pair.UTXOEntry.Amount,
                        ScriptPublicKey |-> pair.UTXOEntry.ScriptPublicKey,
                        IsCoinbase |-> pair.UTXOEntry.IsCoinbase,
                        BlockDAAScore |-> pair.UTXOEntry.BlockDAAScore]], pairs)

OutpointAndUTXOEntryPairsToDomainOutpointAndUTXOEntryPairs(pairs) ==
    MapSlice(LAMBDA pair :
        [Outpoint |-> [TransactionID |-> pair.Outpoint.TxID, Index |-> pair.Outpoint.Index],
         UTXOEntry |-> [Amount |-> pair.UTXOEntry.Amount,
                        ScriptPublicKey |-> pair.UTXOEntry.ScriptPublicKey,
                        IsCoinbase |-> pair.UTXOEntry.IsCoinbase,
                        BlockDAAScore |-> pair.UTXOEntry.BlockDAAScore]], pairs)

domainGHOSTDAGDataGHOSTDAGData(data) ==
    {[BlueScore |-> data.BlueScore, BlueWork |-> data.BlueWork,
      SelectedParent |-> data.SelectedParent, MergeSetBlues |-> data.MergeSetBlues,
      MergeSetReds |-> data.MergeSetReds,
      BluesAnticoneSizes |-> MapSlice(LAMBDA blue :
        [BlueHash |-> blue, AnticoneSize |-> data.BluesAnticoneSizes[blue]], order)] :
            order \in RangeOrders(data.BluesAnticoneSizes)}

\* A later pair of a hash replaces an earlier one.
PairsToMap(pairs) ==
    [hash \in {pairs[i].BlueHash : i \in DOMAIN pairs} |->
        pairs[Max({i \in DOMAIN pairs : pairs[i].BlueHash = hash})].AnticoneSize]

ghostdagDataToDomainGHOSTDAGData(m) ==
    [BlueScore |-> m.BlueScore, BlueWork |-> m.BlueWork, SelectedParent |-> m.SelectedParent,
     MergeSetBlues |-> m.MergeSetBlues, MergeSetReds |-> m.MergeSetReds,
     BluesAnticoneSizes |-> PairsToMap(m.BluesAnticoneSizes)]

GHOSTDAGHashPairToDomainGHOSTDAGHashPair(pair) ==
    [Hash |-> pair.Hash, GHOSTDAGData |-> ghostdagDataToDomainGHOSTDAGData(pair.GHOSTDAGData)]

HashPairsToMessage(pairs) ==
    Each(LAMBDA pair : {[Hash |-> pair.Hash, GHOSTDAGData |-> data] :
                           data \in domainGHOSTDAGDataGHOSTDAGData(pair.GHOSTDAGData)}, pairs)

DomainBlockWithTrustedDataToBlockWithTrustedDataV4(block, daaIndices, ghostdagIndices) ==
    [type |-> "MsgBlockWithTrustedDataV4", Block |-> DomainBlockToMsgBlock(block),
     DAAWindowIndices |-> daaIndices, GHOSTDAGDataIndices |-> ghostdagIndices]

DomainTrustedDataToTrustedData(daaWindow, ghostdagData) ==
    {[type |-> "MsgTrustedData", DAAWindow |-> window, GHOSTDAGData |-> pairs] :
        window \in Each(LAMBDA daa :
            {[Header |-> DomainBlockHeaderToBlockHeader(daa.Header), GHOSTDAGData |-> data] :
                data \in domainGHOSTDAGDataGHOSTDAGData(daa.GHOSTDAGData)}, daaWindow),
        pairs \in HashPairsToMessage(ghostdagData)}

TrustedDataDataDAABlockV4ToTrustedDataDataDAAHeader(daa) ==
    [Header |-> BlockHeaderToDomainBlockHeader(daa.Header),
     GHOSTDAGData |-> ghostdagDataToDomainGHOSTDAGData(daa.GHOSTDAGData)]

DomainPruningPointProofToMsgPruningPointProof(proof) ==
    [type |-> "MsgPruningPointProof",
     Headers |-> MapSlice(LAMBDA level : MapSlice(DomainBlockHeaderToBlockHeader, level),
                          proof.Headers)]

MsgPruningPointProofToDomainPruningPointProof(m) ==
    [Headers |-> MapSlice(LAMBDA level : MapSlice(BlockHeaderToDomainBlockHeader, level),
                          m.Headers)]

-----------------------------------------------------------------------------
(* Blocks and transactions in the RPC server and its clients *)

RPCOutpointToDomainOutpoint(m) ==
    {[TransactionID |-> id, Index |-> m.Index] :
        id \in NewDomainHashFromString(m.TransactionID)}

RPCScriptToScriptPublicKey(m) ==
    {[Script |-> script, Version |-> m.Version] : script \in DecodeString(m.Script)}

RPCUTXOEntryToUTXOEntry(m) ==
    {[Amount |-> m.Amount, ScriptPublicKey |-> script, IsCoinbase |-> m.IsCoinbase,
      BlockDAAScore |-> m.BlockDAAScore] :
        script \in RPCScriptToScriptPublicKey(m.ScriptPublicKey)}

\* rpccontext's ConvertUTXOOutpointEntryPairsToUTXOsByAddressesEntries ranges
\* over a map; the wallet's sync reads the entries back.
UTXOsToEntries(address, pairs) ==
    {MapSlice(LAMBDA outpoint :
        [Address |-> address,
         Outpoint |-> [TransactionID |-> EncodeToString(outpoint.TransactionID),
                       Index |-> outpoint.Index],
         UTXOEntry |->
            [Amount |-> pairs[outpoint].Amount,
             ScriptPublicKey |->
                [Script |-> EncodeToString(pairs[outpoint].ScriptPublicKey.Script),
                 Version |-> pairs[outpoint].ScriptPublicKey.Version],
             BlockDAAScore |-> pairs[outpoint].BlockDAAScore,
             IsCoinbase |-> pairs[outpoint].IsCoinbase]], order) :
        order \in RangeOrders(pairs)}

EntriesToUTXOs(entries) ==
    {[outpoint \in {pairs[i][1] : i \in DOMAIN pairs} |->
        pairs[Max({i \in DOMAIN pairs : pairs[i][1] = outpoint})][2]] :
            pairs \in Each(LAMBDA entry : RPCOutpointToDomainOutpoint(entry.Outpoint)
                                            \X RPCUTXOEntryToUTXOEntry(entry.UTXOEntry), entries)}

DomainTransactionToRPCTransaction(tx) ==
    [Version |-> tx.Version,
     Inputs |-> MapSlice(LAMBDA input :
        [PreviousOutpoint |->
            [TransactionID |-> EncodeToString(input.PreviousOutpoint.TransactionID),
             Index |-> input.PreviousOutpoint.Index],
         SignatureScript |-> EncodeToString(input.SignatureScript),
         Sequence |-> input.Sequence, SigOpCount |-> input.SigOpCount,
         VerboseData |-> Nil], tx.Inputs),
     Outputs |-> MapSlice(LAMBDA output :
        [Amount |-> output.Value,
         ScriptPublicKey |-> [Script |-> EncodeToString(output.ScriptPublicKey.Script),
                              Version |-> output.ScriptPublicKey.Version],
         VerboseData |-> Nil], tx.Outputs),
     LockTime |-> tx.LockTime, SubnetworkID |-> EncodeToString(tx.SubnetworkID),
     Gas |-> tx.LockTime, Payload |-> EncodeToString(tx.Payload), VerboseData |-> Nil]

RPCTransactionToDomainTransaction(m) ==
    {[Version |-> m.Version, Inputs |-> inputs, Outputs |-> outputs,
      LockTime |-> m.LockTime, SubnetworkID |-> subnetwork, Gas |-> m.LockTime,
      Payload |-> payload] :
        inputs \in Each(LAMBDA input :
            {[PreviousOutpoint |-> outpoint, SignatureScript |-> script,
              Sequence |-> input.Sequence, SigOpCount |-> input.SigOpCount] :
                outpoint \in RPCOutpointToDomainOutpoint(input.PreviousOutpoint),
                script \in DecodeString(input.SignatureScript)}, m.Inputs),
        outputs \in Each(LAMBDA output :
            {[Value |-> output.Amount, ScriptPublicKey |-> script] :
                script \in RPCScriptToScriptPublicKey(output.ScriptPublicKey)}, m.Outputs),
        subnetwork \in SubnetworkIDFromString(m.SubnetworkID),
        payload \in DecodeString(m.Payload)}

DomainBlockToRPCBlock(block) ==
    [Header |->
        [Version |-> block.Header.Version,
         Parents |-> MapSlice(LAMBDA level :
            [ParentHashes |-> MapSlice(EncodeToString, level)], block.Header.Parents),
         HashMerkleRoot |-> EncodeToString(block.Header.HashMerkleRoot),
         AcceptedIDMerkleRoot |-> EncodeToString(block.Header.AcceptedIDMerkleRoot),
         UTXOCommitment |-> EncodeToString(block.Header.UTXOCommitment),
         Timestamp |-> block.Header.TimeInMilliseconds, Bits |-> block.Header.Bits,
         Nonce |-> block.Header.Nonce, DAAScore |-> block.Header.DAAScore,
         BlueScore |-> block.Header.BlueScore, BlueWork |-> BigIntText(block.Header.BlueWork),
         PruningPoint |-> EncodeToString(block.Header.PruningPoint)],
     Transactions |-> MapSlice(DomainTransactionToRPCTransaction, block.Transactions),
     VerboseData |-> Nil]

\* uint16(block.Header.Version) keeps the lower bits.
RPCBlockToDomainBlock(m) ==
    {[Header |->
        [Version |-> m.Header.Version % (MaxUint16 + 1), Parents |-> parents,
         HashMerkleRoot |-> merkle, AcceptedIDMerkleRoot |-> accepted,
         UTXOCommitment |-> utxo, TimeInMilliseconds |-> m.Header.Timestamp,
         Bits |-> m.Header.Bits, Nonce |-> m.Header.Nonce, DAAScore |-> m.Header.DAAScore,
         BlueScore |-> m.Header.BlueScore, BlueWork |-> work, PruningPoint |-> pruning],
      Transactions |-> transactions] :
        parents \in Each(LAMBDA level : Each(NewDomainHashFromString, level.ParentHashes),
                         m.Header.Parents),
        merkle \in NewDomainHashFromString(m.Header.HashMerkleRoot),
        accepted \in NewDomainHashFromString(m.Header.AcceptedIDMerkleRoot),
        utxo \in NewDomainHashFromString(m.Header.UTXOCommitment),
        work \in BigIntSetString(m.Header.BlueWork),
        pruning \in NewDomainHashFromString(m.Header.PruningPoint),
        transactions \in Each(RPCTransactionToDomainTransaction, m.Transactions)}
====
