---- MODULE DbConverters ----
(***************************************************************************)
(* domain/consensus/database/serialization: between the consensus' objects *)
(* and the structures the stores write to the database.  A converter that  *)
(* may fail, or that ranges over a map, returns the set of its results.    *)
(***************************************************************************)
EXTENDS DomainConverters

CONSTANT MultisetSize

DbHashToDomainHash(x) == Require(x # Nil, NewDomainHashFromByteSlice(x.Hash))

DomainHashToDbHash(hash) == [Hash |-> hash]

DomainHashesToDbHashes(hashes) == MapSlice(DomainHashToDbHash, hashes)

DbHashesToDomainHashes(xs) == Each(DbHashToDomainHash, xs)

DomainTransactionIDToDbTransactionID(id) == [TransactionId |-> id]

DbTransactionIDToDomainTransactionID(x) ==
    Require(x # Nil, NewDomainHashFromByteSlice(x.TransactionId))

DomainSubnetworkIDToDbSubnetworkID(id) == [SubnetworkId |-> id]

DbSubnetworkIDToDomainSubnetworkID(x) ==
    Require(x # Nil /\ Len(x.SubnetworkId) = SubnetworkIDSize, {x.SubnetworkId})

DomainOutpointToDbOutpoint(o) ==
    [TransactionID |-> DomainTransactionIDToDbTransactionID(o.TransactionID),
     Index |-> o.Index]

DbOutpointToDomainOutpoint(x) ==
    {[TransactionID |-> id, Index |-> x.Index] :
        id \in DbTransactionIDToDomainTransactionID(x.TransactionID)}

ScriptPublicKeyToDBScriptPublicKey(script) ==
    [Script |-> script.Script, Version |-> script.Version]

DBScriptPublicKeyToScriptPublicKey(x) ==
    Require(x # Nil /\ x.Version <= MaxUint16, {[Script |-> x.Script, Version |-> x.Version]})

UTXOEntryToDBUTXOEntry(entry) ==
    [Amount |-> entry.Amount,
     ScriptPublicKey |-> ScriptPublicKeyToDBScriptPublicKey(entry.ScriptPublicKey),
     BlockDaaScore |-> entry.BlockDAAScore, IsCoinbase |-> entry.IsCoinbase]

DBUTXOEntryToUTXOEntry(x) ==
    {[Amount |-> x.Amount, ScriptPublicKey |-> script, IsCoinbase |-> x.IsCoinbase,
      BlockDAAScore |-> x.BlockDaaScore] :
        script \in DBScriptPublicKeyToScriptPublicKey(x.ScriptPublicKey)}

-----------------------------------------------------------------------------
(* Blocks *)

DomainBlockLevelParentsToDbBlockLevelParents(level) ==
    [ParentHashes |-> DomainHashesToDbHashes(level)]

DbBlockLevelParentsToDomainBlockLevelParents(x) ==
    Each(LAMBDA parent : NewDomainHashFromByteSlice(parent.Hash), x.ParentHashes)

DomainParentsToDbParents(parents) ==
    MapSlice(DomainBlockLevelParentsToDbBlockLevelParents, parents)

DbParentsToDomainParents(xs) == Each(DbBlockLevelParentsToDomainBlockLevelParents, xs)

DomainBlockHeaderToDbBlockHeader(h) ==
    [Version |-> h.Version, Parents |-> DomainParentsToDbParents(h.Parents),
     HashMerkleRoot |-> DomainHashToDbHash(h.HashMerkleRoot),
     AcceptedIDMerkleRoot |-> DomainHashToDbHash(h.AcceptedIDMerkleRoot),
     UtxoCommitment |-> DomainHashToDbHash(h.UTXOCommitment),
     TimeInMilliseconds |-> h.TimeInMilliseconds, Bits |-> h.Bits, Nonce |-> h.Nonce,
     DaaScore |-> h.DAAScore, BlueScore |-> h.BlueScore, BlueWork |-> BigIntBytes[h.BlueWork],
     PruningPoint |-> DomainHashToDbHash(h.PruningPoint)]

DbBlockHeaderToDomainBlockHeader(x) ==
    Require(x.Version <= MaxUint16,
            {[Version |-> x.Version, Parents |-> parents, HashMerkleRoot |-> merkle,
              AcceptedIDMerkleRoot |-> accepted, UTXOCommitment |-> utxo,
              TimeInMilliseconds |-> x.TimeInMilliseconds, Bits |-> x.Bits,
              Nonce |-> x.Nonce, DAAScore |-> x.DaaScore, BlueScore |-> x.BlueScore,
              BlueWork |-> SetBytes(x.BlueWork), PruningPoint |-> pruning] :
                parents \in DbParentsToDomainParents(x.Parents),
                merkle \in DbHashToDomainHash(x.HashMerkleRoot),
                accepted \in DbHashToDomainHash(x.AcceptedIDMerkleRoot),
                utxo \in DbHashToDomainHash(x.UtxoCommitment),
                pruning \in DbHashToDomainHash(x.PruningPoint)})

DomainTransactionToDbTransaction(tx) ==
    [Version |-> tx.Version,
     Inputs |-> MapSlice(LAMBDA input :
        [PreviousOutpoint |-> DomainOutpointToDbOutpoint(input.PreviousOutpoint),
         SignatureScript |-> input.SignatureScript, Sequence |-> input.Sequence,
         SigOpCount |-> input.SigOpCount], tx.Inputs),
     Outputs |-> MapSlice(LAMBDA output :
        [Value |-> output.Value,
         ScriptPublicKey |-> ScriptPublicKeyToDBScriptPublicKey(output.ScriptPublicKey)],
        tx.Outputs),
     LockTime |-> tx.LockTime,
     SubnetworkID |-> DomainSubnetworkIDToDbSubnetworkID(tx.SubnetworkID),
     Gas |-> tx.Gas, Payload |-> tx.Payload]

\* byte(SigOpCount) keeps the lower bits.
DbTransactionToDomainTransaction(x) ==
    Require(x.Version <= MaxUint16,
            {[Version |-> x.Version, Inputs |-> inputs, Outputs |-> outputs,
              LockTime |-> x.LockTime, SubnetworkID |-> subnetwork, Gas |-> x.Gas,
              Payload |-> x.Payload] :
                subnetwork \in DbSubnetworkIDToDomainSubnetworkID(x.SubnetworkID),
                inputs \in Each(LAMBDA input :
                    {[PreviousOutpoint |-> outpoint,
                      SignatureScript |-> input.SignatureScript,
                      Sequence |-> input.Sequence,
                      SigOpCount |-> input.SigOpCount % (MaxUint8 + 1)] :
                        outpoint \in DbOutpointToDomainOutpoint(input.PreviousOutpoint)},
                    x.Inputs),
                outputs \in Each(LAMBDA output :
                    {[Value |-> output.Value, ScriptPublicKey |-> script] :
                        script \in DBScriptPublicKeyToScriptPublicKey(output.ScriptPublicKey)},
                    x.Outputs)})

DomainBlockToDbBlock(block) ==
    [Header |-> DomainBlockHeaderToDbBlockHeader(block.Header),
     Transactions |-> MapSlice(DomainTransactionToDbTransaction, block.Transactions)]

DbBlockToDomainBlock(x) ==
    {[Header |-> header, Transactions |-> transactions] :
        header \in DbBlockHeaderToDomainBlockHeader(x.Header),
        transactions \in Each(DbTransactionToDomainTransaction, x.Transactions)}

-----------------------------------------------------------------------------
(* GHOSTDAG data, relations, reachability, statuses, tips, multisets *)

bluesAnticoneSizesToDBBluesAnticoneSizes(sizes) ==
    {MapSlice(LAMBDA hash : [BlueHash |-> DomainHashToDbHash(hash),
                             AnticoneSize |-> sizes[hash]], order) :
        order \in RangeOrders(sizes)}

uint32ToKType(n) == Require(n % (MaxUint8 + 1) = n, {n})

dbBluesAnticoneSizesToBluesAnticoneSizes(xs) ==
    {PairsToMap(pairs) :
        pairs \in Each(LAMBDA x : {[BlueHash |-> hash, AnticoneSize |-> size] :
                                      hash \in DbHashToDomainHash(x.BlueHash),
                                      size \in uint32ToKType(x.AnticoneSize)}, xs)}

BlockGHOSTDAGDataToDBBlockGHOSTDAGData(data) ==
    {[BlueScore |-> data.BlueScore, BlueWork |-> BigIntBytes[data.BlueWork],
      SelectedParent |-> IF data.SelectedParent = Nil THEN Nil
                         ELSE DomainHashToDbHash(data.SelectedParent),
      MergeSetBlues |-> DomainHashesToDbHashes(data.MergeSetBlues),
      MergeSetReds |-> DomainHashesToDbHashes(data.MergeSetReds),
      BluesAnticoneSizes |-> sizes] :
        sizes \in bluesAnticoneSizesToDBBluesAnticoneSizes(data.BluesAnticoneSizes)}

DBBlockGHOSTDAGDataToBlockGHOSTDAGData(x) ==
    {[BlueScore |-> x.BlueScore, BlueWork |-> SetBytes(x.BlueWork), SelectedParent |-> parent,
      MergeSetBlues |-> blues, MergeSetReds |-> reds, BluesAnticoneSizes |-> sizes] :
        parent \in OptionalPart(DbHashToDomainHash, x.SelectedParent),
        blues \in DbHashesToDomainHashes(x.MergeSetBlues),
        reds \in DbHashesToDomainHashes(x.MergeSetReds),
        sizes \in dbBluesAnticoneSizesToBluesAnticoneSizes(x.BluesAnticoneSizes)}

BlockGHOSTDAGDataHashPairToDbBlockGhostdagDataHashPair(pair) ==
    {[Hash |-> DomainHashToDbHash(pair.Hash), GhostdagData |-> data] :
        data \in BlockGHOSTDAGDataToDBBlockGHOSTDAGData(pair.GHOSTDAGData)}

DbBlockGHOSTDAGDataHashPairToBlockGHOSTDAGDataHashPair(x) ==
    {[Hash |-> hash, GHOSTDAGData |-> data] :
        hash \in DbHashToDomainHash(x.Hash),
        data \in DBBlockGHOSTDAGDataToBlockGHOSTDAGData(x.GhostdagData)}

DomainBlockRelationsToDbBlockRelations(relations) ==
    [Parents |-> DomainHashesToDbHashes(relations.Parents),
     Children |-> DomainHashesToDbHashes(relations.Children)]

DbBlockRelationsToDomainBlockRelations(x) ==
    {[Parents |-> parents, Children |-> children] :
        parents \in DbHashesToDomainHashes(x.Parents),
        children \in DbHashesToDomainHashes(x.Children)}

reachablityIntervalToDBReachablityInterval(i) == [Start |-> i.Start, End |-> i.End]

dbReachablityIntervalToReachablityInterval(x) == [Start |-> x.Start, End |-> x.End]

ReachablityDataToDBReachablityData(data) ==
    [Children |-> DomainHashesToDbHashes(data.Children),
     Parent |-> IF data.Parent = Nil THEN Nil ELSE DomainHashToDbHash(data.Parent),
     Interval |-> reachablityIntervalToDBReachablityInterval(data.Interval),
     FutureCoveringSet |-> DomainHashesToDbHashes(data.FutureCoveringSet)]

DBReachablityDataToReachablityData(x) ==
    {[Children |-> children, Parent |-> parent,
      Interval |-> dbReachablityIntervalToReachablityInterval(x.Interval),
      FutureCoveringSet |-> covering] :
        children \in DbHashesToDomainHashes(x.Children),
        parent \in OptionalPart(DbHashToDomainHash, x.Parent),
        covering \in DbHashesToDomainHashes(x.FutureCoveringSet)}

DomainBlockStatusToDbBlockStatus(status) == [Status |-> status]

DbBlockStatusToDomainBlockStatus(x) == x.Status % (MaxUint8 + 1)

TipsToDBTips(tips) == [Tips |-> DomainHashesToDbHashes(tips)]

DBTipsToTips(x) == DbHashesToDomainHashes(x.Tips)

MultisetToDBMultiset(multiset) == [Multiset |-> multiset]

DBMultisetToMultiset(x) == Require(Len(x.Multiset) = MultisetSize, {x.Multiset})

-----------------------------------------------------------------------------
(* UTXO diffs and acceptance data *)

utxoCollectionToDBUTXOCollection(collection) ==
    {MapSlice(LAMBDA outpoint :
        [Outpoint |-> DomainOutpointToDbOutpoint(outpoint),
         UtxoEntry |-> UTXOEntryToDBUTXOEntry(collection[outpoint])], order) :
            order \in RangeOrders(collection)}

dbUTXOCollectionToUTXOCollection(items) ==
    {[outpoint \in {pairs[i][1] : i \in DOMAIN pairs} |->
        pairs[Max({i \in DOMAIN pairs : pairs[i][1] = outpoint})][2]] :
            pairs \in Each(LAMBDA item : DbOutpointToDomainOutpoint(item.Outpoint)
                                            \X DBUTXOEntryToUTXOEntry(item.UtxoEntry), items)}

UTXODiffToDBUTXODiff(diff) ==
    {[ToAdd |-> toAdd, ToRemove |-> toRemove] :
        toAdd \in utxoCollectionToDBUTXOCollection(diff.ToAdd),
        toRemove \in utxoCollectionToDBUTXOCollection(diff.ToRemove)}

DBUTXODiffToUTXODiff(x) ==
    {[ToAdd |-> toAdd, ToRemove |-> toRemove] :
        toAdd \in dbUTXOCollectionToUTXOCollection(x.ToAdd),
        toRemove \in dbUTXOCollectionToUTXOCollection(x.ToRemove)}

DomainAcceptanceDataToDbAcceptanceData(data) ==
    [BlockAcceptanceData |-> MapSlice(LAMBDA block :
        [BlockHash |-> DomainHashToDbHash(block.BlockHash),
         TransactionAcceptanceData |-> MapSlice(LAMBDA tx :
            [Transaction |-> DomainTransactionToDbTransaction(tx.Transaction),
             Fee |-> tx.Fee, IsAccepted |-> tx.IsAccepted,
             TransactionInputUtxoEntries |->
                MapSlice(UTXOEntryToDBUTXOEntry, tx.TransactionInputUTXOEntries)],
            block.TransactionAcceptanceData)], data)]

\* Mutant: the entries are not filled in.
FillNoInputs(tx, entries) == Require(Len(entries) <= Len(tx.Inputs), {tx})

\* Reading fills in the UTXO entries of the transaction's inputs, which fails
\* on an entry that has no input.
FillInputs(tx, entries) ==
    Require(Len(entries) <= Len(tx.Inputs),
            {[tx EXCEPT !.Inputs = [i \in DOMAIN tx.Inputs |->
                IF i \in DOMAIN entries THEN [UTXOEntry |-> entries[i]] @@ tx.Inputs[i]
                ELSE tx.Inputs[i]]]})

DbAcceptanceDataToDomainAcceptanceData(x) ==
    Each(LAMBDA block :
        {[BlockHash |-> hash, TransactionAcceptanceData |-> transactions] :
            hash \in DbHashToDomainHash(block.BlockHash),
            transactions \in Each(LAMBDA y :
                {[Transaction |-> filled[1], Fee |-> y.Fee, IsAccepted |-> y.IsAccepted,
                  TransactionInputUTXOEntries |-> filled[2]] :
                    filled \in UNION {FillInputs(tx, entries) \X {entries} :
                        tx \in DbTransactionToDomainTransaction(y.Transaction),
                        entries \in Each(DBUTXOEntryToUTXOEntry,
                                         y.TransactionInputUtxoEntries)}},
                block.TransactionAcceptanceData)}, x.BlockAcceptanceData)
====
