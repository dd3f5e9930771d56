---- MODULE DbObjects ----
(***************************************************************************)
(* The structs protoc generates for dbobjects.proto: the form in which the *)
(* stores of a consensus keep their objects in the database.  Every nested *)
(* message is a pointer that may be nil.                                   *)
(***************************************************************************)
EXTENDS MessageTypes

DbHash == Struct([Hash |-> Bytes])
DbBlockLevelParents == Struct([ParentHashes |-> Slice(DbHash)])
DbBlockHeader ==
    Struct([Version |-> Uint32, Parents |-> Slice(DbBlockLevelParents),
            HashMerkleRoot |-> Optional(DbHash), AcceptedIDMerkleRoot |-> Optional(DbHash),
            UtxoCommitment |-> Optional(DbHash), TimeInMilliseconds |-> Int64,
            Bits |-> Uint32, Nonce |-> Uint64, DaaScore |-> Uint64, BlueWork |-> Bytes,
            PruningPoint |-> Optional(DbHash), BlueScore |-> Uint64])
DbTransactionId == Struct([TransactionId |-> Bytes])
DbOutpoint == Struct([TransactionID |-> Optional(DbTransactionId), Index |-> Uint32])
DbTransactionInput ==
    Struct([PreviousOutpoint |-> Optional(DbOutpoint), SignatureScript |-> Bytes,
            Sequence |-> Uint64, SigOpCount |-> Uint32])
DbScriptPublicKey == Struct([Script |-> Bytes, Version |-> Uint32])
DbTransactionOutput ==
    Struct([Value |-> Uint64, ScriptPublicKey |-> Optional(DbScriptPublicKey)])
DbSubnetworkId == Struct([SubnetworkId |-> Bytes])
DbTransaction ==
    Struct([Version |-> Uint32, Inputs |-> Slice(DbTransactionInput),
            Outputs |-> Slice(DbTransactionOutput), LockTime |-> Uint64,
            SubnetworkID |-> Optional(DbSubnetworkId), Gas |-> Uint64, Payload |-> Bytes])
DbBlock == Struct([Header |-> Optional(DbBlockHeader), Transactions |-> Slice(DbTransaction)])
DbUtxoEntry ==
    Struct([Amount |-> Uint64, ScriptPublicKey |-> Optional(DbScriptPublicKey),
            BlockDaaScore |-> Uint64, IsCoinbase |-> Bool])
DbTransactionAcceptanceData ==
    Struct([Transaction |-> Optional(DbTransaction), Fee |-> Uint64, IsAccepted |-> Bool,
            TransactionInputUtxoEntries |-> Slice(DbUtxoEntry)])
DbBlockAcceptanceData ==
    Struct([TransactionAcceptanceData |-> Slice(DbTransactionAcceptanceData),
            BlockHash |-> Optional(DbHash)])
DbAcceptanceData == Struct([BlockAcceptanceData |-> Slice(DbBlockAcceptanceData)])
DbBlockRelations == Struct([Parents |-> Slice(DbHash), Children |-> Slice(DbHash)])
DbBlockStatus == Struct([Status |-> Uint32])
DbBluesAnticoneSizes == Struct([BlueHash |-> Optional(DbHash), AnticoneSize |-> Uint32])
DbBlockGhostdagData ==
    Struct([BlueScore |-> Uint64, BlueWork |-> Bytes, SelectedParent |-> Optional(DbHash),
            MergeSetBlues |-> Slice(DbHash), MergeSetReds |-> Slice(DbHash),
            BluesAnticoneSizes |-> Slice(DbBluesAnticoneSizes)])
DbMultiset == Struct([Multiset |-> Bytes])
DbUtxoCollectionItem ==
    Struct([Outpoint |-> Optional(DbOutpoint), UtxoEntry |-> Optional(DbUtxoEntry)])
DbReachabilityInterval == Struct([Start |-> Uint64, End |-> Uint64])
DbReachabilityData ==
    Struct([Children |-> Slice(DbHash), Parent |-> Optional(DbHash),
            Interval |-> Optional(DbReachabilityInterval), FutureCoveringSet |-> Slice(DbHash)])
DbUtxoDiff ==
    Struct([ToAdd |-> Slice(DbUtxoCollectionItem), ToRemove |-> Slice(DbUtxoCollectionItem)])
DbTips == Struct([Tips |-> Slice(DbHash)])
DbBlockGHOSTDAGDataHashPair ==
    Struct([Hash |-> Optional(DbHash), GhostdagData |-> Optional(DbBlockGhostdagData)])
====
