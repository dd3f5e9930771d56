---- MODULE DomainTypes ----
(***************************************************************************)
(* The objects the consensus works with (domain/consensus/model and its    *)
(* externalapi): what the nodes exchange, what the RPC server shows and    *)
(* what the stores keep.  What the node computes from a transaction and    *)
(* only remembers in it (its fee, mass and id, and the UTXO entries of its *)
(* inputs) is left out, except in acceptance data, where reading it back   *)
(* fills in the entries.                                                   *)
(***************************************************************************)
EXTENDS MessageTypes

CONSTANT MultisetSize            \* the bytes of a serialized multiset

ScriptPublicKey == Struct([Script |-> Bytes, Version |-> Uint16])

UTXOEntry ==
    Struct([Amount |-> Uint64, ScriptPublicKey |-> ScriptPublicKey, BlockDAAScore |-> Uint64,
            IsCoinbase |-> Bool])

DomainOutpoint == Struct([TransactionID |-> DomainHash, Index |-> Uint32])

DomainTransactionInput ==
    Struct([PreviousOutpoint |-> DomainOutpoint, SignatureScript |-> Bytes,
            Sequence |-> Uint64, SigOpCount |-> Uint8])

DomainTransactionOutput == Struct([Value |-> Uint64, ScriptPublicKey |-> ScriptPublicKey])

DomainTransactionWith(gas) ==
    Struct([Version |-> Uint16, Inputs |-> Slice(DomainTransactionInput),
            Outputs |-> Slice(DomainTransactionOutput), LockTime |-> Uint64,
            SubnetworkID |-> DomainSubnetworkID, Gas |-> gas, Payload |-> Bytes])

DomainTransaction == DomainTransactionWith(Uint64)

BlockHeader ==
    Struct([Version |-> Uint16, Parents |-> Slice(Slice(DomainHash)),
            HashMerkleRoot |-> DomainHash, AcceptedIDMerkleRoot |-> DomainHash,
            UTXOCommitment |-> DomainHash, TimeInMilliseconds |-> Int64, Bits |-> Uint32,
            Nonce |-> Uint64, DAAScore |-> Uint64, BlueScore |-> Uint64, BlueWork |-> BigInt,
            PruningPoint |-> DomainHash])

DomainBlockOf(transaction) ==
    Struct([Header |-> BlockHeader, Transactions |-> Slice(transaction)])

DomainBlock == DomainBlockOf(DomainTransaction)

\* What a block or a transaction keeps on its way through the RPC messages: all
\* but the gas, for which the converters take the lock time.
SubmittedTransaction == DomainTransactionWith(Lost(Uint64))

SubmittedBlock == DomainBlockOf(SubmittedTransaction)

OutpointAndUTXOEntryPairs ==
    Slice(Struct([Outpoint |-> DomainOutpoint, UTXOEntry |-> UTXOEntry]))

\* The genesis block's GHOSTDAG data has no selected parent; no other block's
\* data is without one.
GHOSTDAGDataWith(selectedParent) ==
    Struct([BlueScore |-> Uint64, BlueWork |-> BigInt, SelectedParent |-> selectedParent,
            MergeSetBlues |-> Slice(DomainHash), MergeSetReds |-> Slice(DomainHash),
            BluesAnticoneSizes |-> MapOf(DomainHash, Uint8)])

BlockGHOSTDAGDataHashPair(selectedParent) ==
    Struct([Hash |-> DomainHash, GHOSTDAGData |-> GHOSTDAGDataWith(selectedParent)])

TrustedDataDataDAAHeader ==
    Struct([Header |-> BlockHeader, GHOSTDAGData |-> GHOSTDAGDataWith(DomainHash)])

TrustedData ==
    Struct([DAAWindow |-> Slice(TrustedDataDataDAAHeader),
            GHOSTDAGData |-> Slice(BlockGHOSTDAGDataHashPair(DomainHash))])

TrustedBlock ==
    Struct([Block |-> DomainBlock, DAAWindowIndices |-> Slice(Uint64),
            GHOSTDAGDataIndices |-> Slice(Uint64)])

UTXOOutpointEntryPairs == MapOf(DomainOutpoint, UTXOEntry)

PruningPointProof == Struct([Headers |-> Slice(Slice(BlockHeader))])

\* A transaction's input entries are recorded for all of its inputs.
TransactionAcceptanceData ==
    Struct([Transaction |-> DomainTransaction, Fee |-> Uint64, IsAccepted |-> Bool,
            TransactionInputUTXOEntries |-> Slice(UTXOEntry)])

AcceptanceData ==
    Slice(Struct([BlockHash |-> DomainHash,
                  TransactionAcceptanceData |-> Slice(TransactionAcceptanceData)]))

BlockRelations == Struct([Parents |-> Slice(DomainHash), Children |-> Slice(DomainHash)])

ReachabilityData ==
    Struct([Children |-> Slice(DomainHash), Parent |-> Optional(DomainHash),
            Interval |-> Struct([Start |-> Uint64, End |-> Uint64]),
            FutureCoveringSet |-> Slice(DomainHash)])

UTXODiff ==
    Struct([ToAdd |-> MapOf(DomainOutpoint, UTXOEntry),
            ToRemove |-> MapOf(DomainOutpoint, UTXOEntry)])

Multiset == Fixed(MultisetSize)
BlockStatus == Uint8
Tips == Slice(DomainHash)
====
