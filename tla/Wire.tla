---- MODULE Wire ----
(***************************************************************************)
(* The journeys of a value through the program's encodings.                *)
(*                                                                         *)
(* A message goes from a flow, an RPC handler or the RPC client through    *)
(* sendLoop (FromAppMessage), protobuf, receiveLoop (ToAppMessage) and the *)
(* router, which puts it into the route registered for its command.  A     *)
(* consensus object travels inside such a message.  A stored object goes   *)
(* from a store through its Db structure into the database and back.       *)
(*                                                                         *)
(* item is what was handed over, message the message that carries it, data *)
(* what is on the wire or in the database, result what comes out.          *)
(***************************************************************************)
EXTENDS Payloads, DbConverters, Routing

P2P == INSTANCE AppP2PMessages
RPC == INSTANCE AppRPCMessages
ProtoP2P == INSTANCE ProtoP2PMessages
ProtoRPC == INSTANCE ProtoRPCMessages
Domain == INSTANCE DomainTypes
Db == INSTANCE DbObjects

VARIABLES pc, item, message, data, result
vars == <<pc, item, message, data, result>>

-----------------------------------------------------------------------------
(* What the program hands over *)

MessageType(name) ==
    IF name \in DOMAIN P2P!P2PMessages THEN P2P!P2PMessages[name] ELSE RPC!RPCMessages[name]

PayloadType(name) ==
    IF name \in DOMAIN ProtoP2P!P2PPayloads THEN ProtoP2P!P2PPayloads[name]
    ELSE ProtoRPC!RPCPayloads[name]

WithType(name, m) == [type |-> name] @@ m

\* A response without an error, and ("zero") one that has nothing but an error.
RPCSample(name, size) ==
    LET type == RPC!RPCMessages[name]
    IN  IF "Error" \notin DOMAIN type.fields THEN Sample(type, size, 0)
        ELSE [Sample(type, size, 0) EXCEPT !.Error = IF size = "zero" THEN [Message |-> <<1>>]
                                                     ELSE Nil]

Objects ==
    [Block |-> Domain!DomainBlock, IBDBlock |-> Domain!DomainBlock,
     Transaction |-> Domain!DomainTransaction,
     PruningPointUTXOs |-> Domain!OutpointAndUTXOEntryPairs,
     TrustedData |-> Domain!TrustedData, TrustedBlock |-> Domain!TrustedBlock,
     PruningPointProof |-> Domain!PruningPointProof,
     SubmittedBlock |-> Domain!SubmittedBlock,
     SubmittedTransaction |-> Domain!SubmittedTransaction,
     UTXOs |-> Domain!UTXOOutpointEntryPairs]

StoredObjects ==
    [AcceptanceData |-> Domain!AcceptanceData, Block |-> Domain!DomainBlock,
     BlockHeader |-> Domain!BlockHeader, BlockRelations |-> Domain!BlockRelations,
     BlockStatus |-> Domain!BlockStatus,
     GHOSTDAGData |-> Domain!GHOSTDAGDataWith(Optional(DomainHash)),
     DAABlock |-> Domain!BlockGHOSTDAGDataHashPair(Optional(DomainHash)),
     Multiset |-> Domain!Multiset, ReachabilityData |-> Domain!ReachabilityData,
     Tips |-> Domain!Tips, UTXODiff |-> Domain!UTXODiff]

\* applyMergeSetBlocks records the UTXO entries of the inputs of the accepted
\* transactions, and none of the others.
AcceptanceSample(size) ==
    MapSlice(LAMBDA block :
        [block EXCEPT !.TransactionAcceptanceData = MapSlice(LAMBDA tx :
            IF tx.IsAccepted
            THEN [tx EXCEPT !.Transaction.Inputs = [i \in DOMAIN @ |->
                    [UTXOEntry |-> tx.TransactionInputUTXOEntries[i]] @@ @[i]]]
            ELSE [tx EXCEPT !.TransactionInputUTXOEntries = <<>>], @)],
        Sample(StoredObjects.AcceptanceData, size, 0))

StoredSample(name, size) ==
    IF name = "AcceptanceData" THEN AcceptanceSample(size)
    ELSE Sample(StoredObjects[name], size, 0)

\* The message a flow, a handler or a client builds around an object.
Carry(name, o) ==
    CASE name = "Block" -> {DomainBlockToMsgBlock(o)}
      [] name = "IBDBlock" ->
            {[type |-> "MsgIBDBlock", MsgBlock |-> DomainBlockToMsgBlock(o)]}
      [] name = "Transaction" -> {DomainTransactionToMsgTx(o)}
      [] name = "PruningPointUTXOs" ->
            {[type |-> "MsgPruningPointUTXOSetChunk",
              OutpointAndUTXOEntryPairs |->
                DomainOutpointAndUTXOEntryPairsToOutpointAndUTXOEntryPairs(o)]}
      [] name = "TrustedData" -> DomainTrustedDataToTrustedData(o.DAAWindow, o.GHOSTDAGData)
      [] name = "TrustedBlock" ->
            {DomainBlockWithTrustedDataToBlockWithTrustedDataV4(
                o.Block, o.DAAWindowIndices, o.GHOSTDAGDataIndices)}
      [] name = "PruningPointProof" -> {DomainPruningPointProofToMsgPruningPointProof(o)}
      [] name = "SubmittedBlock" ->
            {[type |-> "SubmitBlockRequestMessage", Block |-> DomainBlockToRPCBlock(o),
              AllowNonDAABlocks |-> FALSE]}
      [] name = "SubmittedTransaction" ->
            {[type |-> "SubmitTransactionRequestMessage",
              Transaction |-> DomainTransactionToRPCTransaction(o), AllowOrphan |-> FALSE]}
      [] name = "UTXOs" ->
            {[type |-> "GetUTXOsByAddressesResponseMessage", Entries |-> entries,
              Error |-> Nil] : entries \in UTXOsToEntries(<<1>>, o)}

\* The object the receiver takes out of the message.
Unpack(name, m) ==
    CASE name = "Block" -> {MsgBlockToDomainBlock(m)}
      [] name = "IBDBlock" -> {MsgBlockToDomainBlock(m.MsgBlock)}
      [] name = "Transaction" -> {MsgTxToDomainTransaction(m)}
      [] name = "PruningPointUTXOs" ->
            {OutpointAndUTXOEntryPairsToDomainOutpointAndUTXOEntryPairs(
                m.OutpointAndUTXOEntryPairs)}
      [] name = "TrustedData" ->
            {[DAAWindow |->
                MapSlice(TrustedDataDataDAABlockV4ToTrustedDataDataDAAHeader, m.DAAWindow),
              GHOSTDAGData |->
                MapSlice(GHOSTDAGHashPairToDomainGHOSTDAGHashPair, m.GHOSTDAGData)]}
      [] name = "TrustedBlock" ->
            {[Block |-> MsgBlockToDomainBlock(m.Block),
              DAAWindowIndices |-> m.DAAWindowIndices,
              GHOSTDAGDataIndices |-> m.GHOSTDAGDataIndices]}
      [] name = "PruningPointProof" -> {MsgPruningPointProofToDomainPruningPointProof(m)}
      [] name = "SubmittedBlock" -> RPCBlockToDomainBlock(m.Block)
      [] name = "SubmittedTransaction" -> RPCTransactionToDomainTransaction(m.Transaction)
      [] name = "UTXOs" -> EntriesToUTXOs(m.Entries)

\* The stores' serialize and deserialize functions.
ToDb(name, o) ==
    CASE name = "AcceptanceData" -> {DomainAcceptanceDataToDbAcceptanceData(o)}
      [] name = "Block" -> {DomainBlockToDbBlock(o)}
      [] name = "BlockHeader" -> {DomainBlockHeaderToDbBlockHeader(o)}
      [] name = "BlockRelations" -> {DomainBlockRelationsToDbBlockRelations(o)}
      [] name = "BlockStatus" -> {DomainBlockStatusToDbBlockStatus(o)}
      [] name = "GHOSTDAGData" -> BlockGHOSTDAGDataToDBBlockGHOSTDAGData(o)
      [] name = "DAABlock" -> BlockGHOSTDAGDataHashPairToDbBlockGhostdagDataHashPair(o)
      [] name = "Multiset" -> {MultisetToDBMultiset(o)}
      [] name = "ReachabilityData" -> {ReachablityDataToDBReachablityData(o)}
      [] name = "Tips" -> {TipsToDBTips(o)}
      [] name = "UTXODiff" -> UTXODiffToDBUTXODiff(o)

FromDb(name, x) ==
    CASE name = "AcceptanceData" -> DbAcceptanceDataToDomainAcceptanceData(x)
      [] name = "Block" -> DbBlockToDomainBlock(x)
      [] name = "BlockHeader" -> DbBlockHeaderToDomainBlockHeader(x)
      [] name = "BlockRelations" -> DbBlockRelationsToDomainBlockRelations(x)
      [] name = "BlockStatus" -> {DbBlockStatusToDomainBlockStatus(x)}
      [] name = "GHOSTDAGData" -> DBBlockGHOSTDAGDataToBlockGHOSTDAGData(x)
      [] name = "DAABlock" -> DbBlockGHOSTDAGDataHashPairToBlockGHOSTDAGDataHashPair(x)
      [] name = "Multiset" -> DBMultisetToMultiset(x)
      [] name = "ReachabilityData" -> DBReachablityDataToReachablityData(x)
      [] name = "Tips" -> DBTipsToTips(x)
      [] name = "UTXODiff" -> DBUTXODiffToUTXODiff(x)

DbTypes ==
    [AcceptanceData |-> Db!DbAcceptanceData, Block |-> Db!DbBlock,
     BlockHeader |-> Db!DbBlockHeader, BlockRelations |-> Db!DbBlockRelations,
     BlockStatus |-> Db!DbBlockStatus, GHOSTDAGData |-> Db!DbBlockGhostdagData,
     DAABlock |-> Db!DbBlockGHOSTDAGDataHashPair, Multiset |-> Db!DbMultiset,
     ReachabilityData |-> Db!DbReachabilityData, Tips |-> Db!DbTips,
     UTXODiff |-> Db!DbUtxoDiff]

-----------------------------------------------------------------------------
(* The journeys *)

Nothing == [type |-> "nothing"]

Init ==
    /\ pc = "idle"
    /\ item = [of |-> "nothing", name |-> "nothing", value |-> Nothing]
    /\ message = Nothing
    /\ data = Nothing
    /\ result = Nothing

\* A flow or the RPC server or client enqueues a message in the outgoing route.
\* No code sends BlockWithTrustedData, the form of an older protocol version.
EnqueueP2P(name, size) ==
    /\ pc = "idle"
    /\ name # "MsgBlockWithTrustedData" /\ size # "zero"
    /\ item' = [of |-> "p2p", name |-> name, value |-> Sample(P2P!P2PMessages[name], size, 0)]
    /\ message' = WithType(name, item'.value)
    /\ pc' = "outgoing"
    /\ UNCHANGED <<data, result>>

EnqueueRPC(name, size) ==
    /\ pc = "idle"
    /\ size = "zero" => "Error" \in DOMAIN RPC!RPCMessages[name].fields
    /\ item' = [of |-> "rpc", name |-> name, value |-> RPCSample(name, size)]
    /\ message' = WithType(name, item'.value)
    /\ pc' = "outgoing"
    /\ UNCHANGED <<data, result>>

EnqueueObject(name, size) ==
    /\ pc = "idle"
    /\ size # "zero"
    /\ item' = [of |-> "object", name |-> name, value |-> Sample(Objects[name], size, 0)]
    /\ message' \in Carry(name, item'.value)
    /\ pc' = "outgoing"
    /\ UNCHANGED <<data, result>>

\* The inventory of n accepted transactions, which the code does not split.
maybePropagateTransactions(n) ==
    /\ pc = "idle"
    /\ item' = [of |-> "p2p", name |-> "MsgInvTransaction",
                value |-> [TxIDs |-> [i \in 1..n |-> Sample(DomainHash, "distinct", i)]]]
    /\ message' = WithType("MsgInvTransaction", item'.value)
    /\ pc' = "outgoing"
    /\ UNCHANGED <<data, result>>

Fail ==
    /\ pc' = "failed"
    /\ UNCHANGED <<item, message, data, result>>

\* grpcserver's sendLoop: a message that cannot be converted ends the connection.
sendLoop ==
    /\ pc = "outgoing"
    /\ \/ /\ data' \in FromAppMessage(message)
          /\ pc' = "sent"
          /\ UNCHANGED <<item, message, result>>
       \/ FromAppMessage(message) = {} /\ Fail

\* protobuf: a payload whose message is nil arrives as the empty message.
Unmarshal(c) ==
    IF c.msg = Nil THEN [c EXCEPT !.msg = Sample(PayloadType(c.payload), "zero", 0)] ELSE c

\* grpcserver's receiveLoop, as far as the router.
receiveLoop ==
    /\ pc = "sent"
    /\ \/ /\ result' \in ToAppMessage(Unmarshal(data))
          /\ pc' = "received"
          /\ UNCHANGED <<item, message, data>>
       \/ ToAppMessage(Unmarshal(data)) = {} /\ Fail

\* The commands the receiver has a route for, and the command of the message.
Command(m) ==
    IF m.type \in DOMAIN P2PCommand THEN P2PCommand[m.type] ELSE RPCCommand(m.type)

Routed(m) ==
    CASE m.type \in DOMAIN P2PCommand ->
            UNION Range(FlowRoutes) \union UNION Range(HandshakeRoutes)
      [] m.type \in handlers -> handlers
      [] OTHER -> RPCMessageCommandToString

\* The object the receiver expects in the message.
Content ==
    CASE item.of = "object" -> item.name
      [] item.name = "SubmitBlockRequestMessage" -> "SubmittedBlock"
      [] item.name = "SubmitTransactionRequestMessage" -> "SubmittedTransaction"
      [] OTHER -> "none"

EnqueueIncomingMessage ==
    /\ pc = "received"
    /\ \/ /\ Command(result) \in Routed(result)
          /\ pc' = IF Content # "none" THEN "routed" ELSE "done"
          /\ UNCHANGED <<item, message, data, result>>
       \/ Command(result) \notin Routed(result) /\ Fail

\* The receiving flow, handler or client converts the message back.  The RPC
\* handlers answer a block or a transaction that is not well-formed with an error.
UnpackObject ==
    /\ pc = "routed"
    /\ \/ /\ result' \in Unpack(Content, result)
          /\ pc' = "done"
       \/ /\ Unpack(Content, result) = {}
          /\ pc' = "rejected"
          /\ UNCHANGED result
    /\ UNCHANGED <<item, message, data>>

\* A store writes an object in its commit, and reads it when it is asked for
\* an object that it does not have in its cache.
Put(name, size) ==
    /\ pc = "idle"
    /\ size # "zero"
    /\ item' = [of |-> "stored", name |-> name, value |-> StoredSample(name, size)]
    /\ data' \in ToDb(name, item'.value)
    /\ pc' = "stored"
    /\ UNCHANGED <<message, result>>

Get ==
    /\ pc = "stored"
    /\ result' \in FromDb(item.name, data)
    /\ pc' = "done"
    /\ UNCHANGED <<item, message, data>>

Forget ==
    /\ pc \in {"done", "failed", "rejected"}
    /\ pc' = "idle"
    /\ item' = [of |-> "nothing", name |-> "nothing", value |-> Nothing]
    /\ message' = Nothing /\ data' = Nothing /\ result' = Nothing

Next ==
    \/ \E name \in DOMAIN P2P!P2PMessages, size \in SampleSizes : EnqueueP2P(name, size)
    \/ \E name \in DOMAIN RPC!RPCMessages, size \in SampleSizes : EnqueueRPC(name, size)
    \/ \E name \in DOMAIN Objects, size \in SampleSizes : EnqueueObject(name, size)
    \/ \E name \in DOMAIN StoredObjects, size \in SampleSizes : Put(name, size)
    \/ \E n \in 1..MaxInvPerMsg + 1 : maybePropagateTransactions(n)
    \/ sendLoop \/ receiveLoop \/ EnqueueIncomingMessage \/ UnpackObject
    \/ Get \/ Forget

Spec == Init /\ [][Next]_vars

-----------------------------------------------------------------------------
(* Properties *)

\* A message that is received is the message that was sent: no converter
\* (toAppMessage, fromAppMessage of package protowire) loses, swaps or truncates
\* a field, whatever the optional parts and the sizes of the slices, and the
\* values on the wire are in the range of the protobuf fields that carry them.
\* The fields marked Lost in the message types are the exceptions.
MessagesArriveUnchanged ==
    /\ pc = "sent" => data.msg = Nil \/ Fits(data.msg, PayloadType(data.payload))
    /\ pc = "received" =>
        /\ result.type = message.type
        /\ SameValue(message, result, MessageType(message.type))

\* No message is stuck on its way, except those of which the code loses the
\* message: the sender refuses an inventory that was not split and the stop
\* response that toRPCPayload does not know; the receiver cannot convert
\* GetCurrentNetworkResponse (its wrapper calls itself) nor a balance response
\* with an error; the RPC client has no route for ShutDownResponse.
NothingIsRefused ==
    pc = "failed" =>
        \/ /\ item.name \in {"GetCurrentNetworkResponseMessage", "ShutDownResponseMessage",
                             "StopNotifyingPruningPointUTXOSetOverrideResponseMessage"}
           /\ item.of = "rpc"
        \/ item.name = "GetBalanceByAddressResponseMessage" /\ message.Error # Nil
        \/ item.name = "MsgInvTransaction" /\ Len(message.TxIDs) > MaxInvPerMsg

\* An object that travels in a message, and one that is written to the database
\* (in fields that can hold it), comes out as it went in: the receiver computes
\* on the same block, transaction, UTXO set or proof as the sender, and a node
\* that restarts on the same consensus state as before.  Only the gas of a
\* transaction is lost on its way through the RPC messages.
ObjectsSurvive ==
    /\ item.of = "object" =>
        /\ pc # "rejected"
        /\ pc = "done" => SameValue(item.value, result, Objects[item.name])
    /\ pc = "stored" => Fits(data, DbTypes[item.name])
    /\ item.of = "stored" /\ pc = "done" => result = item.value
====
