---------------------------- MODULE PruningSync -----------------------------
(***************************************************************************)
(* A syncing peer copies the pruning point UTXO set of a pruning node.     *)
(* The set is sent in chunks, each read under the consensus lock; between  *)
(* two chunks the node may insert blocks, move its pruning point and       *)
(* rewrite the set.  Every BatchSize chunks the sender waits for a         *)
(* request.  The connection keeps the order of messages and may break.     *)
(***************************************************************************)
EXTENDS Pruning

CONSTANTS
  Step,        \* coins per chunk
  BatchSize    \* ibdBatchSize

ASSUME SyncAssumption == Step \in Nat \ {0} /\ BatchSize \in Nat \ {0}

VARIABLES
  sender,      \* the flow of the pruning node: its state, the requested pruning point,
               \* the last coin sent, the chunks sent, whether the set is exhausted
  wire,        \* the messages on their way to the syncing peer
  wanted,      \* the requests on their way to the sender
  receiver     \* the flow of the syncing peer: its state, the pruning point, the coins
               \* received with their number (the multiset), the chunks received

syncVars == <<sender, wire, wanted, receiver>>
allVars == <<vars, syncVars>>

Message(type, coins) == [type |-> type, coins |-> coins]

Serving == pc = "ready"

\* Up to Step coins after the one given, in the order of the keys.
PruningPointUTXOs(from) ==
  LET rest == {c \in utxos : c > from}
  IN  {c \in rest : Cardinality({d \in rest : d < c}) < Step}

\* A proof is asked for only of a node far ahead, whose pruning point is not genesis.
RequestPruningPointUTXOSet ==
  /\ Serving
  /\ receiver.state = "idle"
  /\ PruningPoint # Genesis
  /\ sender' = [state |-> "sending", point |-> PruningPoint, from |-> -1, sent |-> 0,
                finished |-> FALSE]
  /\ receiver' = [receiver EXCEPT !.state = "receiving", !.point = PruningPoint]
  /\ UNCHANGED <<vars, wire, wanted>>

\* Mutant: the pruning point is compared once, when the transfer starts.
ExpectedPointChecked(point) == TRUE

\* GetPruningPointUTXOs refuses when the pruning point is no longer the expected one.
IsExpectedPruningPoint(point) == point = PruningPoint

SendChunk ==
  /\ Serving
  /\ sender.state = "sending"
  /\ IF ~ IsExpectedPruningPoint(sender.point)
     THEN /\ wire' = Append(wire, Message("unexpected", {}))
          /\ sender' = [sender EXCEPT !.state = "done"]
     ELSE LET chunk == PruningPointUTXOs(sender.from)
              finished == Cardinality(chunk) < Step
              done == finished /\ sender.sent % BatchSize # 0
              sent == sender.sent + 1
          IN  /\ wire' = wire \o <<Message("chunk", chunk)>>
                                \o (IF done THEN <<Message("done", {})>> ELSE <<>>)
              /\ sender' = [sender EXCEPT
                    !.state = IF done THEN "done"
                              ELSE IF sent % BatchSize = 0 THEN "waiting" ELSE "sending",
                    !.from = IF chunk = {} THEN @ ELSE Max(chunk),
                    !.sent = sent,
                    !.finished = finished]
  /\ UNCHANGED <<vars, wanted, receiver>>

HandleRequestNext ==
  /\ sender.state = "waiting"
  /\ wanted > 0
  /\ wanted' = wanted - 1
  /\ IF sender.finished
     THEN wire' = Append(wire, Message("done", {})) /\ sender' = [sender EXCEPT !.state = "done"]
     ELSE wire' = wire /\ sender' = [sender EXCEPT !.state = "sending"]
  /\ UNCHANGED <<vars, receiver>>

\* AppendImportedPruningPointUTXOs: the coins and the multiset in one transaction.
AppendImported(received, chunk) ==
  [c \in Block |-> received[c] + (IF c \in chunk THEN 1 ELSE 0)]

\* Mutant: one chunk more before asking.
AsksLate(chunks) == chunks % (BatchSize + 1) = 0

AsksForMore(chunks) == chunks % BatchSize = 0

\* receiveAndInsertPruningPointUTXOSet, one message; after the last one the multiset is
\* compared with the commitment of the pruning point.
ReceiveMessage ==
  /\ receiver.state = "receiving"
  /\ wire # <<>>
  /\ wire' = Tail(wire)
  /\ \/ /\ Head(wire).type = "done"
        /\ receiver' = [receiver EXCEPT
             !.state = IF \A c \in Block :
                            receiver.coins[c] = (IF c \in PastUTXO(receiver.point) THEN 1 ELSE 0)
                       THEN "imported" ELSE "rejected"]
        /\ wanted' = wanted
     \/ /\ Head(wire).type = "unexpected"
        /\ receiver' = [receiver EXCEPT !.state = "stopped"]
        /\ wanted' = wanted
     \/ /\ Head(wire).type = "chunk"
        /\ LET chunks == receiver.chunks + 1
           IN  /\ receiver' = [receiver EXCEPT !.coins = AppendImported(@, Head(wire).coins),
                                               !.chunks = chunks]
               /\ wanted' = IF AsksForMore(chunks) THEN wanted + 1 ELSE wanted
  /\ UNCHANGED <<vars, sender>>

\* The sender's process stops: both flows end, the receiver's by its timeout.
Disconnected ==
  /\ sender' = [sender EXCEPT !.state = "done"]
  /\ wire' = <<>> /\ wanted' = 0
  /\ receiver' = [receiver EXCEPT !.state = IF @ = "receiving" THEN "stopped" ELSE @]

SyncInit ==
  /\ Init
  /\ sender = [state |-> "idle", point |-> NoBlock, from |-> -1, sent |-> 0,
               finished |-> FALSE]
  /\ wire = <<>> /\ wanted = 0
  /\ receiver = [state |-> "idle", point |-> NoBlock, coins |-> [c \in Block |-> 0],
                 chunks |-> 0]

Transfer == SendChunk \/ HandleRequestNext \/ ReceiveMessage

NodeStep ==
  \/ \E b \in Block : ValidateAndInsertBlock(b)
  \/ Update
  \/ Start
  \/ CompleteStart
  \/ PruningPointAndItsAnticone

SyncNext ==
  \/ NodeStep /\ UNCHANGED syncVars
  \/ Crash /\ Disconnected
  \/ RequestPruningPointUTXOSet
  \/ Transfer

SyncSpec ==
  /\ SyncInit /\ [][SyncNext]_allVars
  /\ WF_pc(Proceeds)
  /\ WF_allVars(SendChunk) /\ WF_allVars(HandleRequestNext) /\ WF_allVars(ReceiveMessage)

-----------------------------------------------------------------------------
(* Properties.                                                             *)

\* A transfer that ends with all chunks never mixes the sets of two pruning points,
\* leaves out a coin or sends one twice: the commitment always fits, so the peer that
\* sent it is never banned (fetchMissingUTXOSet turns a bad set into a ban).
CompleteTransferFitsCommitment == receiver.state # "rejected"

\* A transfer ends, whatever the pruning node does meanwhile: neither flow waits for a
\* request or a chunk the other never sends, at any number of chunks.  The updates of the
\* pruning point end as well, one finality interval of the chain at a time.
TransferEnds ==
  /\ PointsAdvanceOnTheChain /\ UpdateCompletes
  /\ [](receiver.state = "receiving" => <>(receiver.state # "receiving" \/ pc = "failed"))
=============================================================================
