----------------------------- MODULE BlockSync ------------------------------
(***************************************************************************)
(* Initial block download of a node that shares its pruning point with its  *)
(* peers (StagingConsensus has the download with a headers proof).  One     *)
(* HandleIBD flow per peer waits for a block the relay flow could not       *)
(* connect; the flow that gets to run finds the highest block it knows of   *)
(* the chain of the syncer, downloads the headers above it, then the        *)
(* bodies.  The syncer answers from the DAG it has when the request comes.  *)
(***************************************************************************)
EXTENDS BlockRelay

CONSTANTS
  MaxRestarts,      \* of the chain negotiation
  MaxHeaders,       \* the blocks GetHashesBetween returns for one headers message
  MergeSetSizeLimit,
  HeadersQueue,     \* the capacity of blockHeadersMessageChan
  IBDBatchSize

\* GetHashesBetween insists on room for the merge set of a block and the block.
ASSUME SyncAssumption ==
  /\ \A b \in Block : Len(BuildGraph[b].mergeSet) <= MergeSetSizeLimit
  /\ MaxHeaders >= MergeSetSizeLimit + 1

VARIABLES
  ibd,        \* per peer, the HandleIBD flow
  ibdRoute,   \* per peer, the incoming route of the IBD flow
  ibdAsked,   \* per peer, the request the syncer has not handled
  server      \* per peer, the headers the syncer is sending: [low, high]

ibdVars == <<ibd, ibdRoute, ibdAsked, server>>
vars == <<relayVars, ibdVars>>

-----------------------------------------------------------------------------
(* The sync manager.                                                        *)

IndexOf(b, chain) == CHOOSE k \in DOMAIN chain : chain[k] = b

\* createHeadersSelectedChainBlockLocator: down the chain from index high, doubling the
\* distance; indexes start at zero in the code and at one here.
RECURSIVE ChainLocatorFrom(_, _, _, _)
ChainLocatorFrom(chain, k, low, step) ==
  IF k <= low THEN <<chain[low]>>
  ELSE IF k - 1 < step THEN <<chain[k], chain[low]>>
  ELSE <<chain[k]>> \o ChainLocatorFrom(chain, k - step, low, 2 * step)

ChainLocator(chain, low, high) ==
  ChainLocatorFrom(chain, IndexOf(high, chain), IndexOf(low, chain), 1)

HeadersChain(p) == graph[Heaviest(dag[p])].chain

\* findLowHashInHighHashSelectedParentChain.
HighestCommon(low, high) ==
  LET common == {k \in DOMAIN graph[low].chain :
                   IsInSelectedParentChainOf(graph[low].chain[k], high)}
  IN graph[low].chain[Max(common)]

\* The merge sets of the blocks of a chain segment, one after the other, without the
\* past of low, until they are more than limit; then the last block reached itself, or
\* the high block if none was.
RECURSIVE MergeSets(_, _, _, _, _)
MergeSets(low, segment, reached, found, limit) ==
  IF segment = <<>> \/ (limit # 0 /\ Len(found) + Len(graph[Head(segment)].mergeSet) > limit)
  THEN Append(found, reached)
  ELSE LET new(x) == ~IsAncestorOf(x, low)
       IN MergeSets(low, Tail(segment), Head(segment),
                    found \o SelectSeq(graph[Head(segment)].mergeSet, new), limit)

\* antiPastHashesBetween.
HashesBetween(low, high, limit) ==
  LET chain == graph[high].chain
      above == IndexOf(HighestCommon(low, high), chain)
  IN IF chain[above] = high THEN <<>>
     ELSE MergeSets(low, SubSeq(chain, above + 1, Len(chain)), high, <<>>, limit)

\* Mutant: from below the last chain block without body.
MissingAboveLastHeaderOnly(high) ==
  LET chain == graph[high].chain
      headerOnly == {k \in DOMAIN chain : k > 1 /\ status[chain[k]] = "header"}
      low == IF headerOnly = {} THEN high ELSE chain[Max(headerOnly) - 1]
      isHeader(x) == status[x] = "header"
  IN SelectSeq(HashesBetween(low, high, 0), isHeader)

\* missingBlockBodyHashes: the header-only blocks above the last chain block, from the
\* pruning point up, that has a body before the first that has none.
MissingBlockBodyHashes(high) ==
  LET chain == graph[high].chain
      headerOnly == {k \in DOMAIN chain : k > 1 /\ status[chain[k]] = "header"}
      low == IF headerOnly = {} THEN high ELSE chain[Min(headerOnly) - 1]
      isHeader(x) == status[x] = "header"
  IN SelectSeq(HashesBetween(low, high, 0), isHeader)

\* Mutant: sorted from the top down.
AnticoneTopDown(block, context) ==
  LET anticone == {x \in {context} \cup graph[context].past :
                     ~IsAncestorOf(x, block) /\ ~IsAncestorOf(block, x)}
  IN SortSeq(SetToSeq(anticone), Heavier)

\* GetAnticone(block, context): past(context) and context, without past(block) and its
\* future, sorted by blue work as the handler sorts them.
AnticoneHeaders(block, context) ==
  LET anticone == {x \in {context} \cup graph[context].past :
                     ~IsAncestorOf(x, block) /\ ~IsAncestorOf(block, x)}
  IN SortSeq(SetToSeq(anticone), LAMBDA x, y : Heavier(y, x))

-----------------------------------------------------------------------------
(* The syncer.                                                              *)

RequestChain(high, low) == [type |-> "chain", high |-> high, low |-> low]
RequestHeaders(low, high) == [type |-> "headers", low |-> low, high |-> high]
RequestNextHeaders == [type |-> "next"]
RequestAnticone(block, context) == [type |-> "anticone", block |-> block, context |-> context]
RequestIBDBlocks(hashes) == [type |-> "blocks", hashes |-> hashes]

Chain(hashes) == [type |-> "chain", hashes |-> hashes]
Headers(hashes) == [type |-> "headers", hashes |-> hashes]
DoneHeaders == [type |-> "done"]
IBDBlock(b) == [type |-> "ibdBlock", block |-> b]

NotServing == [low |-> NoBlock, high |-> NoBlock]

Reply(p, messages) ==
  /\ ibdRoute' = [ibdRoute EXCEPT ![p] = @ \o messages]
  /\ UNCHANGED <<open, bannedBy>>

\* A protocol error of the syncer closes the connection and bans the node.
Ban(p) ==
  /\ Close(p)
  /\ bannedBy' = bannedBy \cup {p}
  /\ UNCHANGED ibdRoute

\* HandleRequestIBDChainBlockLocator: the whole chain, or the part between two blocks.
\* The handler means to answer with an empty locator when a block is no longer on the
\* chain, but compares the errors the wrong way round and bans the asking node.
ServeChain(p) ==
  /\ ibdAsked[p].type = "chain"
  /\ LET ask == ibdAsked[p]
         chain == HeadersChain(p)
     IN IF ask.high = NoBlock
        THEN Reply(p, <<Chain(ChainLocator(chain, Genesis, Last(chain)))>>)
        ELSE IF {ask.low, ask.high} \subseteq ToSet(chain)
        THEN Reply(p, <<Chain(ChainLocator(chain, ask.low, ask.high))>>)
        ELSE Ban(p)
  /\ UNCHANGED server

\* One message of headers, or the end.
SendHeaders(p, low, high) ==
  IF low = high
  THEN /\ Reply(p, <<DoneHeaders>>)
       /\ server' = [server EXCEPT ![p] = NotServing]
  ELSE LET hashes == HashesBetween(low, high, MaxHeaders)
       IN /\ Reply(p, <<Headers(hashes)>>)
          /\ server' = [server EXCEPT ![p] = [low |-> Last(hashes), high |-> high]]

\* HandleRequestHeaders, which waits for a request for the next headers after a message.
ServeHeaders(p) ==
  \/ /\ ibdAsked[p].type = "headers"
     /\ IF /\ {ibdAsked[p].low, ibdAsked[p].high} \subseteq dag[p]
           /\ IsInSelectedParentChainOf(ibdAsked[p].low, ibdAsked[p].high)
        THEN SendHeaders(p, ibdAsked[p].low, ibdAsked[p].high)
        ELSE Ban(p) /\ UNCHANGED server
  \/ /\ ibdAsked[p].type = "next"
     /\ SendHeaders(p, server[p].low, server[p].high)

\* HandleRequestAnticone.  The search of the past of the context may not go through more
\* than 2 * MergeSetSizeLimit blocks.
ServeAnticone(p) ==
  /\ ibdAsked[p].type = "anticone"
  /\ LET ask == ibdAsked[p]
         searched == {x \in {ask.context} \cup graph[ask.context].past : ~IsAncestorOf(x, ask.block)}
     IN IF /\ {ask.block, ask.context} \subseteq dag[p] /\ ~IsAncestorOf(ask.context, ask.block)
           /\ Cardinality(searched) <= 2 * MergeSetSizeLimit
        THEN Reply(p, <<Headers(AnticoneHeaders(ask.block, ask.context)), DoneHeaders>>)
        ELSE Ban(p)
  /\ UNCHANGED server

\* HandleIBDBlockRequests: the blocks in the order asked for; one the syncer does not
\* have ends the connection.
ServeBlocks(p) ==
  /\ ibdAsked[p].type = "blocks"
  /\ LET hashes == ibdAsked[p].hashes
     IN IF ToSet(hashes) \subseteq dag[p]
        THEN Reply(p, [k \in DOMAIN hashes |-> IBDBlock(hashes[k])])
        ELSE Close(p) /\ UNCHANGED <<ibdRoute, bannedBy>>
  /\ UNCHANGED server

ServeIBD(p) ==
  /\ p \in open
  /\ ServeChain(p) \/ ServeHeaders(p) \/ ServeAnticone(p) \/ ServeBlocks(p)
  /\ ibdAsked' = [ibdAsked EXCEPT ![p] = NoRequest]
  /\ UNCHANGED <<graph, nodeVars, flowVars, channel, handed, ibdPeer, dag, mined, banned, ibd>>

-----------------------------------------------------------------------------
(* HandleIBD.                                                               *)

NoIBD == [pc |-> "wait", block |-> NoBlock, tip |-> NoBlock, known |-> NoBlock,
          unknown |-> NoBlock, zooms |-> 0, restarts |-> 0, initial |-> 0,
          queue |-> <<>>, reader |-> "none", missing |-> <<>>, batch |-> 0,
          high |-> NoBlock, update |-> FALSE]

\* The flow returns an error, and with it UnsetIBDRunning runs.
Stop(p) ==
  /\ ibd' = [ibd EXCEPT ![p] = [NoIBD EXCEPT !.pc = "down"]]
  /\ ibdPeer' = {}
  /\ channel' = [channel EXCEPT ![p] = "busy"]
  /\ handed' = [handed EXCEPT ![p] = NoBlock]
  /\ UNCHANGED ibdAsked

\* The flow sends a request and waits for the answer, unless the route is closed.
Ask(p, request, next) ==
  IF p \in open
  THEN /\ ibdAsked' = [ibdAsked EXCEPT ![p] = request]
       /\ ibd' = [ibd EXCEPT ![p] = next]
       /\ UNCHANGED <<ibdPeer, channel, handed>>
  ELSE Stop(p)

\* The flow ends with an error that bans the peer.
BanPeer(p) == Stop(p) /\ Close(p) /\ banned' = banned \cup {p}
              /\ UNCHANGED <<dag, mined, bannedBy>>

\* IBD is over: UnsetIBDRunning, and the flow waits for the next block.
Finish(p) ==
  /\ ibd' = [ibd EXCEPT ![p] = NoIBD]
  /\ ibdPeer' = {}
  /\ channel' = [channel EXCEPT ![p] = "waiting"]
  /\ handed' = [handed EXCEPT ![p] = NoBlock]
  /\ UNCHANGED ibdAsked

\* The flow takes the block from the channel and, unless IBD runs with another peer, asks
\* for the locator of the whole chain.
StartIBD(p) ==
  /\ ibd[p].pc = "wait" /\ channel[p] = "taken"
  /\ IF ibdPeer # {}
     THEN /\ channel' = [channel EXCEPT ![p] = "waiting"]
          /\ handed' = [handed EXCEPT ![p] = NoBlock]
          /\ UNCHANGED <<ibdPeer, ibd, ibdAsked>>
     ELSE IF p \in open
     THEN /\ ibdPeer' = {p}
          /\ channel' = [channel EXCEPT ![p] = "busy"]
          /\ ibdAsked' = [ibdAsked EXCEPT ![p] = RequestChain(NoBlock, NoBlock)]
          /\ ibd' = [ibd EXCEPT ![p] = [NoIBD EXCEPT !.pc = "chain", !.block = handed[p]]]
          /\ UNCHANGED handed
     ELSE Stop(p)
  /\ UNCHANGED <<graph, nodeVars, flowVars, netVars, ibdRoute, server>>

\* The first block of the locator that is known, and the one before it.
KnownIn(hashes) == {k \in DOMAIN hashes : status[hashes[k]] # "none"}

HighestKnown(hashes) ==
  IF KnownIn(hashes) = {} THEN NoBlock ELSE hashes[Min(KnownIn(hashes))]

LowestUnknown(hashes) ==
  LET unknown == {k \in DOMAIN hashes : \A j \in 1..k : status[hashes[j]] = "none"}
  IN IF unknown = {} THEN NoBlock ELSE hashes[Max(unknown)]

\* syncMissingBlockBodies: what is asked first, if a body is missing.
SyncBodies(p, me, high) ==
  LET missing == MissingBlockBodyHashes(high)
      next == [me EXCEPT !.pc = "bodies", !.high = high, !.missing = missing,
                         !.batch = Min({IBDBatchSize, Len(missing)}),
                         !.update = IsNearlySynced]
  IN IF missing # <<>>
     THEN Ask(p, RequestIBDBlocks(SubSeq(missing, 1, next.batch)), next)
     ELSE /\ ibd' = [ibd EXCEPT ![p] = [me EXCEPT !.pc = "synced", !.high = high]]
          /\ UNCHANGED <<ibdAsked, ibdPeer, channel, handed>>

\* Mutant: the past of the relay block is not synced.
SkipRelayPast(p, me) == SyncBodies(p, me, me.tip)

\* syncMissingRelayPast.
SyncRelayPast(p, me) ==
  IF status[me.block] = "none"
  THEN Ask(p, RequestAnticone(me.tip, me.block), [me EXCEPT !.pc = "anticone"])
  ELSE SyncBodies(p, me, me.tip)

\* syncPruningPointFutureHeaders, which starts the goroutine that reads the headers.  A
\* node that has only genesis does not sync.
SyncHeaders(p, me) ==
  IF VirtualSelectedParent = Genesis THEN Finish(p)
  ELSE IF me.known = me.tip THEN SyncRelayPast(p, me)
  ELSE Ask(p, RequestHeaders(me.known, me.tip),
           [me EXCEPT !.pc = "headers", !.reader = "reading"])

\* negotiateMissingSyncerChainSegment: a locator has arrived.
ReceiveChain(p) ==
  /\ ibd[p].pc \in {"chain", "zoom"}
  /\ ibdRoute[p] # <<>>
  /\ ibdRoute' = [ibdRoute EXCEPT ![p] = Tail(@)]
  /\ LET hashes == Head(ibdRoute[p]).hashes
         zooms == IF ibd[p].pc = "zoom" THEN ibd[p].zooms + 1 ELSE 0
         me == [ibd[p] EXCEPT !.zooms = zooms,
                              !.tip = IF @ = NoBlock \/ ibd[p].pc = "chain" THEN Head(hashes) ELSE @,
                              !.initial = IF ibd[p].pc = "chain" THEN Len(hashes) ELSE @,
                              !.known = HighestKnown(hashes),
                              !.unknown = LowestUnknown(hashes)]
     IN CASE ibd[p].pc = "zoom" /\ hashes = <<>> ->
               IF ibd[p].restarts + 1 > MaxRestarts
               THEN Stop(p) /\ Close(p) /\ UNCHANGED <<dag, mined, banned, bannedBy>>
               ELSE /\ Ask(p, RequestChain(NoBlock, NoBlock),
                           [ibd[p] EXCEPT !.pc = "chain", !.restarts = @ + 1])
                    /\ UNCHANGED netVars
          [] ibd[p].pc = "zoom" /\ hashes # <<>>
               /\ (Head(hashes) # ibd[p].unknown \/ Last(hashes) # ibd[p].known) -> BanPeer(p)
          [] ibd[p].pc = "zoom" /\ Len(hashes) = 2 /\ Head(hashes) = ibd[p].unknown
               /\ Last(hashes) = ibd[p].known ->
               SyncHeaders(p, [ibd[p] EXCEPT !.zooms = zooms]) /\ UNCHANGED netVars
          [] ibd[p].pc = "zoom" /\ Len(hashes) > 2 /\ zooms > 2 * ibd[p].initial
               /\ Head(hashes) = ibd[p].unknown /\ Last(hashes) = ibd[p].known -> BanPeer(p)
          [] OTHER ->
               /\ IF me.unknown = NoBlock \/ Len(hashes) = 1 THEN SyncHeaders(p, me)
                  ELSE IF me.known = NoBlock THEN Finish(p)
                  ELSE Ask(p, RequestChain(me.unknown, me.known), [me EXCEPT !.pc = "zoom"])
               /\ UNCHANGED netVars
  /\ UNCHANGED <<graph, nodeVars, flowVars, server>>

\* Mutant: the next headers are requested only if the channel has room for more.
NextHeadersIfRoom(p) ==
  IF p \in open /\ Len(ibd[p].queue) + 1 < HeadersQueue
  THEN [ibdAsked EXCEPT ![p] = RequestNextHeaders] ELSE ibdAsked

AskNextHeaders(p) ==
  IF p \in open THEN [ibdAsked EXCEPT ![p] = RequestNextHeaders] ELSE ibdAsked

\* The goroutine of syncPruningPointFutureHeaders: a message of headers goes to the
\* channel, if it has room, and the next is requested.
ReadHeaders(p) ==
  /\ ibd[p].reader = "reading" /\ ibdRoute[p] # <<>>
  /\ LET message == Head(ibdRoute[p])
     IN \/ /\ message.type = "headers" /\ Len(ibd[p].queue) < HeadersQueue
           /\ ibd' = [ibd EXCEPT ![p].queue = Append(@, message.hashes),
                                 ![p].reader = IF p \in open THEN "reading" ELSE "error"]
           /\ ibdAsked' = AskNextHeaders(p)
        \/ /\ message.type = "done"
           /\ ibd' = [ibd EXCEPT ![p].reader = "closed"]
           /\ UNCHANGED ibdAsked
  /\ ibdRoute' = [ibdRoute EXCEPT ![p] = Tail(@)]
  /\ UNCHANGED <<graph, nodeVars, flowVars, channel, handed, ibdPeer, netVars, server>>

\* The goroutine finds the route closed and drained.
ReadHeadersFails(p) ==
  /\ ibd[p].reader = "reading" /\ ibdRoute[p] = <<>> /\ p \notin open
  /\ ibd' = [ibd EXCEPT ![p].reader = "error"]
  /\ UNCHANGED <<relayVars, ibdRoute, ibdAsked, server>>

\* processHeader for each of the hashes: the statuses, and whether every header was
\* valid when it came, having its parents.
RECURSIVE ProcessHeaders(_, _)
ProcessHeaders(hashes, has) ==
  IF hashes = <<>> THEN [has |-> has, valid |-> TRUE]
  ELSE LET b == Head(hashes)
       IN IF has[b] # "none" THEN ProcessHeaders(Tail(hashes), has)
          ELSE IF \E x \in Parents[b] : has[x] = "none" THEN [has |-> has, valid |-> FALSE]
          ELSE ProcessHeaders(Tail(hashes), [has EXCEPT ![b] = "header"])

\* The main loop takes a message from the channel, or the error of the goroutine.
InsertHeaders(p) ==
  /\ ibd[p].pc = "headers"
  /\ \/ /\ ibd[p].queue # <<>>
        /\ LET done == ProcessHeaders(Head(ibd[p].queue), status)
           IN /\ status' = done.has
              /\ IF done.valid
                 THEN /\ ibd' = [ibd EXCEPT ![p].queue = Tail(@)]
                      /\ UNCHANGED <<ibdAsked, ibdPeer, channel, handed, netVars>>
                 ELSE BanPeer(p)
     \/ /\ ibd[p].queue = <<>> /\ ibd[p].reader = "closed"
        /\ SyncRelayPast(p, [ibd[p] EXCEPT !.reader = "none"])
        /\ UNCHANGED <<status, netVars>>
     \/ /\ ibd[p].reader = "error"
        /\ Stop(p)
        /\ UNCHANGED <<status, netVars>>
  /\ UNCHANGED <<graph, virtual, orphans, requested, flowVars, ibdRoute, server>>

\* Two messages are read: the headers and the end.
ReadAnticone(messages) == Tail(Tail(messages))

\* The headers of the past of the relay block that are not in the past of the tip: one
\* message, then the end, then they are inserted.
ReceiveAnticone(p) ==
  /\ ibd[p].pc = "anticone"
  /\ Len(ibdRoute[p]) >= 2
  /\ ibdRoute' = [ibdRoute EXCEPT ![p] = ReadAnticone(@)]
  /\ IF ibdRoute[p][1].type # "headers" \/ ibdRoute[p][2].type # "done"
     THEN BanPeer(p) /\ UNCHANGED status
     ELSE LET done == ProcessHeaders(ibdRoute[p][1].hashes, status)
          IN /\ status' = done.has
             /\ IF done.valid /\ done.has[ibd[p].block] # "none"
                THEN /\ ibd' = [ibd EXCEPT ![p].pc = "anticoneDone"]
                     /\ UNCHANGED <<ibdAsked, ibdPeer, channel, handed, netVars>>
                ELSE BanPeer(p)
  /\ UNCHANGED <<graph, virtual, orphans, requested, flowVars, server>>

AnticoneDone(p) ==
  /\ ibd[p].pc = "anticoneDone"
  /\ SyncBodies(p, ibd[p], ibd[p].tip)
  /\ UNCHANGED <<graph, nodeVars, flowVars, netVars, ibdRoute, server>>

\* A body arrives in the order asked for.  One inserted meanwhile is skipped; one whose
\* parents have no bodies breaks a rule.
ReceiveBody(p) ==
  /\ ibd[p].pc = "bodies" /\ ibd[p].batch > 0
  /\ ibdRoute[p] # <<>>
  /\ ibdRoute' = [ibdRoute EXCEPT ![p] = Tail(@)]
  /\ LET b == Head(ibdRoute[p]).block
         next == [ibd[p] EXCEPT !.missing = Tail(@), !.batch = @ - 1]
     IN IF b # Head(ibd[p].missing) \/ (~HasBody(b) /\ ~(Parents[b] \subseteq Bodies))
        THEN BanPeer(p) /\ UNCHANGED <<status, virtual>>
        ELSE /\ status' = [status EXCEPT ![b] = "body"]
             /\ virtual' = IF ibd[p].update /\ ~HasBody(b) THEN TipsOf(Bodies \cup {b})
                           ELSE virtual
             /\ ibd' = [ibd EXCEPT ![p] = IF HasBody(b) THEN next
                                          ELSE [ibd[p] EXCEPT !.pc = "inserted"]]
             /\ UNCHANGED <<ibdAsked, ibdPeer, channel, handed, netVars>>
  /\ UNCHANGED <<graph, orphans, requested, flowVars, server>>

BodyInserted(p) ==
  /\ ibd[p].pc = "inserted"
  /\ OnNewBlock(Head(ibd[p].missing))
  /\ ibd' = [ibd EXCEPT ![p] = [@ EXCEPT !.pc = "bodies", !.missing = Tail(@),
                                         !.batch = @ - 1]]
  /\ UNCHANGED <<graph, requested, flowVars, channel, handed, ibdPeer, netVars, ibdRoute,
                 ibdAsked, server>>

\* The next batch; after the last one the virtual is resolved, unless every insertion
\* did it.
NextBatch(p) ==
  /\ ibd[p].pc = "bodies" /\ ibd[p].batch = 0
  /\ IF ibd[p].missing # <<>>
     THEN LET n == Min({IBDBatchSize, Len(ibd[p].missing)})
          IN /\ Ask(p, RequestIBDBlocks(SubSeq(ibd[p].missing, 1, n)),
                    [ibd[p] EXCEPT !.batch = n])
             /\ UNCHANGED virtual
     ELSE /\ virtual' = IF ibd[p].update THEN virtual ELSE TipsOf(Bodies)
          /\ ibd' = [ibd EXCEPT ![p].pc = "synced"]
          /\ UNCHANGED <<ibdAsked, ibdPeer, channel, handed>>
  /\ UNCHANGED <<graph, status, orphans, requested, flowVars, netVars, ibdRoute, server>>

\* The bodies are there.  After those of the syncer's chain the relay block is seen to,
\* which may be in the anticone of the syncer's tip.
BodiesSynced(p) ==
  /\ ibd[p].pc = "synced"
  /\ IF ibd[p].high = ibd[p].tip /\ status[ibd[p].block] = "header"
     THEN SyncBodies(p, ibd[p], ibd[p].block)
     ELSE Finish(p)
  /\ UNCHANGED <<graph, nodeVars, flowVars, netVars, ibdRoute, server>>

\* The flow finds its route closed and drained, or times out, in a wait of its own.
IBDFails(p) ==
  /\ p \notin open
  /\ \/ ibd[p].pc \in {"chain", "zoom", "bodies"} /\ ibdRoute[p] = <<>>
     \/ ibd[p].pc = "anticone" /\ Len(ibdRoute[p]) < 2
  /\ ibd[p].pc = "bodies" => ibd[p].batch > 0
  /\ Stop(p)
  /\ UNCHANGED <<graph, nodeVars, flowVars, netVars, ibdRoute, server>>

\* The relay flow has closed the channel.
IBDFlowEnds(p) ==
  /\ ibd[p].pc = "wait" /\ channel[p] = "waiting" /\ relay[p].pc = "down"
  /\ ibd' = [ibd EXCEPT ![p].pc = "down"]
  /\ channel' = [channel EXCEPT ![p] = "busy"]
  /\ UNCHANGED <<graph, nodeVars, flowVars, handed, ibdPeer, netVars, ibdRoute, ibdAsked,
                 server>>

-----------------------------------------------------------------------------
Init ==
  /\ RelayInit
  /\ ibd = [p \in Peers |-> NoIBD]
  /\ ibdRoute = [p \in Peers |-> <<>>]
  /\ ibdAsked = [p \in Peers |-> NoRequest]
  /\ server = [p \in Peers |-> NotServing]

RelayFlow(p) ==
  /\ \/ ReadInv(p) \/ QueueInv(p) \/ ReceiveBlock(p) \/ Accepted(p) \/ ReceiveLocator(p)
     \/ RelayEnds(p)
  /\ UNCHANGED ibdVars

IBDFlow(p) ==
  \/ StartIBD(p) \/ ReceiveChain(p) \/ ReadHeaders(p) \/ ReadHeadersFails(p)
  \/ InsertHeaders(p) \/ ReceiveAnticone(p) \/ AnticoneDone(p) \/ ReceiveBody(p)
  \/ BodyInserted(p) \/ NextBatch(p) \/ BodiesSynced(p) \/ IBDFails(p) \/ IBDFlowEnds(p)

Serve(p) == (ServeRelay(p) /\ UNCHANGED ibdVars) \/ ServeIBD(p)

Environment(p) == (PeerAddsBlock(p) \/ Disconnect(p)) /\ UNCHANGED ibdVars

Next == \E p \in Peers : RelayFlow(p) \/ IBDFlow(p) \/ Serve(p) \/ Environment(p)

Spec == Init /\ [][Next]_vars

-----------------------------------------------------------------------------
\* The variables keep their shapes.
TypeOK ==
  /\ status \in [Block -> {"none", "header", "body"}]
  /\ virtual \subseteq Block /\ orphans \subseteq Block /\ requested \subseteq Block
  /\ ibdPeer \subseteq Peers /\ open \subseteq Peers
  /\ \A p \in Peers : dag[p] \subseteq Block
  /\ \A p \in Peers : relay[p].pc \in {"idle", "block", "accepted", "locator", "down"}
  /\ \A p \in Peers : channel[p] \in {"waiting", "taken", "busy"}

Running(p) == ibd[p].pc \notin {"wait", "down"}

\* SharedRequestedBlocks holds the blocks the flows wait for, each awaited by one flow: no
\* block is requested twice at a time and none stays requested after its flow has ended.
\* IBD runs with one peer at most and is marked as running exactly then, so that
\* UnsetIBDRunning never finds it unset.  Between two downloads no answer is left in the
\* route of the IBD flow.
FlowsKeepTheirBooks ==
  LET waiting == {p \in Peers : relay[p].pc = "block"}
  IN /\ requested = {relay[p].block : p \in waiting}
     /\ \A p, q \in waiting : p # q => relay[p].block # relay[q].block
     /\ ibdPeer = {p \in Peers : Running(p)}
     /\ \A p \in Peers : ibd[p].pc = "wait" => ibdRoute[p] = <<>> /\ ibdAsked[p] = NoRequest

\* A peer that runs the same code is never banned: its headers and bodies come in an order
\* the consensus takes, whatever relay and unorphaning insert meanwhile, and its locators
\* have the bounds asked for.
NodeBansNoPeer == banned = {}

\* The negotiation ends with the highest block of the syncer's chain the node has: the
\* next block of the chain was unknown to it when it asked.  The exception is a relay
\* that filled in the lowest unknown block during the last exchange: no block of the last
\* locator is then unknown, which the code says can only happen in the first iteration.
\* While bodies are downloaded every block below the target that has no body is still to
\* be requested or awaited.  A block in the DAG has its parents there, bodies on bodies.
SyncMissesNothing ==
  /\ \A p \in Peers : ibd[p].pc = "headers" =>
       /\ IsInSelectedParentChainOf(ibd[p].known, ibd[p].tip)
       /\ status[ibd[p].known] # "none"
       /\ \/ /\ IsInSelectedParentChainOf(ibd[p].unknown, ibd[p].tip)
             /\ graph[ibd[p].unknown].parent = ibd[p].known
          \/ ibd[p].unknown = NoBlock /\ ibd[p].zooms > 0
  /\ \A p \in Peers : ibd[p].pc \in {"bodies", "inserted"} =>
       \A x \in {ibd[p].high} \cup graph[ibd[p].high].past :
         status[x] # "body" => x \in ToSet(ibd[p].missing)
  /\ \A b \in Block : \A x \in Parents[b] :
       /\ status[b] = "body" => status[x] = "body"
       /\ status[b] = "header" => status[x] # "none"

\* IBD that ends well leaves the node with the block that triggered it and with the
\* syncer's selected tip, and with the tip in the past of its virtual.
SyncsTheRelayBlock ==
  [][\A p \in Peers : ibd[p].pc = "synced" /\ ibd'[p].pc = "wait" =>
       /\ status'[ibd[p].block] = "body" /\ status'[ibd[p].tip] = "body"
       /\ ibd[p].tip \in UNION {{v} \cup graph[v].past : v \in virtual'}]_vars

\* UnorphanBlocks leaves no orphan behind that the new block, or a block unorphaned with
\* it, completes, in whatever order it meets the orphans: also not one that it met while
\* the other parent was still in the queue.  And no orphan leaves the pool without being
\* inserted.
UnorphansAll ==
  [][\A p \in Peers : \A b \in Block :
       \/ relay[p].pc = "accepted" /\ relay'[p].pc = "idle" /\ b = relay[p].block
       \/ ibd[p].pc = "inserted" /\ ibd'[p].pc = "bodies" /\ b = Head(ibd[p].missing)
       => /\ \A o \in orphans' : Parents[o] \cap ({b} \cup (Bodies' \ Bodies)) # {} =>
                                  ~(Parents[o] \subseteq Bodies')
          /\ orphans \ orphans' \subseteq Bodies']_vars

\* No flow of an open connection waits for something that will not come: its request is
\* with the peer, or the answer in its route, or the step to take is its own.  Nor does
\* one wait for a request or a download that another flow left in the books.
NoFlowIsStuck ==
  /\ TypeOK /\ FlowsKeepTheirBooks
  /\ \A p \in open :
       /\ relay[p].pc = "block" => asked[p] = RequestBlock(relay[p].block)
                                   \/ BlockMsg(relay[p].block) \in ToSet(route[p])
       /\ relay[p].pc = "locator" => asked[p] = RequestLocator(relay[p].block)
                                     \/ \E m \in ToSet(route[p]) : m.type = "locator"
       /\ Running(p) => \/ ibdAsked[p] # NoRequest
                        \/ ibdRoute[p] # <<>>
                        \/ ibd[p].pc \in {"inserted", "anticoneDone", "synced"}
                        \/ ibd[p].pc = "bodies" /\ ibd[p].batch = 0
                        \/ ibd[p].pc = "headers" /\ (ibd[p].queue # <<>> \/ ibd[p].reader # "reading")
=============================================================================
