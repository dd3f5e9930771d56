----------------------------- MODULE BlockRelay -----------------------------
(***************************************************************************)
(* A node learns of new blocks from its peers.  One HandleRelayInvs flow    *)
(* runs for each peer; the flows share the consensus, the pool of orphan    *)
(* blocks and the set of requested blocks.  The peers are nodes that run    *)
(* the same code: they announce the blocks they add and answer requests.    *)
(* A flow is interrupted wherever the code waits for a message or lets go   *)
(* of a lock that another flow may take.  No block is red and no block is   *)
(* invalid (Ghostdag and ConsensusState are about those), so blue score     *)
(* and blue work of a block are the size of its past.                       *)
(***************************************************************************)
EXTENDS Integers, Sequences, FiniteSets, FiniteSetsExt, SequencesExt, TLC

CONSTANTS
  Order,                  \* the blocks, every block after its parents; numbers are
                          \* compared like the hashes they stand for
  Parents,                \* Parents[b]: the direct parents of block b
  Genesis,
  NoBlock,
  Peers,
  Known,                  \* the blocks the node has when it starts
  Starts,                 \* what the peers have and mine: [dag, mined], per peer a set
  OrphanResolutionRange,
  MaxOrphans,
  MergeDepth,
  NearlySyncedWindow,     \* how many blocks behind counts as nearly synced
  MaxDisconnects

Block == ToSet(Order)

ASSUME RelayAssumption ==
  /\ Genesis \in Known /\ Known \subseteq Block /\ NoBlock \notin Block
  /\ \A s \in Starts : \A p \in Peers : Genesis \in s.dag[p] /\ s.dag[p] \subseteq Block
  /\ \A S \in {Known} \cup {s.dag[p] : s \in Starts, p \in Peers} :
       \A b \in S : Parents[b] \subseteq S
  /\ OrphanResolutionRange > 0 /\ MaxOrphans > 0

VARIABLES
  graph,      \* the data of all blocks, see BlockData; never changes
  status,     \* what the consensus of the node has of a block: "none", "header", "body"
  virtual,    \* the parents of the virtual
  orphans,    \* the orphan pool
  requested,  \* SharedRequestedBlocks
  relay,      \* per peer, the HandleRelayInvs flow
  route,      \* per peer, the incoming route of the relay flow
  asked,      \* per peer, the request of the relay flow the peer has not answered
  channel,    \* per peer, the IBDRequestChannel: "busy", "waiting" or "taken"
  handed,     \* per peer, the block handed over the channel
  ibdPeer,    \* the peers IBD runs with: none or one
  dag,        \* per peer, the blocks it has
  mined,      \* per peer, the blocks it may still add
  open,       \* the peers that are connected
  banned,     \* the peers the node banned
  bannedBy    \* the peers that banned the node

flowVars == <<relay, route, asked>>
nodeVars == <<status, virtual, orphans, requested>>
netVars == <<dag, mined, open, banned, bannedBy>>
relayVars == <<graph, nodeVars, flowVars, channel, handed, ibdPeer, netVars>>

-----------------------------------------------------------------------------
(* The DAG.                                                                 *)

\* What is known of a block once it is known of the blocks t before it: past, selected
\* parent, selected chain from the genesis on, and the merge set in the order
\* GetSortedMergeSet gives it, the selected parent first.
BlockData(t, b) ==
  LET past == UNION {{p} \cup t[p].past : p \in Parents[b]}
      score(x) == Cardinality(t[x].past)
      heavier(x, y) == score(x) > score(y) \/ (score(x) = score(y) /\ x > y)
      selected == CHOOSE x \in Parents[b] : \A y \in Parents[b] \ {x} : heavier(x, y)
      merged == past \ (t[selected].past \cup {selected})
  IN IF b = Genesis
     THEN [past |-> {}, parent |-> NoBlock, chain |-> <<b>>, mergeSet |-> <<>>]
     ELSE [past |-> past, parent |-> selected, chain |-> Append(t[selected].chain, b),
           mergeSet |-> <<selected>> \o SortSeq(SetToSeq(merged), LAMBDA x, y : heavier(y, x))]

BuildGraph == FoldLeft(LAMBDA t, b : t @@ (b :> BlockData(t, b)), <<>>, Order)

BlueScore(b) == Cardinality(graph[b].past)

Heavier(x, y) == BlueScore(x) > BlueScore(y) \/ (BlueScore(x) = BlueScore(y) /\ x > y)

Heaviest(S) == CHOOSE x \in S : \A y \in S \ {x} : Heavier(x, y)

IsInSelectedParentChainOf(a, b) == a \in ToSet(graph[b].chain)

IsAncestorOf(a, b) == a = b \/ a \in graph[b].past

HasBody(b) == status[b] = "body"

Bodies == {b \in Block : status[b] = "body"}

\* The blocks of S no block of S points to.
TipsOf(S) == {b \in S : \A c \in S : b \notin Parents[c]}

VirtualSelectedParent == Heaviest(virtual)

\* The blue score of the virtual, whose past is what its parents have.
VirtualBlueScore == Cardinality(UNION {{v} \cup graph[v].past : v \in virtual})

\* The highest block of the virtual's chain that is more than MergeDepth below the virtual,
\* genesis if there is none.
VirtualMergeDepthRoot ==
  LET chain == graph[VirtualSelectedParent].chain
      below == {k \in DOMAIN chain : BlueScore(chain[k]) + MergeDepth < VirtualBlueScore}
  IN IF below = {} THEN Genesis ELSE chain[Max(below)]

\* The clock is the blue score of the best block mined so far: a node is nearly synced
\* when its selected parent is recent.
IsNearlySynced ==
  /\ VirtualSelectedParent # Genesis
  /\ LET now == Max({BlueScore(b) : b \in Bodies \cup UNION {dag[p] : p \in Peers}})
     IN now - BlueScore(VirtualSelectedParent) < NearlySyncedWindow

-----------------------------------------------------------------------------
(* The orphan pool.                                                         *)

\* The orphans a block with body b may unorphan, not in the queue yet, in every order in
\* which the map of orphans may be gone through.
ChildOrphans(b, pool, queue) ==
  SetToSeqs({o \in pool : b \in Parents[o]} \ ToSet(queue))

\* The loop of UnorphanBlocks, breadth first: what the node has and what is left in the
\* pool.  An orphan that lacks a parent is passed over; it is queued again when the
\* parent is unorphaned.  One with all parents is taken out of the pool and inserted, or
\* rejected as a duplicate if it was inserted meanwhile, and then its children are not
\* considered.
RECURSIVE Unorphan(_, _, _)
Unorphan(queue, have, pool) ==
  IF queue = <<>> THEN {[have |-> have, pool |-> pool]}
  ELSE LET o == Head(queue)
           rest == Tail(queue)
       IN IF ~(Parents[o] \subseteq have) THEN Unorphan(rest, have, pool)
          ELSE IF o \in have THEN Unorphan(rest, have, pool \ {o})
          ELSE UNION {Unorphan(rest \o children, have \cup {o}, pool \ {o}) :
                        children \in ChildOrphans(o, pool \ {o}, rest)}

\* Mutant: an orphan that was looked at is not queued again.
RECURSIVE LookOnce(_, _, _, _)
LookOnce(queue, looked, have, pool) ==
  IF queue = <<>> THEN {[have |-> have, pool |-> pool]}
  ELSE LET o == Head(queue)
           rest == Tail(queue)
           seen == looked \cup {o}
       IN IF ~(Parents[o] \subseteq have) THEN LookOnce(rest, seen, have, pool)
          ELSE UNION {LookOnce(rest \o children, seen, have \cup {o}, pool \ {o}) :
                        children \in ChildOrphans(o, pool \ seen, rest)}

UnorphanLookOnce(b) ==
  UNION {LookOnce(children, {}, Bodies, orphans) : children \in ChildOrphans(b, orphans, <<>>)}

UnorphanBlocks(b) ==
  UNION {Unorphan(children, Bodies, orphans) : children \in ChildOrphans(b, orphans, <<>>)}

\* GetOrphanRoots: the ancestors of an orphan, reached through orphans, that are neither
\* orphans nor blocks with body.
RECURSIVE Roots(_, _, _)
Roots(queue, added, pool) ==
  IF queue = <<>> THEN <<>>
  ELSE LET b == Head(queue)
           next == SetToSeq(Parents[b] \ added)
       IN IF b \in pool THEN Roots(Tail(queue) \o next, added \cup Parents[b], pool)
          ELSE (IF HasBody(b) THEN <<>> ELSE <<b>>) \o Roots(Tail(queue), added, pool)

GetOrphanRoots(o, pool) == IF o \in pool THEN Roots(<<o>>, {o}, pool) ELSE <<>>

\* AddOrphanRootsToQueue.
RootEntries(o, pool) ==
  LET roots == GetOrphanRoots(o, pool) IN [k \in DOMAIN roots |-> [block |-> roots[k], root |-> TRUE]]

\* AddOrphan: beyond the limit a random orphan goes, maybe the one just added.
AddOrphan(o, pool) ==
  LET added == pool \cup {o}
  IN IF Cardinality(added) > MaxOrphans THEN {added \ {e} : e \in added} ELSE {added}

-----------------------------------------------------------------------------
(* Messages, requests and the end of a flow.                                *)

Inv(b) == [type |-> "inv", block |-> b]
BlockMsg(b) == [type |-> "block", block |-> b]
LocatorMsg(hashes) == [type |-> "locator", hashes |-> hashes]
NoRequest == [type |-> "none"]
RequestBlock(b) == [type |-> "relayBlock", block |-> b]
RequestLocator(b) == [type |-> "locator", block |-> b]

Idle == [pc |-> "idle", block |-> NoBlock, root |-> FALSE, queue |-> <<>>]

\* A flow that finds the outgoing route closed returns: the deferred Remove of its
\* request runs, and the channel to the IBD flow is closed.
SendOrEnd(p, request, next) ==
  IF p \in open
  THEN /\ asked' = [asked EXCEPT ![p] = request]
       /\ relay' = [relay EXCEPT ![p] = next]
  ELSE /\ relay' = [relay EXCEPT ![p] = [Idle EXCEPT !.pc = "down"]]
       /\ UNCHANGED asked

\* One connection is closed: every route of it.
Close(p) == open' = open \ {p}

-----------------------------------------------------------------------------
(* HandleRelayInvs.                                                         *)

\* The next inv: from the queue of the flow, else from the route.
NextInv(p) ==
  IF relay[p].queue # <<>>
  THEN [entry |-> Head(relay[p].queue), queue |-> Tail(relay[p].queue), route |-> route[p]]
  ELSE [entry |-> [block |-> Head(route[p]).block, root |-> FALSE], queue |-> <<>>,
        route |-> Tail(route[p])]

\* An inv is handled up to the request for its block.  A block the node has is skipped.
\* For a known orphan its missing ancestors are requested first.  While IBD runs and the
\* node is out of sync other blocks are skipped, and so is one another flow requested.
ReadInv(p) ==
  /\ relay[p].pc = "idle"
  /\ relay[p].queue # <<>> \/ route[p] # <<>>
  /\ LET next == NextInv(p)
         b == next.entry.block
         skip(queue) == /\ relay' = [relay EXCEPT ![p].queue = queue]
                        /\ UNCHANGED <<requested, asked>>
     IN /\ route' = [route EXCEPT ![p] = next.route]
        /\ CASE HasBody(b) \/ (b \in orphans /\ VirtualSelectedParent = Genesis) ->
                  skip(next.queue)
             [] b \in orphans /\ VirtualSelectedParent # Genesis ->
                  skip(RootEntries(b, orphans) \o next.queue)
             [] ~HasBody(b) /\ b \notin orphans
                  /\ ((ibdPeer # {} /\ ~IsNearlySynced) \/ b \in requested) ->
                  skip(next.queue)
             [] OTHER ->
                  /\ requested' = IF p \in open THEN requested \cup {b} ELSE requested
                  /\ SendOrEnd(p, RequestBlock(b),
                               [Idle EXCEPT !.pc = "block", !.block = b,
                                            !.root = next.entry.root, !.queue = next.queue])
  /\ UNCHANGED <<graph, status, virtual, orphans, channel, handed, ibdPeer, netVars>>

\* An inv that arrives while the flow waits for a block or a locator is queued.
QueueInv(p) ==
  /\ relay[p].pc \in {"block", "locator"}
  /\ route[p] # <<>> /\ Head(route[p]).type = "inv"
  /\ relay' = [relay EXCEPT ![p].queue = Append(@, [block |-> Head(route[p]).block, root |-> FALSE])]
  /\ route' = [route EXCEPT ![p] = Tail(@)]
  /\ UNCHANGED <<graph, nodeVars, asked, channel, handed, ibdPeer, netVars>>

IsChildOfGenesis(b) == Parents[b] = {Genesis}

\* A block too old for the virtual to merge, unless it completes an orphan.
IsBelowMergeRoot(b) == BlueScore(b) <= BlueScore(VirtualMergeDepthRoot)

\* The requested block arrives and is no longer requested.  It is inserted unless it
\* is skipped or was inserted meanwhile; with parents missing, and not an orphan yet, a
\* locator is requested to find out how far it is.
ReceiveBlock(p) ==
  /\ relay[p].pc = "block"
  /\ route[p] # <<>> /\ Head(route[p]).type = "block"
  /\ LET b == Head(route[p]).block
         idle == [Idle EXCEPT !.queue = relay[p].queue]
     IN /\ route' = [route EXCEPT ![p] = Tail(@)]
        /\ requested' = requested \ {b}
        /\ \/ /\ \/ IsChildOfGenesis(b)
                 \/ ~relay[p].root /\ IsBelowMergeRoot(b)
                 \/ HasBody(b)
                 \/ ~(Parents[b] \subseteq Bodies) /\ b \in orphans
              /\ relay' = [relay EXCEPT ![p] = idle]
              /\ UNCHANGED <<status, virtual, asked>>
           \/ /\ ~IsChildOfGenesis(b) /\ (relay[p].root \/ ~IsBelowMergeRoot(b))
              /\ ~HasBody(b) /\ Parents[b] \subseteq Bodies
              /\ status' = [status EXCEPT ![b] = "body"]
              /\ virtual' = TipsOf(Bodies \cup {b})
              /\ relay' = [relay EXCEPT ![p] = [idle EXCEPT !.pc = "accepted", !.block = b]]
              /\ UNCHANGED asked
           \/ /\ ~IsChildOfGenesis(b) /\ (relay[p].root \/ ~IsBelowMergeRoot(b))
              /\ ~HasBody(b) /\ ~(Parents[b] \subseteq Bodies) /\ b \notin orphans
              /\ SendOrEnd(p, RequestLocator(b), [idle EXCEPT !.pc = "locator", !.block = b])
              /\ UNCHANGED <<status, virtual>>
  /\ UNCHANGED <<graph, orphans, channel, handed, ibdPeer, netVars>>

\* OnNewBlock: the orphans the new block completes are inserted.
OnNewBlock(b) ==
  \E done \in UnorphanBlocks(b) :
    /\ status' = [x \in Block |-> IF x \in done.have THEN "body" ELSE status[x]]
    /\ orphans' = done.pool
    /\ virtual' = IF done.have = Bodies THEN virtual ELSE TipsOf(done.have)

\* After the insertion the new virtual parents are announced (what the peers do with
\* the announcements is not modelled) and the orphans of the block are considered.
Accepted(p) ==
  /\ relay[p].pc = "accepted"
  /\ OnNewBlock(relay[p].block)
  /\ relay' = [relay EXCEPT ![p] = [Idle EXCEPT !.queue = relay[p].queue]]
  /\ UNCHANGED <<graph, requested, route, asked, channel, handed, ibdPeer, netVars>>

\* processOrphan: near enough to a known block, the block joins the orphans and its
\* missing ancestors are requested; too far, it is offered to the IBD flow of the peer,
\* which takes it only if it is waiting.
ReceiveLocator(p) ==
  /\ relay[p].pc = "locator"
  /\ route[p] # <<>> /\ Head(route[p]).type = "locator"
  /\ LET b == relay[p].block
         idle(queue) == [Idle EXCEPT !.queue = queue]
         inRange == \E h \in ToSet(Head(route[p]).hashes) : HasBody(h)
     IN /\ route' = [route EXCEPT ![p] = Tail(@)]
        /\ \/ /\ inRange /\ VirtualSelectedParent # Genesis
              /\ \E pool \in AddOrphan(b, orphans) :
                   /\ orphans' = pool
                   /\ relay' = [relay EXCEPT ![p] = idle(RootEntries(b, pool) \o @.queue)]
              /\ UNCHANGED <<channel, handed>>
           \/ /\ ~inRange \/ VirtualSelectedParent = Genesis
              /\ relay' = [relay EXCEPT ![p] = idle(@.queue)]
              /\ IF ~inRange /\ channel[p] = "waiting"
                 THEN /\ channel' = [channel EXCEPT ![p] = "taken"]
                      /\ handed' = [handed EXCEPT ![p] = b]
                 ELSE UNCHANGED <<channel, handed>>
              /\ UNCHANGED orphans
  /\ UNCHANGED <<graph, status, virtual, requested, asked, ibdPeer, netVars>>

\* The flow finds its incoming route closed and drained and returns: the deferred Remove
\* of its request runs, and the channel to the IBD flow is closed.
RelayEnds(p) ==
  /\ p \notin open /\ route[p] = <<>>
  /\ relay[p].pc \in {"block", "locator"} \/ (relay[p].pc = "idle" /\ relay[p].queue = <<>>)
  /\ relay' = [relay EXCEPT ![p] = [Idle EXCEPT !.pc = "down"]]
  /\ requested' = IF relay[p].pc = "block" THEN requested \ {relay[p].block} ELSE requested
  /\ UNCHANGED <<graph, status, virtual, orphans, route, asked, channel, handed, ibdPeer,
                 netVars>>

-----------------------------------------------------------------------------
(* The peers.                                                               *)

\* createBlockLocator: from the block down its selected chain, doubling the distance in
\* blue score, up to the limit or down to the pruning point.
RECURSIVE LocatorFrom(_, _, _)
LocatorFrom(b, step, limit) ==
  LET score == BlueScore(b)
      target == IF score < step THEN 0 ELSE score - step
      chain == graph[b].chain
      next == Min({k \in DOMAIN chain : BlueScore(chain[k]) >= target})
  IN IF limit = 1 \/ score = 0 THEN <<b>>
     ELSE <<b>> \o LocatorFrom(chain[next], 2 * step, limit - 1)

\* HandleRelayBlockRequests of a peer.
ServeRelayBlock(p) ==
  /\ asked[p].type = "relayBlock"
  /\ IF asked[p].block \in dag[p]
     THEN /\ route' = [route EXCEPT ![p] = Append(@, BlockMsg(asked[p].block))]
          /\ UNCHANGED open
     ELSE Close(p) /\ UNCHANGED route
  /\ UNCHANGED bannedBy

\* HandleRequestBlockLocator of a peer, which bans a node that asks about a block it does
\* not have.
ServeLocator(p) ==
  /\ asked[p].type = "locator"
  /\ IF asked[p].block \in dag[p]
     THEN /\ route' = [route EXCEPT ![p] =
                 Append(@, LocatorMsg(LocatorFrom(asked[p].block, 1, OrphanResolutionRange)))]
          /\ UNCHANGED <<open, bannedBy>>
     ELSE Close(p) /\ bannedBy' = bannedBy \cup {p} /\ UNCHANGED route

\* A peer serves the relay flow.
ServeRelay(p) ==
  /\ p \in open
  /\ ServeRelayBlock(p) \/ ServeLocator(p)
  /\ asked' = [asked EXCEPT ![p] = NoRequest]
  /\ UNCHANGED <<graph, nodeVars, relay, channel, handed, ibdPeer, dag, mined, banned>>

\* A peer adds a block and announces it, if it is a parent of its virtual.
PeerAddsBlock(p) ==
  /\ \E b \in mined[p] :
       /\ Parents[b] \subseteq dag[p]
       /\ dag' = [dag EXCEPT ![p] = @ \cup {b}]
       /\ mined' = [mined EXCEPT ![p] = @ \ {b}]
       /\ route' = IF p \in open THEN [route EXCEPT ![p] = Append(@, Inv(b))] ELSE route
  /\ UNCHANGED <<graph, nodeVars, relay, asked, channel, handed, ibdPeer, open, banned, bannedBy>>

\* The connection breaks, or a wait for the peer times out.
Disconnect(p) ==
  /\ p \in open
  /\ Cardinality(Peers \ open) < MaxDisconnects
  /\ Close(p)
  /\ UNCHANGED <<graph, nodeVars, flowVars, channel, handed, ibdPeer, dag, mined, banned,
                 bannedBy>>

\* Every peer has just connected and SendVirtualSelectedParentInv has run.
RelayInit ==
  /\ graph = BuildGraph
  /\ status = [b \in Block |-> IF b \in Known THEN "body" ELSE "none"]
  /\ virtual = TipsOf(Known)
  /\ orphans = {} /\ requested = {} /\ ibdPeer = {} /\ open = Peers
  /\ banned = {} /\ bannedBy = {}
  /\ \E s \in Starts : dag = s.dag /\ mined = s.mined
  /\ relay = [p \in Peers |-> Idle]
  /\ route = [p \in Peers |-> IF dag[p] = {Genesis} THEN <<>> ELSE <<Inv(Heaviest(dag[p]))>>]
  /\ asked = [p \in Peers |-> NoRequest]
  /\ channel = [p \in Peers |-> "waiting"]
  /\ handed = [p \in Peers |-> NoBlock]
=============================================================================
