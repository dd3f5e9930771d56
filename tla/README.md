# A TLA+ model of the c4exd node

c4exd is a full node of a proof-of-work block DAG: blocks name several parents, the
GHOSTDAG rule orders them, and a *virtual* block on top of all tips carries the UTXO set
that the node serves. This directory models the node's Go code in TLA+, checks the models
with TLC on small instances, and proves the most important properties for every instance
with TLAPS.

- [Inventory](#inventory): the parts of the system and what is hard about them
- [Plan](#plan): the modules by the properties they are about
- [Modules](#modules): how state and actions correspond to the code
- [Runs](#runs): what each TLC run checks, its bounds, and what it shows
- [Proofs](#proofs): what is proved, from which assumptions, along which argument
- [Divergences](#divergences): where the code does not do what a comment says
- [Limits](#limits): what is only model-checked and what is not modelled

`PROJECT.json` maps every definition to the lines it models and lists the components,
runs, mutants, hazards, findings and theorems.

## Inventory

### Consensus (`domain/consensus`)

| part | state | operations | what is hard |
|---|---|---|---|
| consensus facade (`consensus.go`) | a lock, `virtualNotUpdated` in memory, an events channel | `ValidateAndInsertBlock`, `ResolveVirtual`, `Init` | the lock is given away between two chunks of a resolution; the flag is lost at a crash |
| block processor | none of its own | `ValidateAndInsertBlock`, import of a pruning point, blocks with trusted data | one handler makes several commits |
| consensus state manager | block statuses, tips, UTXO diffs and diff children, the virtual's parents and UTXO set | `AddBlock`, `ResolveVirtual`, `ReverseUTXODiffs`, pruning point import | diffs are turned round block by block, one commit each; a crash may come between any two |
| reachability manager | intervals, tree, future covering sets, reindex root | `AddBlock`, `UpdateReindexRoot`, `IsDAGAncestorOf` | unsigned interval arithmetic, reindexing in several shapes, binary searches that rely on an order every reindexing must keep |
| GHOSTDAG manager | GHOSTDAG data per block | `GHOSTDAG`, `ChooseSelectedParent`, merge sets | blue anticone sizes are kept incrementally along the chain |
| headers selected tip, selected chain store | the tip, the chain by index and by hash | `AddHeaderTip` | reorganisations to shorter chains |
| merge depth and finality managers | one point per block | `CheckBoundedMergeDepth`, `FinalityPoint` | points continue from the selected parent's, so an error is never corrected |
| pruning manager, pruning store | pruning points, candidate, pruning point UTXO set | `UpdatePruningPointByVirtual`, `UpdatePruningPointIfRequired` | deletion and UTXO set update are two commits |
| pruning proof, parents manager | proof per level | build, validate, apply a proof | a second consensus in the making |
| sync manager | none | locators, hashes between blocks, missing bodies, anticones | chunks computed against a DAG that moves |
| validators, difficulty, median time, coinbase, scripts | none | predicates and arithmetic of a block | numeric edges, no concurrency |

Consensus parts are called only under the lock of `consensus.go`. They stage their changes
in a *staging area* and commit it as one database transaction.

### Mining (`domain/miningmanager`)

The mempool holds transactions that wait for a block, in a pool with a fee-rate order,
parent/child links and its own UTXO set, and transactions that wait for their parents, in
an orphan pool with an index by outpoint. It has its own lock. Consensus moves between two
of its calls: a block is in the DAG before the mempool hears of it
(`app/protocol/flowcontext/blocks.go`), and a reorganisation is never announced.

### Domain (`domain/domain.go`, `prefixmanager`, `migrate.go`)

Two database prefixes hold the active consensus and, during IBD (initial block download)
with a headers proof, a staging consensus. They are exchanged at the end, and what a crash left behind is cleaned up at
start-up.

### Protocol (`app/protocol`) and network (`infrastructure/network`)

Each peer has a set of flows, which are goroutines that read routes (bounded queues) and
call the domain: block relay with orphans and shared requests, IBD, transaction relay,
addresses, ping, handshake. The connection manager keeps the wanted numbers of
connections; the address manager remembers addresses. What is hard: flows of several
peers over shared maps, timeouts against late answers, routes closed while others write.

### Interfaces (`app/rpc`, `domain/utxoindex`, `cmd`)

Consensus events travel through one channel to a goroutine that updates the UTXO index and
notifies RPC listeners. The wallet, the miner and the control tool are other processes.

### Properties worth having

1. A past UTXO set can be restored for every valid block, at every moment, whatever was
   interrupted.
2. The virtual's UTXO set is the one its parents determine.
3. Verdicts and the selected chain depend on the DAG, not on the order of arrival.
4. The virtual catches up, and never reorganises below finality.
5. Ancestry queries are exact after any reindexing; blue sets are k-clusters.
6. The indexes of the mempool agree with each other.
7. A crash at any point of pruning, IBD or start-up leaves a node that can go on.
8. Flows neither deadlock nor lose a block that a peer has.
9. The UTXO index equals the virtual's UTXO set once the events are consumed.
10. Pruning deletes nothing that is still needed, and every node names the same pruning
    points.
11. What is sent or stored comes back unchanged.
12. A connection ends at both ends, no message comes before its route, and the connection
    manager drops nobody it should keep.

## Plan

| modules | content | state |
|---|---|---|
| `ConsensusState`, `ConsensusStateInv`, proofs | properties 1 to 4, the heart of the node | checked, proved |
| `Mempool` | property 6 | checked |
| `Reachability`, `Ghostdag`, `HeaderDag` | property 5 | checked |
| `UTXOIndex`, proofs | property 9: events, `Update`, `Reset`, crash and restart | checked, safety proved |
| `NodeConsensus`, `StagingConsensus`, proofs | property 7 for IBD with a headers proof and for start-up: two prefixes implement one consensus | checked, proved |
| `Pruning`, `PruningSync`, proofs | property 7 for pruning, property 10, and the transfer of the pruning point UTXO set | checked, partly proved |
| `BlockRelay`, `BlockSync` | property 8: relay, orphans, chain negotiation, headers and bodies, two peers | checked |
| `MessageTypes` to `Wire` | property 11: all messages and stored objects | checked |
| `PeerConnection`, `AddressManager`, `ConnectionManager`, `NodeConnections`, proofs | property 12: handshake, flows, closing, the connections loop | checked, safety proved |

What could come next: the block template cache and the notification manager, which follow
the virtual; a proof that the interval tree of `Reachability` stays nested, which needs its
recursion rewritten as functions; and the levels of a pruning proof.

## Modules

### ConsensusState

`ConsensusState.tla` models the consensus state manager and the two entry points of
`consensus.go` that drive it, one action per commit.

| variable | code |
|---|---|
| `status`, `tips` | block status store, consensus state store |
| `diff`, `diffChild` | UTXO diff store |
| `virtualParents`, `virtualUTXO` | block relations of the virtual, consensus state store |
| `virtualNotUpdated` | the field of `consensus`, in memory |
| `phase`, `caller` | where the thread that holds the lock is |
| `unverified`, `pastUTXO`, `reversal`, `reversedBlock`, `reversedDiff`, `resolveTip`, `pendingTip` | its local variables |

| action | code |
|---|---|
| `BeginAddBlock`, `AddSideBlock`, `CommitAddBlock` | `AddBlock`, `resolveBlockStatus`, `updateVirtual` |
| `InsertBlockWithoutVirtual` | `ValidateAndInsertBlock(_, false)` during IBD |
| `BeginResolveVirtual`, `CommitProcessingPoint`, `UpdateResolvedVirtual`, `ResolveVirtualDone` | `ResolveVirtual`, one chunk |
| `ResolveChainBlock` | one iteration of `resolveBlockStatus` |
| `ReverseUTXODiff` | one iteration of `ReverseUTXODiffs` |
| `Crash` | the process stops; only the database survives |

The DAG is a constant: which blocks may arrive, their parents and their order in parent
selection. A UTXO set is a set of pairs of outpoint and DAA score, so that a transaction
accepted by two chains gives two different entries, as in the code. `PastUTXO`, which the
DAG alone determines, is the reference. The choice of the virtual's other parents is left
open: any antichain that the limits could select.

### Mempool

`Mempool.tla` keeps the mempool as one record, and each function of the package is an
operator from the record before to the record after. Each entry point is one action, since
the mempool lock covers it: `ValidateAndInsertTransaction`, `HandleNewBlockTransactions`,
`RevalidateHighPriorityTransactions`, `RemoveInvalidTransaction`. `BlockAdded` and
`Reorganization` are consensus as the mempool sees it. Iteration over Go maps is a
nondeterministic choice. DAA scores are unsigned numbers modulo `Word`. `hung` marks a call
that repeats the same loop iteration for ever.

### Reachability, Ghostdag, HeaderDag

`Reachability.tla` and `Ghostdag.tla` are the two algorithms as operators over their
stores; `HeaderDag.tla` composes them into the insertion of a header: GHOSTDAG, the merge
set limit, reachability, merge depth root and finality point, the bounded merge rule, the
headers selected tip with its chain index, and the reindex root. An insertion is one commit, so it
is one action. A header that breaks a rule is not inserted. (The code also remembers it as
invalid; that entry answers a second arrival and nothing else.) `failed` marks an error
that is not a rule error, of the kind that the code says should never happen.

`SplitWithExponentialBias` uses exact fractions where the code uses floating point numbers.
The pruning point stays at genesis. Heights and searches are the code's: the binary search
is modelled by the index it finds in an ordered sequence, and is wrong, as the code's would
be, when the sequence is not ordered.

### UTXOIndex

`UTXOIndex.tla` models `domain/utxoindex` with the events channel that feeds it.

| variable | code |
|---|---|
| `virtual`, `events` | the virtual of the active consensus, `consensusEventsChan` |
| `entries`, `parents`, `supply` | the index's bucket and its two keys in the database |
| `reset` | where `Reset` is, with its local variables; it holds the index's mutex |
| `node` | down, starting (inside `New`), running, or exiting after a panic |
| `replayed` | history: there were change sets in the channel when `Reset` read the virtual |

`Update` is one database transaction under the mutex and is one action. `Reset` writes
without a transaction and is split where a crash or a block may come in between: the two
keys, each deleted entry, the read of the virtual, each step of outpoints, the mark at the
end. A change set that the goroutine has taken and not yet applied counts as being in the
channel. What the moves of the virtual are is a constant: for each virtual, its outpoints
with their DAA scores.

Two assumptions are visible in the module. `CommitStagingConsensus` finds an empty channel:
a node that needs a headers proof does not relay blocks meanwhile (`handle_relay_invs.go`),
and the proof takes minutes. `ExitWindow` says whether other goroutines run on while a panic
is written to the log (`util/panics`); in the code they do, and the passing run takes them
not to.

### NodeConsensus, StagingConsensus

`NodeConsensus.tla` is what the rest of the node is promised: one consensus, replaced in one
step and only by a newer one, whatever stops and starts. `StagingConsensus.tla` is how
`domain.go`, `prefixmanager`, `migrate.go` and IBD with a headers proof keep that promise.

| variable | code |
|---|---|
| `active`, `inactive` | the two keys of `prefixmanager` |
| `data` | what the database holds under each prefix, as pairs of a generation and a part |
| `consensus`, `staging`, `lock` | the pointers of `domain` and `stagingConsensusLock` |
| `ibdPeer` | `FlowContext.ibdPeer` |
| `at`, `held` | where each flow is; the consensus a reader took and still uses |

Each database write is an action of its own, and `Crash` may come between any two:
`InitStagingConsensus`, `CreateStagingConsensus`, one `DownloadStage` per part,
`CommitStagingConsensus`, `DeleteKey` for each key of the old data, `SwapPointers`, and the
start (`DeleteInactivePrefix`, `SetPrefixAsActive`, `NewConsensus`). `UseConsensus` is a
reader that took the pointer before it moved. A migration runs the same steps at start-up.

### Pruning, PruningSync

`Pruning.tla` models the pruning manager: the pruning point a header names, the candidate
and the advance of the point with every block, and `updatePruningPoint` with its three
commits (`UpdateUTXOSet`, `DeletePastBlocks`, `FinishUpdatingPruningPointUTXOSet`), crash,
restart, archival nodes and the cached anticone. The DAG is a constant, the order of arrival
is not; the properties compare what the node stores with what the DAG alone says. `Graph` is
what the stores hold for each block of it (past, blue score, selected parent), the solution
of a recursion over the parents that `GraphAssumption` states; `graph` is its copy in the
state. The virtual's parents are those that `pickVirtualParents` may choose, up to its
limit and without the blocks that break the bounded merge rule. An update that fails leaves
nothing staged. `torn` is a history variable: the process stopped after the old blocks were
deleted and before the flag was.

`PruningSync.tla` composes it with the transfer of the pruning point UTXO set to a peer, in
chunks that are read one lock at a time (`handle_request_pruning_point_utxo_set.go`) and
received by `ibd_with_headers_proof.go`.

### BlockRelay, BlockSync

`BlockRelay.tla` has one `HandleRelayInvs` flow per peer over the shared orphan pool,
`SharedRequestedBlocks` and consensus; `BlockSync.tla` adds one `HandleIBD` flow per peer,
the goroutine that reads headers, and the syncer's answers. A step ends where the code waits
for a message or lets go of a lock. The peers run the same code and one of them reorganises
its chain. Headers come in messages of `MaxHeaders`, bodies in batches, and a connection may
end at any time. Blocks are valid and blue, so that blue score and work are the size of the
past.

### The codec modules and Wire

`MessageTypes.tla` writes Go types as records that say how values are built. `AppP2PMessages`,
`AppRPCMessages`, `ProtoP2PMessages`, `ProtoRPCMessages`, `DomainTypes` and `DbObjects` are
the structs of the program in that form. `P2PConverters`, `RPCPartConverters`, `RPCConverters` (package
`protowire`), `DomainConverters` (`app/appmessage`) and `DbConverters`
(`database/serialization`) are the conversions, one operator per function: a converter
returns the set of its results, which is empty for an error. `Payloads` is the two switches
of `wire.go`, `Routing` the command of each message and the tables of routes and handlers.
`Wire.tla` sends a value on its way: sender, wire, receiver, router, and for objects the
store and back. Integers keep their relative widths with small maxima; a hash has `HashSize`
digits, so a wrong length is an error as in the code. A field that the code is known to lose
is marked `Lost` in its type, with the converter that loses it.

### PeerConnection, AddressManager, ConnectionManager, NodeConnections

`PeerConnection.tla` has both ends of each connection between two nodes: the send and receive
loops, the router with its routes, and the goroutine of the protocol manager that shakes
hands, registers routes, waits for the other side to be ready, runs the flows and handles
their error. A version is refused, with a ban or without, when the `verdict` of the setting
says that the checks of `receiveversion.go` fail. A flow that no connection runs on its own account is left to `BlockSync`.
`AddressManager.tla` keeps addresses with their failure counts and bans;
`ConnectionManager.tla` is the connections loop over it, which works on a snapshot in three
steps, with requests, retries, inbound connections, bans, `Stop` and a restart in between. A
connection that is disconnected is `closing`, and stays in `p2pConnections`, where the loop
still sees it, until its loops have ended; one address may have several connections.
`NodeConnections.tla` puts the two sides together; since the manager sees a connection only as
present or gone, a behaviour exercises one side, as its `setting` says.

## Runs

| run | instance | shows |
|---|---|---|
| `resolve` | eight blocks: two chains from genesis, two blocks that merge them; the same transaction in both chains, and two that spend its output in conflict; chunks of two; crashes | restore paths, the virtual's UTXO set, the inductive invariant and the order of selected parents, in any order of arrival |
| `verdicts` | the same DAG, one header that commits to a wrong UTXO set, no IBD | verdicts depend on the DAG alone |
| `catch_up` | the fork alone, finality depth 2, chunks of one block, fairness | the virtual catches up and respects finality |
| `mempool` | three transactions: a parent, its child with a second input, a rival for that input | the mempool's indexes agree |
| `header_dag` | every DAG of six headers over genesis that the rules admit, words of 24 values, slack 1, K = 1 | reachability, GHOSTDAG, chain index and depth points are exact |
| `utxo_index` | five virtuals over four outpoints, one that leaves and returns and one whose DAA score changes; a channel of two, steps of two outpoints, two crashes | an index marked as synced has the virtual's outpoints, readers see one virtual, the index catches up |
| `staging_consensus` (`StagingConsensus.cfg`) | two peers, one reader, a migration, three consensuses, two crashes | data is never mixed or lost track of, the node comes up, and the database implements `NodeConsensus` |
| `pruning` | 22 blocks: a chain of 17 with four forks, of which two are merged, one is not and one tries to be too late; archival or not; one crash; chunks of three coins, two chunks a batch | pruning points are those of the DAG, the right data is kept, a transfer ends and fits its commitment |
| `block_sync` | a node with two of eleven blocks, four of which merge two branches; two peers, one of which is far ahead and switches to another branch, or both of which mine on a block the node lacks; a pool of four orphans, three headers a message, one disconnection | no honest peer is banned, no block is missed, no flow is stuck, a download that ends well has brought its block, and orphans whose parents have all arrived leave the pool with them |
| `wire` (`Wire.cfg`) | 43 P2P and 87 RPC messages, consensus objects and stored objects, five samples each | what is sent or stored comes back |
| `network` | seven settings of one or two connections with broadcasts, bans, refused versions and disturbances, and the connection manager with two addresses, two inbound peers and two events | no early message, peers exact, both ends are taken down, the loop keeps its connections |
| `crash_window` | `resolve` with crashes between the two commits | the first divergence below |

Bounds. A diff is turned round when a chain of two or more unverified blocks wins over the
selected parent, so the fork has chains of two and three blocks; merges of both chains make
a transaction that is accepted from one and rejected from the other. Chunks of two (one in
`catch_up`) split every resolution. In the mempool, three transactions are enough for a
chain, a double spend and an orphan of each, and pools of one or two entries are always
near their limit; `MaxDAA` and `MaxOrderLength` bound the DAA score and the fee-rate order.
In `header_dag`, an interval space of 24 for seven blocks makes the first siblings exhaust their parent's
interval, so all reindexing paths are taken; slack and window are 1 so that the reindex
root moves with almost every tip; hashes arrive out of order and one header has three times
the work of the others, so blue work and blue score disagree. In `utxo_index` the virtual
moves at most four times, enough to fill the channel, to move during a Reset and to move
once more; UTXO sets of two, three and four outpoints make Reset end in a short step and
in an empty one; sums of amounts stay below `Word`.

In `staging_consensus`, three generations are the first consensus, one that replaces it and
one that replaces that, under the prefix the first one had; two crashes are one during a
sync and one during the start that cleans up. In `pruning` the chain is long enough for the
pruning point to move twice, so that a transfer meets both a move and the rewrite that
follows; sets of three or more coins end in a full and in a short chunk. In `block_sync`
behaviours start in one of two ways. Far behind, the node needs a chain locator with a gap,
hence a zoom step, and the other branch makes the syncer's chain change under it. One block
behind, it collects the orphans 3, 4, 5 and 6 before their ancestor 2 comes; 6 has the
parents 3 and 5, so `UnorphanBlocks` meets it before its second parent is there, and has to
come back to it. The pool holds these four, and block 14 or 7 makes it evict one. With
`MergeDepth` 2 block 7 can be below the merge depth root. `MergeSetSizeLimit` 2 is the
largest merge set, and a message of three headers holds one with the block that merges it.
`MaxRestarts` bounds the restarts of a negotiation. In `wire` the samples of a type have zero, least, distinct and greatest
fields, and none of its optional parts; slices are empty, full and one over the limit of
their message. In `network` a route holds one message, so that it is full when the next
one comes; two events are a request for a connected address, which the loop puts back, and
an inbound peer, which makes the connection one too many.

Fairness (`catch_up`). Weak fairness of the thread that holds the
consensus lock, since it waits for nothing, and of `Resolve`: `consensus.ResolveVirtual` calls for the next
chunk in a loop until one is complete. Blocks arrive without fairness. There are no crashes
in this run: a node that stops for ever catches up with nothing.

Fairness (`utxo_index`). Weak fairness of the goroutine that reads the channel, of the
one inside `Reset`, of the end of a panic, and of the next start. The virtual moves and
crashes happen without fairness, and both are bounded.

Fairness (`staging_consensus`). Weak fairness of each flow that has a step to take, of the
start, and of the exit of a process that panicked. A sync starts, fails and crashes without.

Fairness (`pruning`). Weak fairness of the next step of an update or a start, which the
thread that holds the consensus lock takes without waiting, and of the two flows of the
transfer. Blocks, crashes and the end of the connection have none.

Deadlock is not checked in `verdicts`, `header_dag`, `utxo_index`, `staging_consensus`,
`pruning`, `block_sync` and `network`, where everything has arrived, or every bounded event
has happened, in the end. `NoFlowIsStuck` and `NoEndIsStuck` say instead who may be waiting
for what.

Mutants. Each property of each passing run comes with a mutant: a plausible mistake in one
definition, kept beside it under the comment "Mutant", under which TLC reports that very
property. For example, if `ReverseUTXODiffs` forgot to store the new diff child,
`RestoreCorrect` would fail in `verdicts`.

## Proofs

`ConsensusStateProofs.tla` proves, for every DAG, every UTXO content, every chunk size and
every interleaving:

| theorem | statement |
|---|---|
| `InductiveInvariant` | `Spec => []IInv` |
| `RestorePathToAllBlocks` | `Spec => []RestoreCorrect` |
| `VirtualUTXOAlwaysCorrect` | `Spec => []VirtualUTXOCorrect` |
| `VirtualAlwaysWins` | `Spec => []VirtualWins` |
| `SelectedParentOnlyRises` | `Spec => SelectedParentRises` |
| `TypeCorrect` | `Spec => []TypeOK` |

Assumptions, named in `ConsensusState` and `ConsensusStateInv`:

- the DAG is finite, the parents of a block come before it in the parent selection order, and the order is
  total (`BlockAssumption`, `ParentsAssumption`, `OrderAssumption`);
- `PastUTXO` is what applying the merge sets yields (`PastUTXOAssumption`);
- `AllBlocksVerify`: no block is disqualified. Without it the theorem is false: see
  "a disqualified tip" under [Divergences](#divergences);
- `SafeCrashPoints`: no crash between the commit of a processing point and that of its
  virtual. The run `crash_window` shows that the theorem is false without it;
- `ShallowDAG`: the DAG is not deeper than the finality depth, so that the finality rule
  excludes nothing.

TLC evaluates the assumptions on constants in every run, and the hypotheses of the theorems hold in `resolve`.

Why `RestoreCorrect` is not inductive: it says what following the diffs yields, and an
action that moves one diff needs to know which blocks restore through it. `IInv` says
instead that the stored diffs form a forest:

- each edge is exact: the diff of a block is what separates its own past UTXO set from the
  one at the other end of its edge (`ExactEdges`);
- there is exactly one root, whose diff is over the virtual: the selected parent of the
  virtual, or the processing point while `ResolveVirtual` is between its commits (`OnlyRoot`, `Root`);
- there are no cycles (`Acyclic`), so that every path ends at the root.

The rest of `IInv` says what the lock holder knows in each phase: `ResolvingInv` (the
unverified blocks are a segment of one selected chain right above a valid block, whose past
UTXO set is in memory), `ReversingInv` (above the reversed block the chain already hangs from the
tip), `DagInv` and `VirtualInv` (tips, statuses and the order of the virtual's selected
parent).

The first part of the module proves the graph part: in an acyclic forest with exact edges
`Restored` returns `PastUTXO` for every block, and the four ways in which the code changes a
forest (add a leaf, move the root up, turn an edge round, replace the virtual) keep it one.
The second proves the facts about selected chains, unverified segments and processing points,
the initial state and the simpler actions; then come one lemma per remaining action and the
theorems.

`ConsensusOnlineProofs.tla` is about a node that is online: it has caught up, adds each block
as it comes and is not restarted (`Online`). In return it lets blocks be disqualified and the
DAG be deeper than the finality depth:

| theorem | statement | further hypotheses |
|---|---|---|
| `FinalityAlwaysHolds` | `Spec => FinalityHolds` | none |
| `OnlineSelectedParentRises` | `Spec => SelectedParentRises` | none |
| `VerdictsAlwaysSound` | `Spec => []VerdictSound` | `ShallowDAG` or `AllBlocksVerify` |
| `OnlineRestorePath` | `Spec => []RestoreCorrect` | `ShallowDAG` or `AllBlocksVerify` |
| `OnlineVirtualUTXO` | `Spec => []VirtualUTXOCorrect` | `ShallowDAG` or `AllBlocksVerify` |
| `OnlineVirtualWins` | `Spec => []VirtualWins` | `ShallowDAG` |

The first two rest on `OnlineInv`, about statuses and the virtual alone. Between two
operations no valid block is above the virtual's selected parent, and during one only blocks of
the chain that is being resolved are, a chain that contains the finality point (`OnlineDag`).
So whichever block `selectVirtualSelectedParent` ends at, going down from a disqualified tip to
its parents, it is the old selected parent or a block of that chain above it, and the finality
point is on its chain. The other theorems add the diffs and the verdicts:
a valid block verifies, a disqualified one does not or has a disqualified selected parent
(`LocalVerdicts`), and in a shallow DAG nothing but disqualified blocks is above the virtual
(`OnlineWins`). The verdict of a whole chain follows by least counterexample in the order of
parent selection.

The hypotheses are needed, as TLC shows on the DAG of `resolve`. In a deep DAG a block may be
left pending because it violates finality, and the finality point retreats when the virtual
loses a parent. A disqualified block on top of it then makes it valid, the virtual moves there,
and no diff is reversed: `RestoreCorrect` and `VirtualUTXOCorrect` fail with `BadHeader = {C}`
and `FinalityDepth = 2`. After a restart `ResolveVirtual` runs first and meets the disqualified
tip, so `RestoreCorrect` fails with `BadHeader = {B3}`. Both are cases of "a disqualified tip" below. During IBD
`ResolveVirtual` may settle on a valid tip below the old selected parent, in DAGs that the
merge depth rule would exclude; the DAGs of the model are not restricted to those, so finality
during IBD stays with TLC (`catch_up`).

`StagingConsensusProofs.tla` proves, for any number of peers, readers, crashes and synced
consensuses:

| theorem | statement |
|---|---|
| `DatabaseImplementsOneConsensus` | `Spec => OneConsensus`: `StagingConsensus` implements `NodeConsensus` |
| `NothingIsLeftBehind` | `Spec => []NothingLeftBehind` |
| `ActiveStaysOneConsensus` | `Spec => []ActiveIsOneConsensus` |
| `ServedStaysWhole` | `Spec => []ServedConsensusIsWhole` |

The only assumption is `GoroutinesAssumption`: the names of goroutines, prefixes and `None`
differ. The refinement mapping takes the generation under the active prefix for the
consensus that is served, and "up" for the main goroutine having finished its start. That
the active prefix holds one generation is not inductive: it is `CommitStagingConsensus` that
makes the staging data active, so the invariant has to say what that data is while it is
being written. `IInv` of that module therefore adds which prefixes may hold data (`Keys`),
that only one flow works on a staging consensus, and none before the node is up (`Owner`),
what that flow may rely on at each of its steps (`Progress`), and which consensus is served
outside a commit (`Serving`). Every action then either leaves the served generation alone,
which is a stuttering step or a start or stop of `NodeConsensus`, or is the commit or the
first write of a consensus, which is its `Replace`. `ServedStaysWhole` needs one thing more
(`Served`): a flow that is about to commit has the headers, and between the commit and the
swap of the pointers the lock keeps readers out.

`UTXOIndexProofs.tla` proves, for any outpoints, virtuals, size of the channel, step of
`Reset` and number of crashes:

| theorem | statement |
|---|---|
| `SyncedIndexIsCorrect` | `~ExitWindow => (Spec => []SyncedMeansSameOutpoints)` |
| `ReadersSeeWholeChangeSets` | `~ExitWindow => (Spec => []ReadersSeeOneVirtual)` |

Without `~ExitWindow` the first is false (see [Divergences](#divergences)). That the index
equals the virtual when it is marked as synced is not inductive: the mark is compared with
the virtual, and both move. The invariant says what the channel holds (`Channel`: the change
sets in it lead to the virtual without a gap), how far `Reset` has come (`Copying`: the
entries are the beginning of the set of one virtual, which the channel goes through) and what
an index that follows the channel is (`Following`: at the virtual of its mark; or, while it
replays change sets that `Reset` had already seen, each outpoint is as in the virtual of the
mark or as in one later virtual that is still in the channel). Sums of amounts are
`SumFunctionOnSet` of the community modules; the module proves that the sum exists for
every finite set of outpoints and what adding and removing an outpoint does to it, modulo
`Word`.

`PruningProofs.tla` proves, for every DAG, finality depth, pruning depth, order of arrival,
crash and chunk size:

| theorem | statement |
|---|---|
| `ServedUTXOSetFits` | `SyncSpec => []UTXOSetFitsCommitment` |
| `PointsAdvance` | `SyncSpec => PointsAdvanceOnTheChain` |
| `CompleteTransfersFit` | `SyncSpec => []CompleteTransferFitsCommitment` |

Assumptions: `PruningAssumption` and `GraphAssumption` (a finite DAG whose blocks come after
their parents in `Order`, and the stores computed from it) and `SyncAssumption` (steps and
batches are positive). From them the first part of the module derives by least
counterexample that the stores describe a DAG: pasts are transitive, chains are totally
ordered, finality scores do not fall along a chain. `PruningIInv` then says where an update
may be interrupted: while it is pending, the stored set contains what both points have and
nothing that neither has (`Phase`), so that starting over with the difference of the two
gives the new set wherever the crash was. For the move of the point it says that the point
lies on the chain of the candidate, and that stored headers are closed under ancestors
(`Stores`). The transfer needs `TransferIInv`: the coins the receiver has, the chunks on the
wire and the rest of the served set are consecutive pieces of the one set, in order
(`Transferring`), as long as the pruning point is still the requested one.

`NodeConnectionsProofs.tla` proves, for any number of connections, sets of flows, broadcasts,
disturbances, addresses and requests:

| theorem | statement |
|---|---|
| `LoopKeepsConnections` | `Spec => LoopKeepsItsConnections` |
| `PeersStayExact` | `Spec => []PeersExact` |
| `FlowMessagesAreNotEarly` | `Spec => []NoFlowMessageIsEarly` |

The connection manager needs `ManagerIInv`: a connection that the node made itself belongs to
a request, to the outgoing connections or to a request that was put back, and the same of
the part of the snapshot that each step of an iteration has still to classify (`Ownership`).
The connections need `ConnectionIInv`, which speaks of both ends of a connection and of the
two directions of the wire at once: what an end that has not got to some step cannot have
sent (`Silent`), that a message of a flow is on the wire only after a `Ready` that comes
before it or was taken (`Ordered`, `Told`), that a request has at most one answer on its way
(`OneRequest`), and what may have been refused (`Refusals`). `ConnectionAssumption` says that
flows that talk to each other are registered together, as `v5.Register` does with all of them.

`NumberLemmas.tla` has what replaces induction over data in all of these: a non-empty set of
naturals has a least element, so a property of the naturals that has no least counterexample
has none; and the maximum of a finite set is a member and a bound.

## Divergences

One divergence between a comment and the code has a run that shows it:

| run | comment | code |
|---|---|---|
| `crash_window` | `resolve_block_status.go:274`: "a temporary measure to ensure there's a restore path to all blocks at all times" | the resolved tip and the virtual are committed separately (`resolve.go:166`, `:204`); after a crash in between, the tip's diff is over a virtual that is not the stored one |

The models behave like the code in the following cases too; the properties leave them out
by name, or a constant of the instance keeps them away.

Consensus and domain:

- A disqualified tip. `resolve.go:141` says that the processing point must win, "Otherwise,
  internal UTXO diff logic gets all messed up". A winning point may be disqualified after its
  chain blocks were committed, and then the reversal never runs. `ResolveVirtual` uses the point
  whatever its verdict, fails, and does so again at every call. In `AddBlock` it takes a chain
  block that was pending, in a DAG deeper than the finality depth. The instances with a
  disqualified block do not resolve in chunks and are not that deep.
- The committed consensus may have no UTXO set. When a peer moved on from its pruning point,
  `ibd_with_headers_proof.go:198` logs "Aborting IBD because the pruning point UTXO set failed
  to sync" and returns no error, and the staging consensus is committed
  (`CommittedWithoutUTXOSet`).
- Readers outlive their consensus. `CommitStagingConsensus` deletes the old data before it
  moves the pointer (`domain.go:155`), so a flow that holds the old consensus reads deleted
  data; the panic that follows is the action `Exit`.
- A torn pruning update. The past of the new pruning point is deleted in one commit and the
  flag of the update in another (`pruningmanager.go:1029`, `:1035`). After a crash in between,
  the update starts again from diffs that are gone and fails at every start, unless the node
  is archival (`torn`).

Mempool and index:

- `transactions_pool.go:195` logs "Removing transaction" for an entry that may have outlived
  its transaction: nothing is removed, and the loop that enforces the limit never ends
  (`hung`).
- `store.go:314` says that "if anything goes wrong, the UTXO index will be marked as "not
  synced" and will be reset". A block that makes `Reset` fail has its change set waiting for
  the mutex; applied to the half-built index while the panic is written to the log, it stores
  the parents of the virtual before the process ends (`ExitWindow`).
- The change sets in the channel when `Reset` reads the virtual are applied again after it:
  the outpoints converge, but the circulating supply counts them twice and nothing corrects
  it (`replayed`). And an outpoint that a change set removes and adds with another DAA score
  keeps its old entry, since `store.add` only cancels the removal; the properties compare
  outpoints and amounts, not DAA scores.

Sync and network:

- `handle_ibd_request_chain_block_locator.go:48` calls `errors.Is` with its arguments
  exchanged, so that a locator request that a reorganisation of the syncer overtook ends in
  an error where the comment below it says "signal it by sending an empty locator".
- `ibd.go:214` says that a locator without an unknown block can only be the first one. A
  relay that inserts the lowest unknown block during the exchange makes it a later one
  (`SyncMissesNothing` allows for it).
- `connmanager.go:117` says that once `checkIncomingConnections` is reached "the only
  connections left are the incoming ones". A pending request whose connection exists already
  is put back among the pending ones (`connection_requests.go:53`, whose comment says "move it
  to active"), and in the next iteration the connection counts as incoming (`putBack`).
- `Stop` of the connection manager signals a loop that may have ended, and then waits for
  ever (`connmanager.go:100`).
- A peer is in the list of peers before its flows are registered (`protocol.go:76`). A
  broadcast may therefore overtake the other side's handshake; `NoFlowMessageIsEarly` says
  which messages may not.
- The address manager does not look at bans when it adds an address, so `RandomAddresses`
  may return one that is banned.

Conversions (the fields marked `Lost` and the exceptions of `NothingIsRefused`):

- `TimeConnected` of a connected peer is read from `TimeOffset`
  (`rpc_get_connected_peer_info.go:89`);
- `toAppMessage` of `GetCurrentNetworkResponse` calls itself (`rpc_get_current_network.go:20`);
- the verbose data of an RPC transaction input is assigned to a shadowing variable on one
  way and loops for ever on the other (`rpc_submit_transaction.go`);
- a balance response with an error is refused (`rpc_get_balance_by_address.go`);
- the gas of an RPC transaction is its lock time, both ways (`domainconverters.go`);
- the response to StopNotifyingPruningPointUTXOSetOverride has no case in `wire.go`, and
  its `Command` is that of the Notify message;
- the RPC client has no route for `ShutDownResponse`, whose command has no string;
- `transactions.go:65` never cuts an announcement to `MaxInvPerTxInvMsg`, so that a longer
  one cannot be sent.

## Limits

Only model-checked:

- all liveness properties, since TLAPS cannot reason about fairness, and `NoEndIsStuck`,
  which says what is enabled;
- in `ConsensusState`, finality during IBD, and disqualified blocks during IBD or in a DAG
  deeper than the finality depth;
- `PruningPointsFormValidChain` and `NeededDataIsKept`: they compare the node with what a
  second node would compute, or with windows over the whole past, and no inductive invariant
  short enough to prove has been found;
- the mempool, the header DAG, the synchronisation and the encodings. Their operators are
  folds and recursions over the data (`HeaderDag`, `BlockSync` and `Wire` reach RECURSIVE
  operators), and what such a definition computes for every input is beyond the prover's
  induction.

### Not modelled

The components that `PROJECT.json` lists as `not_modelled`, each with its reason: separate
processes, I/O, pure functions of bytes, and wrappers around what other modules model. Within
the modelled parts:

- in `ConsensusState` every block is blue and the DAA score is the number of blocks in the
  past; pruning does not happen there, so the pruning point is genesis; acceptance data and
  multisets are functions of the UTXO sets;
- in `HeaderDag` bodies do not exist, and a header in the anticone of the pruning point cannot occur;
- in `StagingConsensus` a download stage has no content: it is complete, or it fails;
- in `Pruning` every block is UTXO-valid, and a coin is named by the block that creates it;
- in `BlockRelay` and `BlockSync` all blocks are valid and blue, and the node and its peers
  have the same pruning point; a timeout is a connection that ends;
- in `PeerConnection` both nodes run this code, so that a pong answers its ping and an address
  message is not too long; the shutdown of a node (`ShutdownChan`, `isClosed`) is left out; the
  outgoing route never fills up (it holds 131,272 messages), so that an enqueue that fails at
  capacity is that of an incoming route;
- in `ConnectionManager` the length of a back-off is left open and a random address is any
  address;
- in the codec modules what a transaction remembers of its own evaluation (fee, mass, id);
- scripts, masses, difficulty, time stamps and hash functions.
