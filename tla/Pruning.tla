------------------------------ MODULE Pruning -------------------------------
(***************************************************************************)
(* Pruning a node's block DAG while blocks keep arriving and the process   *)
(* may stop at any time: the pruning point moves along the virtual's       *)
(* chain, the UTXO set kept for syncing peers follows it, and block data   *)
(* below it is deleted.  The DAG and the GHOSTDAG order of its blocks are  *)
(* constants (the modules HeaderDag and Ghostdag compute them); the order  *)
(* in which the blocks arrive is not.  A coin is named by the block that   *)
(* creates it, and every block is UTXO-valid (ConsensusState is about      *)
(* the others).                                                            *)
(***************************************************************************)
EXTENDS Integers, Sequences, FiniteSets, FiniteSetsExt

CONSTANTS
  Order,             \* the blocks, numbers compared like the hashes they stand for,
                     \* every block after its parents
  Genesis,
  VirtualGenesis,    \* the ancestor of all
  NoBlock,
  Parents,           \* Parents[b]: the direct parents of block b
  Spends,            \* Spends[b]: the coins spent by the transactions of b
  Graph,             \* Graph[b]: what is stored for block b, see BlockData
  K,
  FinalityInterval,  \* also the finality depth, as in the parameters of the network
  MergeDepth,
  PruningDepth,
  WindowSize,        \* the difficulty window
  MaxCrashes

Block == Range(Order)

ASSUME PruningAssumption ==
  /\ Order \in Seq(Nat)
  /\ Genesis \in Block /\ Parents[Genesis] = {}
  /\ VirtualGenesis \notin Block /\ NoBlock \notin Block
  /\ \A k \in DOMAIN Order : \/ Order[k] = Genesis
                             \/ /\ Parents[Order[k]] # {}
                                /\ Parents[Order[k]] \subseteq {Order[j] : j \in 1..k - 1}
  /\ FinalityInterval \in Nat \ {0}
  /\ PruningDepth \in Nat /\ PruningDepth > 2 * FinalityInterval
  /\ MaxCrashes \in Nat

VARIABLES
  graph,        \* what the stores can hold, which is Graph
  dag,          \* the blocks whose headers are stored
  headerOnly,   \* the blocks of dag with status header-only
  data,         \* the blocks with body, acceptance data, multiset and UTXO diff
  tips,
  virtual,      \* the parents of the virtual
  valid,        \* the blocks resolved as UTXO-valid
  diffChild,    \* the block a stored UTXO diff is over; NoBlock: the virtual
  header,       \* header[b]: the pruning point the header of b names
  roots,        \* per block, the stored merge depth root and finality point
  points,       \* the pruning points by index
  candidate,
  updating,     \* the flag stored while the pruning UTXO set is behind
  utxos,        \* the pruning point UTXO set
  cache,        \* in memory: a pruning point and its anticone
  pc,           \* what the process is doing: "down", "ready", or the next step
                \* of updatePruningPoint: "utxo", "delete", "finish"; "failed"
                \* when it returned an error
  starting,     \* NewConsensus has not returned
  archival,     \* isArchivalNode
  torn,         \* the process stopped between the last two steps of an update
  crashes

dagVars == <<dag, tips, virtual, valid, diffChild, header, roots>>
storeVars == <<headerOnly, data, points, candidate, updating, utxos>>
procVars == <<cache, pc, starting, torn, crashes>>
vars == <<dagVars, storeVars, procVars, graph, archival>>

-----------------------------------------------------------------------------
(* The DAG and its order.                                                  *)

\* What the stores hold for a block once they hold it for the blocks t before it: its
\* past and selected chain, its GHOSTDAG data, its place in the order by blue work (ties
\* broken by hash) and the coins its past leaves unspent, which its header commits to.
\* A merged block is red when more than K blocks of the past in question are in its
\* anticone, which is what GHOSTDAG decides for blocks merged one fork at a time.
BlockData(t, b) ==
  LET past == UNION {{p} \cup t[p].past : p \in Parents[b]}
      s == IF b = Genesis THEN VirtualGenesis
           ELSE CHOOSE p \in Parents[b] : \A q \in Parents[b] : t[q].rank <= t[p].rank
      merged == IF b = Genesis THEN {} ELSE past \ (t[s].past \cup {s})
      anticone(x) == {y \in past \ {x} : x \notin t[y].past /\ y \notin t[x].past}
      score == IF b = Genesis THEN 0
               ELSE t[s].score + 1 + Cardinality({x \in merged : Cardinality(anticone(x)) <= K})
  IN  [past |-> past, selectedParent |-> s, score |-> score,
       rank |-> score * (1 + Max(Block)) + b,
       chain |-> {b} \cup (IF b = Genesis THEN {} ELSE t[s].chain),
       utxo |-> past \ UNION {Spends[x] : x \in past}]

\* The table is complete: every block is stored on top of the blocks before it.
ASSUME GraphAssumption == Graph = [b \in Block |-> BlockData(Graph, b)]

Past(b) == graph[b].past
BlueScore(b) == graph[b].score
SelectedParent(b) == graph[b].selectedParent
Chain(b) == graph[b].chain
PastUTXO(b) == graph[b].utxo
Rank(b) == graph[b].rank

Less(a, b) == Rank(a) < Rank(b)

Highest(S) == CHOOSE b \in S : \A a \in S : Rank(a) <= Rank(b)
Lowest(S)  == CHOOSE b \in S : \A a \in S : Rank(b) <= Rank(a)

PastOf(parents) == UNION {{p} \cup Past(p) : p \in parents}

\* IsAncestorOf counts a block as its own ancestor.
IsAncestorOf(a, b) == a = VirtualGenesis \/ a = b \/ a \in Past(b)

\* The part of the anticone of b in a set of blocks.
AnticoneIn(b, S) == {x \in S : ~ IsAncestorOf(x, b) /\ b \notin Past(x)}

\* VirtualGenesis is in every selected chain.
IsInSelectedParentChainOf(a, b) == a = VirtualGenesis \/ a \in Chain(b)

\* The GHOSTDAG data of a block with these parents: a header being checked, or the
\* virtual.
MergeSet(parents) == PastOf(parents) \ PastOf({Highest(parents)})

Reds(parents) ==
  {x \in MergeSet(parents) : Cardinality(AnticoneIn(x, PastOf(parents))) > K}

ScoreOf(parents) ==
  BlueScore(Highest(parents)) + 1 + Cardinality(MergeSet(parents) \ Reds(parents))

\* The highest blocks of the past.  The walk stops at the chain block whose selected
\* parent is genesis; that block has no other parent, so only genesis is left out.
BlockWindow(b) ==
  {x \in Past(b) \ {Genesis} : Cardinality({y \in Past(b) : Less(x, y)}) < WindowSize}

FinalityScore(b) == BlueScore(b) \div FinalityInterval

PruningPoint == points[Len(points)]

-----------------------------------------------------------------------------
(* The merge depth root and the finality point of a block with these       *)
(* parents: stored for the selected parent, advanced along the chain.      *)

ChainPointBelow(parents, depth, field) ==
  LET s == Highest(parents)
      score == ScoreOf(parents)
      stored == roots[s][field]
      start == IF stored = VirtualGenesis THEN PruningPoint ELSE stored
  IN  IF score < depth THEN Genesis
      ELSE IF \/ score < BlueScore(PruningPoint) + depth
              \/ ~ IsInSelectedParentChainOf(PruningPoint, s)
           THEN VirtualGenesis
      ELSE IF s = Genesis THEN Genesis
      ELSE Highest({start} \cup
             {c \in Chain(s) : Less(start, c) /\ BlueScore(c) < score - depth})

MergeDepthRoot(parents) == ChainPointBelow(parents, MergeDepth, "mergeDepthRoot")

FinalityPoint(parents) == ChainPointBelow(parents, FinalityInterval, "finalityPoint")

NonBoundedMergeDepthViolatingBlues(parents, root) ==
  {b \in {Highest(parents)} \cup (MergeSet(parents) \ Reds(parents)) :
     IsInSelectedParentChainOf(root, b)}

\* The reds that make a merge too deep.
BadReds(parents) ==
  LET root == MergeDepthRoot(parents)
      kosher == NonBoundedMergeDepthViolatingBlues(parents, root)
  IN  {r \in Reds(parents) : /\ ~ IsAncestorOf(root, r)
                             /\ \A b \in kosher : ~ IsAncestorOf(r, b)}

-----------------------------------------------------------------------------
(* Choosing pruning points.                                                *)

NoMove == [point |-> PruningPoint, candidate |-> candidate]

DeepEnough(score, c) == score - BlueScore(c) >= PruningDepth

\* Mutant: the point moves with the candidate, whatever its finality score.
PointIsCandidate(score, top, low) ==
  LET deep == {c \in Chain(top) : low \in Chain(c) /\ DeepEnough(score, c)}
  IN  IF deep = {} THEN NoMove
      ELSE [candidate |-> Highest(deep), point |-> Highest(deep)]

\* What nextPruningPointAndCandidateByBlockHash finds on the chain from low to top for
\* a block of this blue score: both move along the chain as far as it is deep enough,
\* and the point moves only when the finality score grows.
NextPruningPointAndCandidate(score, top, low) ==
  LET deep == {c \in Chain(top) : low \in Chain(c) /\ DeepEnough(score, c)}
      best == Max({FinalityScore(c) : c \in deep})
  IN  IF deep = {} THEN NoMove
      ELSE [candidate |-> Highest(deep),
            point |-> IF best > FinalityScore(PruningPoint)
                      THEN Lowest({c \in deep : FinalityScore(c) = best})
                      ELSE PruningPoint]

\* The walk starts at the candidate, or at the suggested block when that is higher.
LowHash(suggested) ==
  IF suggested = NoBlock \/ suggested \in Chain(candidate) THEN candidate ELSE suggested

\* A header can name a new pruning point when the node's own is on its chain and the
\* next finality interval is deep enough below it.
MayMovePruningPoint(s, score) ==
  /\ IsInSelectedParentChainOf(PruningPoint, s)
  /\ (FinalityScore(header[s]) + 1) * FinalityInterval + PruningDepth <= score

\* The reachability of the chain below the pruning point is not relied on.
SuggestedLow(s) == IF IsAncestorOf(PruningPoint, header[s]) THEN header[s] ELSE NoBlock

\* The lookup fails, or panics, when its start is not on the chain it walks.
LookupFails(top, suggested) ==
  \/ LowHash(suggested) \notin Chain(top)
  \/ /\ suggested # NoBlock
     /\ suggested \notin Chain(candidate) /\ candidate \notin Chain(suggested)

HeaderLookupFails(parents) ==
  LET s == Highest(parents)
  IN  s # Genesis /\ MayMovePruningPoint(s, ScoreOf(parents)) /\ LookupFails(s, SuggestedLow(s))

\* The pruning point the header of a block with these parents has to name.
ExpectedHeaderPruningPoint(parents) ==
  LET s == Highest(parents)
      score == ScoreOf(parents)
      inherited == header[s]
      next == IF MayMovePruningPoint(s, score)
              THEN NextPruningPointAndCandidate(score, s, LowHash(SuggestedLow(s))).point
              ELSE inherited
      deepPoints == {k \in DOMAIN points : DeepEnough(score, points[k])}
  IN  IF s = Genesis THEN Genesis
      ELSE IF DeepEnough(score, next) THEN next
      ELSE IF deepPoints # {} THEN points[Max(deepPoints)]
      ELSE Genesis

\* UpdatePruningPointByVirtual, from the selected parent of the virtual: the point and
\* the candidate to stage.
TopOfWalk(s) == IF s \in {candidate, Genesis} THEN s ELSE SelectedParent(s)

ByVirtual(s) ==
  IF s = Genesis THEN NoMove
  ELSE NextPruningPointAndCandidate(BlueScore(s), TopOfWalk(s), candidate)

\* The walk needs the candidate on the chain, and the update refuses to skip a finality
\* interval.
ByVirtualFails(s, next) ==
  \/ candidate \notin Chain(TopOfWalk(s))
  \/ FinalityScore(next.point) > FinalityScore(PruningPoint) + 1

\* savePruningPoint: the point and the flag are committed together, and neither is when
\* the update has failed.
SavePruningPoint(next, failed) ==
  LET staged == IF failed THEN NoMove ELSE next
  IN  /\ candidate' = staged.candidate
      /\ points' = IF staged.point = PruningPoint THEN points ELSE Append(points, staged.point)
      /\ updating' = (updating \/ staged.point # PruningPoint)

-----------------------------------------------------------------------------
(* Inserting a block.                                                      *)

\* The pruning point is in the past of a parent.
CheckPruningPointViolation(b) == \E p \in Parents[b] : IsAncestorOf(PruningPoint, p)

\* A parent without a body is in the past of the pruning point.
CheckParentBlockBodiesExist(b) ==
  \A p \in Parents[b] : p \in data \/ IsAncestorOf(p, PruningPoint)

\* The virtual may not leave the chain of its finality point, or of the pruning point
\* when that is higher.
IsViolatingFinality(b) ==
  LET point == FinalityPoint(virtual)
  IN  ~ IsInSelectedParentChainOf(IF IsAncestorOf(point, PruningPoint) THEN PruningPoint
                                  ELSE point, b)

\* What the heap holds below the selected parent s: tips, and parents of the blocks taken
\* from it before.
ParentCandidates(newTips, newDag, disqualified, s) ==
  LET taken == {b \in disqualified : Less(s, b)}
      above(b) == {x \in newDag \ headerOnly : b \in Past(x)}
  IN  {b \in newDag : /\ Less(b, s)
                      /\ \/ b \in newTips
                         \/ above(b) # {} /\ above(b) \subseteq taken}

\* The heap gives the tips from the highest down; a disqualified one makes room for its
\* parents once all their children have: the first block that may be selected is the
\* highest there is.  Of all candidates, those whose merging is not too deep are taken.
PickVirtualParents(newTips, newDag, disqualified) ==
  LET s == Highest(newDag \ disqualified)
      parents == {s} \cup ParentCandidates(newTips, newDag, disqualified, s)
      bad == BadReds(parents)
  IN  {p \in parents : \A r \in bad : ~ IsAncestorOf(r, p)}

\* Resolving the chain up to a new selected tip.  A chain of several unresolved blocks
\* is reversed, down to and including the block it forks from.
Resolve(old, new) ==
  LET pending == Chain(new) \ valid
      linked == IF Cardinality(pending) > 1 THEN pending ELSE {}
      toOld == [diffChild EXCEPT ![old] = new, ![new] = NoBlock]
  IN  IF old = new THEN diffChild
      ELSE [b \in Block |->
              IF \E c \in linked : SelectedParent(c) = b
              THEN CHOOSE c \in linked : SelectedParent(c) = b
              ELSE toOld[b]]

\* validateAndInsertBlock: the checks against the pruning point, the new tips and
\* virtual, and the pruning point moved in the same commit.
ValidateAndInsertBlock(b) ==
  /\ pc = "ready"
  /\ b \notin dag /\ Parents[b] \subseteq dag
  /\ CheckPruningPointViolation(b)
  /\ BadReds(Parents[b]) = {}
  /\ CheckParentBlockBodiesExist(b)
  /\ dag' = dag \cup {b}
  /\ data' = data \cup {b}
  /\ header' = [header EXCEPT ![b] = ExpectedHeaderPruningPoint(Parents[b])]
  /\ roots' = [roots EXCEPT ![b] = [mergeDepthRoot |-> MergeDepthRoot(Parents[b]),
                                    finalityPoint  |-> FinalityPoint(Parents[b])]]
  /\ tips' = (tips \ Parents[b]) \cup {b}
  /\ \E disqualified \in {{x \in dag' : IsViolatingFinality(x)}} :
       virtual' = PickVirtualParents(tips', dag', disqualified)
  /\ \E new \in {Highest(virtual')} : \E next \in {ByVirtual(new)} :
       /\ valid' = valid \cup Chain(new)
       /\ diffChild' = Resolve(Highest(virtual), new)
       /\ SavePruningPoint(next, ByVirtualFails(new, next))
       /\ pc' = IF HeaderLookupFails(Parents[b]) \/ ByVirtualFails(new, next) THEN "failed"
                ELSE IF updating' THEN "utxo" ELSE "ready"
  /\ UNCHANGED <<headerOnly, utxos, cache, starting, torn, crashes, graph, archival>>

-----------------------------------------------------------------------------
(* updatePruningPoint: three commits, the flag deleted by the last.        *)

PreviousPoint == points[Len(points) - 1]

\* Climb the diff children of the two points, the lower one first, until they meet: the
\* diff is made of the stored diffs of the blocks climbed through.
CalculateDiffSucceeds ==
  LET meets[x, y \in Block \cup {NoBlock}] ==
        IF x = y \/ NoBlock \in {x, y} THEN x = y
        ELSE IF Less(x, y) THEN x \in data /\ meets[diffChild[x], y]
        ELSE y \in data /\ meets[x, diffChild[y]]
  IN  meets[PreviousPoint, PruningPoint]

\* The fallback reads the acceptance data of the chain blocks above the previous point.
CalculateDiffUsingAcceptanceDataSucceeds ==
  Chain(PruningPoint) \ Chain(PreviousPoint) \subseteq data

DiffToRemove == PastUTXO(PreviousPoint) \ PastUTXO(PruningPoint)
DiffToAdd == PastUTXO(PruningPoint) \ PastUTXO(PreviousPoint)

\* Mutant: only the additions are written.
WriteAdditions == utxos \cup DiffToAdd

UpdatePruningPointUTXOSet == (utxos \ DiffToRemove) \cup DiffToAdd

\* The diff is computed from what is stored, and written entry by entry.
UpdateUTXOSet ==
  /\ pc = "utxo"
  /\ IF CalculateDiffSucceeds \/ CalculateDiffUsingAcceptanceDataSucceeds
     THEN utxos' = UpdatePruningPointUTXOSet /\ pc' = "delete"
     ELSE utxos' = utxos /\ pc' = "failed"
  /\ UNCHANGED <<dagVars, headerOnly, data, points, candidate, updating,
                 cache, starting, torn, crashes, graph, archival>>

AnticoneFromVirtualPOV(b) == AnticoneIn(b, PastOf(virtual))

IsInPruningFutureOrInVirtualPast(b) ==
  IsAncestorOf(PruningPoint, b) \/ \E v \in virtual : IsAncestorOf(b, v)

PrunedTips == {t \in tips : ~ IsInPruningFutureOrInVirtualPast(t)}

\* Mutant: the windows of the blocks kept are not kept.
KeepWithoutWindows == {PruningPoint} \cup AnticoneFromVirtualPOV(PruningPoint)

CalculateBlocksToKeep ==
  LET S == {PruningPoint} \cup AnticoneFromVirtualPOV(PruningPoint)
  IN  S \cup UNION {BlockWindow(b) : b \in S}

\* Everything in the queue and below it, except below a block pruned before.
DeleteBlocksDownward(queue, keep) ==
  LET visited[b \in dag] ==
        \/ b \in queue
        \/ \E c \in dag : /\ b \in Parents[c]
                         /\ (c \in keep \/ c \notin headerOnly)
                         /\ visited[c]
  IN  {b \in dag : visited[b]} \ keep

DeletedBlocks ==
  DeleteBlocksDownward(PrunedTips \cup Parents[PruningPoint], CalculateBlocksToKeep)

DeletePastBlocks ==
  /\ pc = "delete"
  /\ LET deleted == DeletedBlocks
     IN  /\ headerOnly' = headerOnly \cup deleted
         /\ data' = IF archival THEN data ELSE data \ deleted
  /\ tips' = tips \ PrunedTips
  /\ pc' = "finish"
  /\ UNCHANGED <<dag, virtual, valid, diffChild, header, roots, points, candidate, updating,
                 utxos, cache, starting, torn, crashes, graph, archival>>

FinishUpdatingPruningPointUTXOSet ==
  /\ pc = "finish"
  /\ updating' = FALSE
  /\ torn' = FALSE
  /\ pc' = IF starting THEN "start" ELSE "ready"
  /\ UNCHANGED <<dagVars, headerOnly, data, points, candidate, utxos, cache, starting,
                 crashes, graph, archival>>

-----------------------------------------------------------------------------
(* Stopping and starting.                                                  *)

\* The process stops.  Stopped while the UTXO set is written, any part of it is; it is
\* written only after the diff was calculated.
Crash ==
  /\ pc \notin {"down", "failed"}
  /\ crashes < MaxCrashes
  /\ crashes' = crashes + 1
  /\ IF pc = "utxo" /\ CalculateDiffSucceeds
     THEN \E removed \in SUBSET DiffToRemove, added \in SUBSET DiffToAdd :
            /\ added # {} => removed = DiffToRemove
            /\ utxos' = (utxos \ removed) \cup added
     ELSE utxos' = utxos
  /\ torn' = (torn \/ pc = "finish")
  /\ cache' = [point |-> NoBlock, anticone |-> {}]
  /\ pc' = "down" /\ starting' = FALSE
  /\ UNCHANGED <<dagVars, headerOnly, data, points, candidate, updating, graph, archival>>

\* NewConsensus: an update that had started is completed first.
Start ==
  /\ pc = "down"
  /\ starting' = TRUE
  /\ pc' = IF updating THEN "utxo" ELSE "start"
  /\ UNCHANGED <<dagVars, storeVars, cache, torn, crashes, graph, archival>>

\* It ends by moving the pruning point, in case the virtual had moved without it.
CompleteStart ==
  /\ pc = "start"
  /\ \E s \in {Highest(virtual)} : \E next \in {ByVirtual(s)} :
       /\ SavePruningPoint(next, ByVirtualFails(s, next))
       /\ starting' = FALSE
       /\ pc' = IF ByVirtualFails(s, next) THEN "failed"
                ELSE IF updating' THEN "utxo" ELSE "ready"
  /\ UNCHANGED <<dagVars, headerOnly, data, utxos, cache, torn, crashes, graph, archival>>

-----------------------------------------------------------------------------
(* Serving peers.                                                          *)

CacheIsCurrent == cache.point = PruningPoint

\* The anticone of the pruning point is computed once per pruning point.
PruningPointAndItsAnticone ==
  /\ pc = "ready"
  /\ ~ CacheIsCurrent
  /\ cache' = [point |-> PruningPoint, anticone |-> AnticoneFromVirtualPOV(PruningPoint)]
  /\ UNCHANGED <<dagVars, storeVars, pc, starting, torn, crashes, graph, archival>>

-----------------------------------------------------------------------------

Init ==
  /\ graph = Graph
  /\ dag = {Genesis} /\ headerOnly = {} /\ data = {Genesis}
  /\ tips = {Genesis} /\ virtual = {Genesis} /\ valid = {Genesis}
  /\ diffChild = [b \in Block |-> NoBlock]
  /\ header = [b \in Block |-> NoBlock]
  /\ roots = [b \in Block |-> [mergeDepthRoot |-> VirtualGenesis,
                               finalityPoint  |-> VirtualGenesis]]
  /\ points = <<Genesis>> /\ candidate = Genesis
  /\ updating = FALSE /\ utxos = {}
  /\ cache = [point |-> NoBlock, anticone |-> {}]
  /\ pc = "ready" /\ starting = FALSE /\ torn = FALSE /\ crashes = 0
  /\ archival \in BOOLEAN

Update == UpdateUTXOSet \/ DeletePastBlocks \/ FinishUpdatingPruningPointUTXOSet

Next ==
  \/ \E b \in Block : ValidateAndInsertBlock(b)
  \/ Update
  \/ Crash
  \/ Start
  \/ CompleteStart
  \/ PruningPointAndItsAnticone

-----------------------------------------------------------------------------
(* Properties.                                                             *)

TypeOK ==
  /\ dag \subseteq Block /\ headerOnly \subseteq dag /\ data \subseteq dag
  /\ tips \subseteq dag /\ virtual \subseteq dag /\ valid \subseteq dag
  /\ diffChild \in [Block -> Block \cup {NoBlock}]
  /\ header \in [Block -> Block \cup {NoBlock}]
  /\ roots \in [Block -> [mergeDepthRoot : Block \cup {VirtualGenesis},
                         finalityPoint  : Block \cup {VirtualGenesis}]]
  /\ points \in Seq(dag) /\ points # <<>> /\ candidate \in dag
  /\ updating \in BOOLEAN /\ utxos \subseteq Block
  /\ cache \in [point : Block \cup {NoBlock}, anticone : SUBSET Block]
  /\ pc \in {"ready", "utxo", "delete", "finish", "down", "start", "failed"}
  /\ starting \in BOOLEAN /\ torn \in BOOLEAN /\ archival \in BOOLEAN
  /\ crashes \in 0..MaxCrashes

\* Whenever no update is pending, the UTXO set served to syncing peers is the one the
\* header of the pruning point commits to, whatever crashes interrupted the updates
\* (validateUTXOSetFitsCommitment holds).
UTXOSetFitsCommitment ==
  /\ TypeOK
  /\ ~ updating => utxos = PastUTXO(PruningPoint)

\* The pruning point every header names depends on the DAG alone, never on how far the
\* node that computes it has pruned: the first block of its chain, deep enough below
\* it, whose finality score is above that of its selected parent's pruning point.
HeaderPruningPointIsOfTheDag ==
  \A b \in dag \ {Genesis} :
    LET s == SelectedParent(b)
        next == {c \in Chain(s) : /\ BlueScore(b) - BlueScore(c) >= PruningDepth
                                  /\ FinalityScore(c) > FinalityScore(header[s])}
    IN  header[b] = IF s = Genesis THEN Genesis
                    ELSE IF next = {} THEN header[s] ELSE Lowest(next)

\* The pruning points a node sends are the ones a syncing peer derives from the headers
\* of the selected chain (ArePruningPointsInValidChain): each is named by a header
\* above the next, none is missing, and the first is genesis.  What the headers name is
\* the same for every node.
PruningPointsFormValidChain ==
  LET tip == Highest(dag)
      down[b \in Chain(tip)] ==
        IF b = PruningPoint THEN <<>> ELSE <<header[b]>> \o down[SelectedParent(b)]
      older == [k \in 1..Len(points) - 1 |-> header[points[Len(points) + 1 - k]]]
      named == down[tip] \o older
      expected == SelectSeq([k \in DOMAIN named |->
                               IF k > 1 /\ named[k - 1] = named[k] THEN NoBlock ELSE named[k]],
                            LAMBDA b : b # NoBlock)
  IN  /\ HeaderPruningPointIsOfTheDag
      /\ PruningPoint \in Chain(tip)
      /\ tip # PruningPoint /\ header[tip] = PruningPoint =>
           expected = [k \in DOMAIN points |-> points[Len(points) + 1 - k]]

\* Once an update is complete nothing else keeps its data: neither the past of the
\* pruning point nor a fork that can never be merged.
NothingElseIsKept ==
  pc = "ready" /\ ~ archival /\ Len(points) > 1 =>
    data \subseteq CalculateBlocksToKeep \cup {b \in dag : PruningPoint \in Past(b)}

\* "the pruning point anticone is a closed set": the cached anticone a peer is answered
\* with is the one that would be computed now, however many blocks arrived since.
CachedAnticoneIsCurrent ==
  pc = "ready" /\ CacheIsCurrent => cache.anticone = AnticoneFromVirtualPOV(PruningPoint)

\* An operation returns an error only when the process had stopped between the commit
\* that deletes the old blocks and the one that deletes the flag of updatePruningPoint on
\* a node that is not archival: the update is then repeated from data that is gone.
OnlyTornUpdateFails == pc = "failed" => torn /\ ~ archival

\* Nothing a node still needs is deleted: the pruning point, its future, the part of its
\* anticone the virtual merges and the difficulty windows of those it has to send keep
\* their data, and only a torn update misses any.  Nothing else keeps it, and the anticone
\* it answers with is current.
NeededDataIsKept ==
  LET S == {PruningPoint} \cup AnticoneFromVirtualPOV(PruningPoint)
  IN  /\ OnlyTornUpdateFails /\ NothingElseIsKept /\ CachedAnticoneIsCurrent
      /\ pc = "ready" => /\ {b \in dag : PruningPoint \in Past(b)} \subseteq data
                         /\ \A b \in S : {b} \cup BlockWindow(b) \subseteq data

\* The pruning point never leaves the selected chain of the virtual, and it moves by one
\* finality interval of that chain at a time.
PointsAdvanceOnTheChain ==
  [][points' # points =>
       /\ points' = Append(points, PruningPoint')
       /\ PruningPoint \in Chain(PruningPoint')
       /\ PruningPoint' \in Chain(Highest(virtual'))
       /\ FinalityScore(PruningPoint') = FinalityScore(PruningPoint) + 1]_vars

\* A stopped node comes up again, and an update that has started is completed, unless
\* the update was torn.
UpdateCompletes == [](updating => <>(~ updating \/ pc = "failed"))

\* The next step of an update or of a start, whatever the step does: in these states
\* the only other step is a crash.
Proceeds ==
  /\ pc \in {"utxo", "delete", "finish", "down", "start"}
  /\ pc' \in {"utxo", "delete", "finish", "start", "ready", "failed"}

Spec == Init /\ [][Next]_vars /\ WF_pc(Proceeds)
=============================================================================
