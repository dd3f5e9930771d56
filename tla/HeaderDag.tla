----------------------------- MODULE HeaderDag ------------------------------
(***************************************************************************)
(* Inserting headers: the block processor's header path, with the managers *)
(* it calls composed as one atomic commit.  Each header gets GHOSTDAG data *)
(* and reachability data, is checked against the merge limits, may become  *)
(* the headers selected tip (the selected chain index follows it), and may *)
(* move the reindex root.  The pruning point stays at genesis.             *)
(***************************************************************************)
EXTENDS Ghostdag

CONSTANTS
  Arrival,            \* the hashes of the headers, in the order they arrive
  MergeSetSizeLimit,
  MergeDepth,
  FinalityDepth

ASSUME HeaderDagAssumption ==
  /\ MergeSetSizeLimit \in Nat \ {0}
  /\ MergeDepth \in Nat \ {0}
  /\ FinalityDepth \in Nat \ {0}

VARIABLES
  h,        \* the committed stores:
            \*   parents, data: block relations and GHOSTDAG data, per block;
            \*   reach: the reachability store;  tip: the headers selected tip;
            \*   byIndex, byHash, highest: the headers selected chain store;
            \*   mergeDepthRoot, finalityPoint: per block
  failed    \* an insertion returned an error that is not a rule error

vars == <<h, failed>>

PruningPoint == Genesis

Known == DOMAIN h.data \ {VirtualGenesis}

With(f, block, value) ==
  [b \in DOMAIN f \cup {block} |-> IF b = block THEN value ELSE f[b]]

-----------------------------------------------------------------------------
(* Start-up: the virtual genesis, then genesis with trusted data.          *)

EmptyData(selectedParent) ==
  [blueScore |-> 0, blueWork |-> 0, selectedParent |-> selectedParent,
   mergeSetBlues |-> <<>>, mergeSetReds |-> <<>>,
   bluesAnticoneSizes |-> [b \in {} |-> 0]]

InitStores ==
  [parents |-> With([b \in {VirtualGenesis} |-> {}], Genesis, {VirtualGenesis}),
   data    |-> With([b \in {VirtualGenesis} |-> EmptyData(NoBlock)],
                    Genesis, EmptyData(VirtualGenesis)),
   reach   |-> AddBlock(EmptyReachability, Genesis, VirtualGenesis, <<>>),
   tip     |-> Genesis,
   byIndex |-> [k \in {0} |-> Genesis],
   byHash  |-> [b \in {Genesis} |-> 0],
   highest |-> 0,
   mergeDepthRoot |-> [b \in {Genesis} |-> VirtualGenesis],
   finalityPoint  |-> [b \in {Genesis} |-> VirtualGenesis]]

-----------------------------------------------------------------------------
(* The headers selected tip and the index of its chain.                    *)

SelectedChain(data, block) ==
  LET down[b \in DOMAIN data] ==
        IF b = Genesis THEN <<b>> ELSE <<b>> \o down[data[b].selectedParent]
  IN  down[block]

CalculateChainPath(m, from, to) ==
  LET old == SelectedChain(m.data, from)
      new == SelectedChain(m.data, to)
      fork == SelectInSeq(old, LAMBDA b : IsReachabilityTreeAncestorOf(m.reach, b, to))
  IN  [removed |-> SubSeq(old, 1, fork - 1),
       added |-> Reverse(SubSeq(new, 1, SelectInSeq(new, LAMBDA b : b = old[fork]) - 1))]

\* Mutant: the index entries of the removed blocks are overwritten, never deleted.
StageAddedOnly(m, path) ==
  LET first == m.highest - Len(path.removed) + 1
      addedAt == [k \in first..first + Len(path.added) - 1 |-> path.added[k - first + 1]]
  IN  [m EXCEPT
         !.byIndex = [k \in DOMAIN @ \cup DOMAIN addedAt |->
                        IF k \in DOMAIN addedAt THEN addedAt[k] ELSE @[k]],
         !.byHash = [b \in (DOMAIN @ \ ToSet(path.removed)) \cup ToSet(path.added) |->
                       IF b \in ToSet(path.added)
                       THEN CHOOSE k \in DOMAIN addedAt : addedAt[k] = b
                       ELSE @[b]],
         !.highest = Max(DOMAIN addedAt \cup {0})]

\* Stage and Commit of the chain store: the removed entries are deleted, then the
\* added ones written after what is left.
StageSelectedChain(m, path) ==
  LET first == m.highest - Len(path.removed) + 1
      addedAt == [k \in first..first + Len(path.added) - 1 |-> path.added[k - first + 1]]
      gone == {m.byHash[b] : b \in ToSet(path.removed)}
      kept == [k \in DOMAIN m.byIndex \ gone |-> m.byIndex[k]]
      keptHash == [b \in DOMAIN m.byHash \ ToSet(path.removed) |-> m.byHash[b]]
  IN  [m EXCEPT
         !.byIndex = [k \in DOMAIN kept \cup DOMAIN addedAt |->
                        IF k \in DOMAIN addedAt THEN addedAt[k] ELSE kept[k]],
         !.byHash = [b \in DOMAIN keptHash \cup ToSet(path.added) |->
                       IF b \in ToSet(path.added)
                       THEN CHOOSE k \in DOMAIN addedAt : addedAt[k] = b
                       ELSE keptHash[b]],
         !.highest = Max(DOMAIN addedAt \cup {0})]

AddHeaderTip(m, block) ==
  LET newTip == ChooseSelectedParent(m.data, {m.tip, block})
  IN  IF newTip = m.tip THEN m
      ELSE [StageSelectedChain(m, CalculateChainPath(m, m.tip, newTip)) EXCEPT !.tip = newTip]

\* Blocks in the anticone of the pruning point never become the tip.
UpdateHeadersSelectedTip(m, block) ==
  IF IsReachabilityTreeAncestorOf(m.reach, PruningPoint, block)
  THEN AddHeaderTip(m, block) ELSE m

UpdateReachabilityReindexRoot(m, oldTip) ==
  LET blueScore == [b \in DOMAIN m.data |-> m.data[b].blueScore]
  IN  IF m.tip = oldTip THEN m
      ELSE [m EXCEPT !.reach = UpdateReindexRoot(@, blueScore, m.tip)]

\* What follows a header that passed validation.
SelectTip(m, block) ==
  IF m.reach.err THEN m
  ELSE UpdateReachabilityReindexRoot(UpdateHeadersSelectedTip(m, block), m.tip)

-----------------------------------------------------------------------------
(* Merge depth and finality: both walk up from the point of the selected   *)
(* parent, which the store remembers.                                      *)

\* The highest chain block of block with a blue score below the block's own minus
\* depth, found by continuing from the selected parent's point.
DepthPoint(m, block, depth, store) ==
  LET data == m.data[block]
      sp == data.selectedParent
      requiredBlueScore == data.blueScore - depth
      start == IF store[sp] = VirtualGenesis THEN PruningPoint ELSE store[sp]
      chain == ChainTowards(m.reach, start, block)
      next == Min({k \in 2..Len(chain) : m.data[chain[k]].blueScore >= requiredBlueScore})
  IN  IF data.blueScore < depth THEN Genesis
      ELSE IF \/ data.blueScore < m.data[PruningPoint].blueScore + depth
              \/ ~ IsReachabilityTreeAncestorOf(m.reach, PruningPoint, block)
      THEN VirtualGenesis
      ELSE IF sp = Genesis THEN Genesis
      ELSE chain[next - 1]

\* Mutant: a point may have the required blue score itself.
MergeDepthRootOffByOne(m, block) == DepthPoint(m, block, MergeDepth - 1, m.mergeDepthRoot)

CalculateMergeDepthRoot(m, block) == DepthPoint(m, block, MergeDepth, m.mergeDepthRoot)

CalculateFinalityPoint(m, block) == DepthPoint(m, block, FinalityDepth, m.finalityPoint)

\* A red is fine if it has the merge depth root in its past, or is in the past of a
\* merged blue that has the root in its selected chain.
CheckBoundedMergeDepth(m, block) ==
  LET root == m.mergeDepthRoot[block]
      nonViolatingBlues == {b \in ToSet(m.data[block].mergeSetBlues) :
                              IsReachabilityTreeAncestorOf(m.reach, root, b)}
  IN  \A red \in ToSet(m.data[block].mergeSetReds) :
        \/ IsDAGAncestorOf(m.reach, root, red)
        \/ \E b \in nonViolatingBlues : IsDAGAncestorOf(m.reach, red, b)

-----------------------------------------------------------------------------
(* Inserting a header.                                                     *)

CheckParentsIncest(m, blockParents) ==
  \A a, b \in blockParents : a # b => ~ IsDAGAncestorOf(m.reach, a, b)

StageGHOSTDAG(m, block, blockParents) ==
  [m EXCEPT !.data = With(@, block, GHOSTDAG(m.data, m.reach, m.parents, blockParents)),
            !.parents = With(@, block, blockParents)]

\* Mutant: only the blues of the merge set learn of the block.
StageBlueReachability(m, block) ==
  LET data == m.data[block]
  IN  [m EXCEPT !.reach = AddBlock(@, block, data.selectedParent, data.mergeSetBlues)]

StageReachability(m, block) ==
  LET data == m.data[block]
  IN  [m EXCEPT !.reach = AddBlock(@, block, data.selectedParent,
                                   data.mergeSetBlues \o data.mergeSetReds)]

StageDepthPoints(m, block) ==
  [m EXCEPT !.mergeDepthRoot = With(@, block, CalculateMergeDepthRoot(m, block)),
            !.finalityPoint = With(@, block, CalculateFinalityPoint(m, block))]

\* "found blue anticone size larger than k", or the block is in no blue set.
GHOSTDAGFails(m, block) ==
  \E b \in DOMAIN m.data[block].bluesAnticoneSizes :
     m.data[block].bluesAnticoneSizes[b] > K

CheckMergeSizeLimit(m, block) ==
  Len(m.data[block].mergeSetBlues) + Len(m.data[block].mergeSetReds) <= MergeSetSizeLimit

\* The depth points come last, unless something before them failed.
StageDepthPointsOrFail(m, block) ==
  IF m.reach.err \/ GHOSTDAGFails(m, block)
  THEN [m EXCEPT !.reach.err = TRUE]
  ELSE StageDepthPoints(m, block)

\* The next header arrives with any parents the rules admit.  An error on the way
\* discards everything staged.
InsertHeader(block, blockParents) ==
  /\ ~ failed
  /\ block \notin Known
  /\ CheckParentsIncest(h, blockParents)
  /\ \E coloured \in {StageGHOSTDAG(h, block, blockParents)} :
       /\ CheckMergeSizeLimit(coloured, block)
       /\ \E valid \in {StageDepthPointsOrFail(StageReachability(coloured, block), block)} :
            /\ ~ valid.reach.err => CheckBoundedMergeDepth(valid, block)
            /\ \E final \in {SelectTip(valid, block)} :
                 /\ failed' = final.reach.err
                 /\ h' = IF final.reach.err THEN h ELSE final

Init == h = InitStores /\ failed = FALSE

Next ==
  \E blockParents \in SUBSET Known \ {{}} :
     /\ Cardinality(Known) <= Len(Arrival)
     /\ InsertHeader(Arrival[Cardinality(Known)], blockParents)

Spec == Init /\ [][Next]_vars

-----------------------------------------------------------------------------
(* The reference: ancestry by following the parents.                       *)

Past ==
  LET past[b \in DOMAIN h.parents] ==
        h.parents[b] \cup UNION {past[p] : p \in h.parents[b]}
  IN  [b \in DOMAIN h.parents |-> past[b]]

\* The blue set of block: the blues of its merge set and of its chain's.
BlueSet(block) ==
  UNION {ToSet(h.data[c].mergeSetBlues) : c \in ToSet(SelectedChain(h.data, block))}

-----------------------------------------------------------------------------
(* Properties.                                                             *)

\* Every store has an entry for every inserted header, and the intervals are words.
TypeOK ==
  /\ failed \in BOOLEAN
  /\ Known \subseteq ToSet(Arrival) \cup {Genesis}
  /\ h.tip \in Known /\ h.reach.root \in DOMAIN h.data
  /\ {DOMAIN h.parents, DOMAIN h.reach.interval, DOMAIN h.reach.parent,
      DOMAIN h.reach.children, DOMAIN h.reach.future} = {DOMAIN h.data}
  /\ DOMAIN h.mergeDepthRoot = Known /\ DOMAIN h.finalityPoint = Known
  /\ \A b \in DOMAIN h.data : h.reach.interval[b] \in [start : 0..Word - 1, end : 0..Word - 1]

\* Reindexing always finds room and GHOSTDAG never meets a blue anticone above K: the
\* "should never happen" errors of reindexIntervals, the interval splits and
\* checkBlueCandidate do not happen while the words are wide enough for the slacks, and
\* what is stored stays within its types.
NeverFails == ~ failed /\ TypeOK

\* Every interval is non-empty, strictly inside the parent's and apart from its
\* siblings', in child order.  This is what addChild and every reindexing path must
\* leave behind, and what validateIntervals checks in the tests.
IntervalsNested ==
  \A n \in DOMAIN h.data :
    LET kids == h.reach.children[n]
        own == h.reach.interval[n]
        of(k) == h.reach.interval[kids[k]]
    IN  /\ own.start <= own.end
        /\ \A k \in DOMAIN kids : own.start <= of(k).start /\ of(k).end < own.end
        /\ \A k \in 2..Len(kids) : of(k - 1).end < of(k).start

\* The binary search over a covering set relies on its order: its members are ordered
\* by interval and none is a tree ancestor of another, also after intervals moved.
CoveringSetsOrdered ==
  \A n \in DOMAIN h.data :
    LET set == h.reach.future[n]
    IN  \A k \in 2..Len(set) :
          h.reach.interval[set[k - 1]].end < h.reach.interval[set[k]].start

\* IsDAGAncestorOf answers true exactly for a block and its past, whatever reindexing
\* the tree and the covering sets have been through, and reindexing leaves both in order.
ReachabilityCorrect ==
  LET past == Past
  IN  /\ IntervalsNested /\ CoveringSetsOrdered
      /\ \A a, b \in DOMAIN h.data :
           IsDAGAncestorOf(h.reach, a, b) <=> (a = b \/ a \in past[b])

\* The merge set is the past of the block minus the past of its selected parent, each
\* block once, and GetSortedMergeSet lists it parents first.
MergeSetsExact ==
  LET past == Past
  IN  \A b \in Known \ {Genesis} :
        LET sp == h.data[b].selectedParent
            sorted == GetSortedMergeSet(h.data, b)
        IN  /\ ToSet(sorted) = past[b] \ past[sp]
            /\ Len(sorted) = Cardinality(ToSet(sorted))
            /\ \A i, j \in DOMAIN sorted : sorted[i] \in past[sorted[j]] => i < j

\* The blue set of every block is a K-cluster, the anticone sizes that GHOSTDAG keeps
\* incrementally (and only for the blues they changed for) are the true ones, and the
\* blue score is the size of the blue set.  The merge sets they are taken from are exact.
BlueSetsAreKClusters ==
  LET past == Past
  IN  /\ MergeSetsExact
      /\ \A b \in Known :
           LET blues == BlueSet(b)
               anticone(x) == {y \in blues : y # x /\ x \notin past[y] /\ y \notin past[x]}
           IN  /\ h.data[b].blueScore = Cardinality(blues)
               /\ \A x \in blues :
                     /\ Cardinality(anticone(x)) <= K
                     /\ BlueAnticoneSize(h.data, x, h.data[b]) = Cardinality(anticone(x))

\* The headers selected tip has the most blue work of all headers, and the chain store
\* holds exactly its selected chain, by index and by hash, also after a reorganisation
\* to a shorter chain.
SelectedChainIndexed ==
  LET chain == Reverse(SelectedChain(h.data, h.tip))
  IN  /\ \A b \in Known \ {h.tip} : Less(h.data, b, h.tip)
      /\ h.highest = Len(chain) - 1
      /\ h.byIndex = [k \in 0..Len(chain) - 1 |-> chain[k + 1]]
      /\ h.byHash = [b \in ToSet(chain) |-> SelectInSeq(chain, LAMBDA c : c = b) - 1]

\* "the one having the highest blue score lower then" the required one: the points
\* found by continuing from the selected parent's are those of the definition.
DepthPointsExact ==
  \A b \in Known \ {Genesis} :
    LET below == Tail(SelectedChain(h.data, b))
        point(depth) ==
          LET at == SelectInSeq(below, LAMBDA c : h.data[c].blueScore < h.data[b].blueScore - depth)
          IN  IF at = 0 THEN Genesis ELSE below[at]
    IN  /\ h.mergeDepthRoot[b] = point(MergeDepth)
        /\ h.finalityPoint[b] = point(FinalityDepth)
=============================================================================
