---------------------------- MODULE Reachability ----------------------------
(***************************************************************************)
(* The reachability manager: a tree over the selected-parent relation in   *)
(* which every block owns an interval inside its parent's, and a future    *)
(* covering set per block for the ancestry that is not in the tree.        *)
(* "Is A in the past of B" is then two interval comparisons and a binary   *)
(* search.  The operators map a store r to the store after the call:       *)
(*   r.interval, r.parent, r.children, r.future : one entry per block;     *)
(*   r.root : the reindex root;  r.err : some call returned an error.      *)
(* Interval arithmetic is uint64 arithmetic: modulo Word.                  *)
(***************************************************************************)
EXTENDS Integers, Sequences, FiniteSets, SequencesExt, FiniteSetsExt

CONSTANTS
  VirtualGenesis,   \* the root of the tree
  NoBlock,          \* the nil hash
  Word,             \* 2^64 in the code
  ReindexSlack,     \* defaultReindexSlack
  ReindexWindow     \* defaultReindexWindow

ASSUME ReachabilityAssumption ==
  Word \in Nat \ {0} /\ ReindexSlack \in Nat \ {0} /\ ReindexWindow \in Nat \ {0}

-----------------------------------------------------------------------------
(* Intervals.                                                              *)

NewInterval(start, end) == [start |-> start % Word, end |-> end % Word]

IntervalSize(i) == (i.end - i.start + 1) % Word

IntervalContains(i, j) == i.start <= j.start /\ j.end <= i.end

\* The left half, rounded up, is what a new child gets.
LeftHalf(i) == NewInterval(i.start, i.start + (IntervalSize(i) + 1) \div 2 - 1)

SumSeq(sizes) == FoldLeft(LAMBDA sum, size : sum + size, 0, sizes)

SplitExact(i, sizes) ==
  [k \in DOMAIN sizes |->
     LET start == i.start + SumSeq(SubSeq(sizes, 1, k - 1))
     IN  NewInterval(start, start + sizes[k] - 1)]

\* Every part gets its size, and a share of the rest that grows exponentially
\* with the size; shares are rounded to nearest and the last part takes what is
\* left.
SplitWithExponentialBias(i, sizes) ==
  LET n == Len(sizes)
      totalBias == IntervalSize(i) - SumSeq(sizes)
      weights == [k \in 1..n |-> 2 ^ sizes[k]]
      sum == SumSeq(weights)
      rounded(k) == (2 * totalBias * weights[k] + sum) \div (2 * sum)
      given[k \in 0..n] ==
        IF k = 0 THEN 0
        ELSE IF k = n THEN totalBias
        ELSE Min({given[k - 1] + rounded(k), totalBias})
  IN  SplitExact(i, [k \in 1..n |-> sizes[k] + given[k] - given[k - 1]])

-----------------------------------------------------------------------------
(* Reading the tree.                                                       *)

IsReachabilityTreeAncestorOf(r, node, other) ==
  IntervalContains(r.interval[node], r.interval[other])

IsStrictAncestorOf(r, node, other) ==
  node # other /\ IsReachabilityTreeAncestorOf(r, node, other)

ChildAllocationRange(r, node) ==
  NewInterval(r.interval[node].start, r.interval[node].end - 1)

RemainingIntervalBefore(r, node) ==
  LET range == ChildAllocationRange(r, node)
      kids == r.children[node]
  IN  IF kids = <<>> THEN range
      ELSE NewInterval(range.start, r.interval[Head(kids)].start - 1)

RemainingIntervalAfter(r, node) ==
  LET range == ChildAllocationRange(r, node)
      kids == r.children[node]
  IN  IF kids = <<>> THEN range
      ELSE NewInterval(r.interval[Last(kids)].end + 1, range.end)

\* The binary search for the last member of an interval-ordered sequence that
\* starts no later than node ends; 0 when there is none.
FindAncestorIndexOfNode(r, tns, node) ==
  Cardinality({k \in DOMAIN tns : ~ r.interval[node].end < r.interval[tns[k]].start})

\* The child of ancestor towards descendant; NoBlock stands for the error the code
\* returns when the search finds none.
FindNextAncestor(r, descendant, ancestor) ==
  LET index == FindAncestorIndexOfNode(r, r.children[ancestor], descendant)
  IN  IF ancestor = descendant \/ index = 0 THEN NoBlock
      ELSE r.children[ancestor][index]

FutureCoveringSetHasAncestorOf(r, this, other) ==
  LET index == FindAncestorIndexOfNode(r, r.future[this], other)
  IN  index # 0 /\ IsReachabilityTreeAncestorOf(r, r.future[this][index], other)

IsDAGAncestorOf(r, a, b) ==
  \/ IsReachabilityTreeAncestorOf(r, a, b)
  \/ FutureCoveringSetHasAncestorOf(r, a, b)

\* node, its tree parent, ... up to the virtual genesis.
TreeAncestors(r, node) ==
  LET up[n \in DOMAIN r.parent] ==
        IF n = VirtualGenesis THEN <<n>> ELSE <<n>> \o up[r.parent[n]]
  IN  up[node]

FindCommonAncestor(r, node, root) ==
  LET up == TreeAncestors(r, node)
  IN  up[Min({k \in DOMAIN up : IsReachabilityTreeAncestorOf(r, up[k], root)})]

Subtree(r, node) == {n \in DOMAIN r.parent : node \in ToSet(TreeAncestors(r, n))}

CountSubtrees(r, node) == Cardinality(Subtree(r, node))

ChildrenSizes(r, nodes) == [k \in DOMAIN nodes |-> CountSubtrees(r, nodes[k])]

\* node, the next block towards target, ... up to target.
ChainTowards(r, node, target) ==
  LET up[n \in DOMAIN r.parent \cup {NoBlock}] ==
        IF n \in {target, NoBlock} THEN <<n>>
        ELSE <<n>> \o up[FindNextAncestor(r, target, n)]
  IN  up[node]

-----------------------------------------------------------------------------
(* Reindexing.                                                             *)

StageInterval(r, node, interval) == [r EXCEPT !.interval[node] = interval]

\* Re-splits the intervals of everything under node, top down, from node's own.
PropagateInterval(r, node) ==
  LET under == Subtree(r, node)
      kids(n) == r.children[n]
      range(i) == NewInterval(i.start, i.end - 1)
      new[n \in under] ==
        IF n = node THEN r.interval[n]
        ELSE LET p == r.parent[n]
                 i == new[p]
             IN  SplitWithExponentialBias(range(i), ChildrenSizes(r, kids(p)))
                   [CHOOSE k \in DOMAIN kids(p) : kids(p)[k] = n]
      fits(n) == SumSeq(ChildrenSizes(r, kids(n))) <= IntervalSize(range(new[n]))
  IN  [r EXCEPT !.interval = [n \in DOMAIN @ |-> IF n \in under THEN new[n] ELSE @[n]],
                !.err = @ \/ \E n \in under : kids(n) # <<>> /\ ~ fits(n)]

\* Space is reclaimed on one side of the chain that leads to the reindex root:
\* "before" it moves interval bounds up, "after" it moves them down.
RemainingSlack(r, side, node) ==
  IntervalSize(IF side = "before" THEN RemainingIntervalBefore(r, node)
                                  ELSE RemainingIntervalAfter(r, node))

\* A chain block gives up offset on that side.
Recede(side, i, offset) ==
  IF side = "before" THEN NewInterval(i.start + offset, i.end)
                     ELSE NewInterval(i.start, i.end - offset)

\* A sibling on the way moves by offset.
Shift(side, i, offset) ==
  IF side = "before" THEN NewInterval(i.start + offset, i.end + offset)
                     ELSE NewInterval(i.start - offset, i.end - offset)

\* The block the space is for grows by offset.
Extend(side, i, offset) ==
  IF side = "before" THEN NewInterval(i.start, i.end + offset)
                     ELSE NewInterval(i.start - offset, i.end)

SiblingsBefore(r, node) ==
  LET kids == r.children[r.parent[node]]
  IN  SubSeq(kids, 1, SelectInSeq(kids, LAMBDA c : c = node) - 1)

SiblingsAfter(r, node) ==
  LET kids == r.children[r.parent[node]]
  IN  SubSeq(kids, SelectInSeq(kids, LAMBDA c : c = node) + 1, Len(kids))

\* The siblings on that side, nearest first, up to allocationNode if it is one.
OffsetSiblings(r, side, allocationNode, current, offset) ==
  LET siblings == IF side = "before" THEN Reverse(SiblingsBefore(r, current))
                                     ELSE SiblingsAfter(r, current)
      found == SelectInSeq(siblings, LAMBDA c : c = allocationNode)
      Move(q, c) ==
        PropagateInterval(
          StageInterval(q, c, IF c = allocationNode
                              THEN Extend(side, q.interval[c], offset)
                              ELSE Shift(side, q.interval[c], offset)), c)
  IN  FoldLeft(Move, r, SubSeq(siblings, 1, IF found = 0 THEN Len(siblings) ELSE found))

\* Walks from chosenChild towards the reindex root until the slack met on the way
\* covers the allocation (the root gives whatever is missing, and restores the
\* chain's slack), then back down, passing the space on to allocationNode.
ReclaimInterval(r, side, allocationNode, chosenChild, requiredAllocation) ==
  LET path == ChainTowards(r, chosenChild, r.root)
      slack == [k \in DOMAIN path |-> RemainingSlack(r, side, path[k])]
      slackSum(k) == SumSeq(SubSeq(slack, 1, k)) % Word
      stop == Min({k \in DOMAIN path :
                     path[k] = r.root \/ slackSum(k) >= requiredAllocation})
      top == path[stop]
      atRoot == top = r.root
      offset == IF atRoot
                THEN requiredAllocation + ReindexSlack * (stop - 1) - slackSum(stop - 1)
                ELSE slack[stop] - (slackSum(stop) - requiredAllocation)
      receded == StageInterval(r, top, Recede(side, r.interval[top], offset))
      settled == IF atRoot THEN PropagateInterval(receded, top) ELSE receded
      pathSlackAlloc == IF atRoot THEN ReindexSlack ELSE 0
      StepDown(q, node) ==
        LET rest == RemainingSlack(q, side, node) - pathSlackAlloc
        IN  OffsetSiblings(StageInterval(q, node, Recede(side, q.interval[node], rest)),
                           side, allocationNode, node, rest)
  IN  FoldLeft(StepDown, OffsetSiblings(settled, side, allocationNode, top, offset),
               Reverse(SubSeq(path, 1, stop - 1)))

ReindexIntervalsEarlierThanRoot(r, allocationNode, requiredAllocation) ==
  LET chosenChild == FindNextAncestor(r, r.root, r.parent[allocationNode])
      side == IF r.interval[allocationNode].start < r.interval[chosenChild].start
              THEN "before" ELSE "after"
  IN  ReclaimInterval(r, side, allocationNode, chosenChild, requiredAllocation)

\* Mutant: the parent's interval is re-split without asking whether it is wide enough.
ReindexParent(r, newChild) == PropagateInterval(r, r.parent[newChild])

\* Climbs from the new child to the first block with enough space, and re-splits
\* from there, unless it gets below the reindex root first.
ReindexIntervals(r, newChild) ==
  LET up == TreeAncestors(r, newChild)
      enough(n) == IntervalSize(r.interval[n]) >= CountSubtrees(r, n)
      stuck(n) == n \in {VirtualGenesis, r.root}
      belowRoot(n) == IsStrictAncestorOf(r, r.parent[n], r.root)
      at == up[Min({k \in DOMAIN up : enough(up[k]) \/ stuck(up[k]) \/ belowRoot(up[k])})]
  IN  IF enough(at) THEN PropagateInterval(r, at)
      ELSE IF stuck(at) THEN [r EXCEPT !.err = TRUE]
      ELSE ReindexIntervalsEarlierThanRoot(r, at, CountSubtrees(r, at))

-----------------------------------------------------------------------------
(* Adding a block.                                                         *)

EmptyReachability ==
  [interval |-> [n \in {VirtualGenesis} |-> NewInterval(1, Word - 2)],
   parent   |-> [n \in {VirtualGenesis} |-> NoBlock],
   children |-> [n \in {VirtualGenesis} |-> <<>>],
   future   |-> [n \in {VirtualGenesis} |-> <<>>],
   root     |-> VirtualGenesis,
   err      |-> FALSE]

\* The child takes half of what is left after its siblings; when nothing is left it
\* starts empty and the tree is reindexed around it.
AddChild(r, node, child) ==
  LET remaining == RemainingIntervalAfter(r, node)
      full == IntervalSize(remaining) = 0
      with(f, v) == [n \in DOMAIN f \cup {child} |-> IF n = child THEN v ELSE f[n]]
      linked == [r EXCEPT !.interval = with(@, IF full THEN remaining ELSE LeftHalf(remaining)),
                          !.parent = with(@, node),
                          !.children = with([@ EXCEPT ![node] = Append(@, child)], <<>>),
                          !.future = with(@, <<>>)]
  IN  IF full THEN ReindexIntervals(linked, child) ELSE linked

\* Keeps node's covering set ordered by interval and free of tree-related pairs.
InsertToFutureCoveringSet(r, node, futureNode) ==
  LET set == r.future[node]
      index == FindAncestorIndexOfNode(r, set, futureNode)
      candidate == set[index]
  IN  IF index = 0
      THEN [r EXCEPT !.future[node] = <<futureNode>> \o set]
      ELSE IF IsReachabilityTreeAncestorOf(r, candidate, futureNode)
      THEN r
      ELSE IF IsReachabilityTreeAncestorOf(r, futureNode, candidate)
      THEN [r EXCEPT !.future[node][index] = futureNode]
      ELSE [r EXCEPT !.future[node] = InsertAt(set, index + 1, futureNode)]

AddBlock(r, block, selectedParent, mergeSet) ==
  FoldLeft(LAMBDA q, merged : InsertToFutureCoveringSet(q, merged, block),
           AddChild(r, selectedParent, block), mergeSet)

-----------------------------------------------------------------------------
(* Moving the reindex root towards the selected tip.                       *)

TightenIntervals(r, interval, siblings) ==
  LET parts == SplitExact(interval, ChildrenSizes(r, siblings))
  IN  FoldLeft(LAMBDA q, k : PropagateInterval(StageInterval(q, siblings[k], parts[k]),
                                               siblings[k]),
               r, [k \in DOMAIN siblings |-> k])

\* The children of node beside chosenChild shrink to their sizes, next to a slack
\* at either end, and chosenChild takes the space between them.
ConcentrateInterval(r, node, chosenChild, isFinalReindexRoot) ==
  LET before == SiblingsBefore(r, chosenChild)
      after == SiblingsAfter(r, chosenChild)
      sumBefore == SumSeq(ChildrenSizes(r, before))
      sumAfter == SumSeq(ChildrenSizes(r, after))
      low == r.interval[node].start + ReindexSlack
      high == r.interval[node].end - ReindexSlack - 1
      tightened == TightenIntervals(
                     TightenIntervals(r, NewInterval(low, low + sumBefore - 1), before),
                     NewInterval(high - sumAfter + 1, high), after)
      chosen == NewInterval(low + sumBefore, high - sumAfter)
      inner == NewInterval(chosen.start + ReindexSlack, chosen.end - ReindexSlack)
      propagated ==
        IF isFinalReindexRoot /\ ~ IntervalContains(chosen, r.interval[chosenChild])
        THEN PropagateInterval(StageInterval(tightened, chosenChild, inner), chosenChild)
        ELSE tightened
  IN  StageInterval(propagated, chosenChild, chosen)

\* Where concentration starts: the root itself or, after a reorg that is ahead of it
\* by reindexSlack, the fork point; NoBlock when the root is to stay.
ReindexRootAncestor(r, blueScore, selectedTip) ==
  IF IsReachabilityTreeAncestorOf(r, r.root, selectedTip) THEN r.root
  ELSE IF blueScore[selectedTip] < blueScore[r.root] + ReindexSlack THEN NoBlock
  ELSE FindCommonAncestor(r, selectedTip, r.root)

\* The path from that ancestor to the new root: as far as the blocks are at least
\* reindexWindow below the tip.
PathToNextReindexRoot(r, blueScore, selectedTip, ancestor) ==
  LET chain == ChainTowards(r, ancestor, selectedTip)
      near == {k \in 2..Len(chain) :
                 blueScore[selectedTip] - blueScore[chain[k]] < ReindexWindow}
  IN  SubSeq(chain, 1, Min(near) - 1)

UpdateReindexRoot(r, blueScore, selectedTip) ==
  LET ancestor == ReindexRootAncestor(r, blueScore, selectedTip)
      path == PathToNextReindexRoot(r, blueScore, selectedTip, ancestor)
      Concentrate(q, k) == ConcentrateInterval(q, path[k - 1], path[k], k = Len(path))
  IN  IF ancestor = NoBlock \/ Last(path) = r.root THEN r
      ELSE [FoldLeft(Concentrate, r, [k \in 1..Len(path) - 1 |-> k + 1])
              EXCEPT !.root = Last(path)]
=============================================================================
