------------------------------ MODULE Ghostdag ------------------------------
(***************************************************************************)
(* GHOSTDAG: from a block's parents, its selected parent, its merge set    *)
(* coloured blue or red, and its blue score and blue work.  d is the store *)
(* of the data computed so far, parents the block relations, r the         *)
(* reachability store that answers the ancestry queries.  Blocks are       *)
(* numbers, compared like the hashes they stand for.                       *)
(***************************************************************************)
EXTENDS Reachability

CONSTANTS
  Genesis,
  K,      \* the bound on the blue anticone of a blue block
  Work    \* Work[b]: the work of block b's own header (CalcWork)

ASSUME GhostdagAssumption == K \in Nat

\* Less: by blue work, ties broken by hash.
Less(d, a, b) ==
  \/ d[a].blueWork < d[b].blueWork
  \/ d[a].blueWork = d[b].blueWork /\ a < b

ChooseSelectedParent(d, blocks) ==
  CHOOSE b \in blocks : \A a \in blocks \ {b} : Less(d, a, b)

SortMergeSet(d, S) ==
  [k \in 1..Cardinality(S) |->
     CHOOSE b \in S : Cardinality({a \in S : Less(d, a, b)}) = k - 1]

\* The parents other than the selected one and, below them, whatever is not in the
\* past of the selected parent.
MergeSetWithoutSelectedParent(d, r, parents, selectedParent, blockParents) ==
  LET grow(S) == S \cup {p \in UNION {parents[b] : b \in S} :
                           ~ IsDAGAncestorOf(r, p, selectedParent)}
      n == Cardinality(DOMAIN parents)
      queued[k \in 0..n] ==
        IF k = 0 THEN blockParents \ {selectedParent}
        ELSE LET S == queued[k - 1] IN grow(S)
  IN  SortMergeSet(d, queued[n])

\* The data of a block in the making and of its chain below, down to genesis.
ContextChain(d, new) ==
  LET down[b \in DOMAIN d] ==
        IF b \in {Genesis, VirtualGenesis} THEN <<>>
        ELSE <<d[b]>> \o down[d[b].selectedParent]
  IN  <<new>> \o down[new.selectedParent]

\* The size recorded by the highest chain block that knows the blue; K + 1, which the
\* caller takes for an error, when none does.
BlueAnticoneSize(d, block, new) ==
  LET chain == ContextChain(d, new)
      at == SelectInSeq(chain, LAMBDA c : block \in DOMAIN c.bluesAnticoneSizes)
  IN  IF at = 0 THEN K + 1 ELSE chain[at].bluesAnticoneSizes[block]

\* Mutant: the walk stops one chain block early.
BluesInAnticoneShortWalk(d, r, new, candidate) ==
  LET chain == ContextChain(d, new)
      stop == SelectInSeq(chain, LAMBDA c : IsDAGAncestorOf(r, c.selectedParent, candidate))
  IN  {b \in UNION {ToSet(chain[k].mergeSetBlues) : k \in 1..Max({stop - 1, 1})} :
         ~ IsDAGAncestorOf(r, b, candidate)}

\* The blues the candidate is compared with: those of the new block and of its chain,
\* as far as the first chain block in the candidate's past, that are not themselves
\* in its past.
BluesInAnticone(d, r, new, candidate) ==
  LET chain == ContextChain(d, new)
      stop == SelectInSeq(chain, LAMBDA c : IsDAGAncestorOf(r, c.selectedParent, candidate))
  IN  {b \in UNION {ToSet(chain[k].mergeSetBlues) : k \in 1..stop} :
         ~ IsDAGAncestorOf(r, b, candidate)}

CheckBlueCandidate(d, new, anticone) ==
  /\ Len(new.mergeSetBlues) # K + 1
  /\ Cardinality(anticone) <= K
  /\ \A b \in anticone : BlueAnticoneSize(d, b, new) # K

ColourCandidate(d, new, candidate, anticone) ==
  LET sizes == new.bluesAnticoneSizes
  IN  IF ~ CheckBlueCandidate(d, new, anticone)
      THEN [new EXCEPT !.mergeSetReds = Append(@, candidate)]
      ELSE [new EXCEPT
              !.mergeSetBlues = Append(@, candidate),
              !.bluesAnticoneSizes =
                 [b \in DOMAIN sizes \cup anticone \cup {candidate} |->
                    IF b = candidate THEN Cardinality(anticone)
                    ELSE IF b \in anticone THEN BlueAnticoneSize(d, b, new) + 1
                    ELSE sizes[b]]]

WithScores(d, new) ==
  LET blues == new.mergeSetBlues
  IN  [new EXCEPT
         !.blueScore = d[new.selectedParent].blueScore + Len(blues),
         !.blueWork = d[new.selectedParent].blueWork
                        + SumSeq([k \in DOMAIN blues |-> Work[blues[k]]])]

GHOSTDAG(d, r, parents, blockParents) ==
  LET selectedParent == ChooseSelectedParent(d, blockParents)
      new == [blueScore          |-> 0,
              blueWork           |-> 0,
              selectedParent     |-> selectedParent,
              mergeSetBlues      |-> <<selectedParent>>,
              mergeSetReds       |-> <<>>,
              bluesAnticoneSizes |-> [b \in {selectedParent} |-> 0]]
      Colour(data, candidate) ==
        ColourCandidate(d, data, candidate, BluesInAnticone(d, r, data, candidate))
  IN  WithScores(d, FoldLeft(Colour, new,
                             MergeSetWithoutSelectedParent(d, r, parents, selectedParent,
                                                           blockParents)))

\* The merge set in topological order: the selected parent, then blues and reds merged.
GetSortedMergeSet(d, block) ==
  LET blues == d[block].mergeSetBlues
      reds == d[block].mergeSetReds
  IN  IF blues = <<>> THEN <<>>
      ELSE <<Head(blues)>> \o SortMergeSet(d, ToSet(Tail(blues)) \cup ToSet(reds))
=============================================================================
