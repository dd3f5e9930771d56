----------------------------- MODULE MCPruning ------------------------------
EXTENDS PruningSync, SequencesExt, TLC

MCVirtualGenesis == -1
MCNoBlock == -2

\* A main chain 0..16.  Block 40 forks from 3 and is merged by 5: it is in the anticone
\* of pruning point 4.  Block 41 forks from 2 and is never merged; 44 tries to, too late.
\* Blocks 42, 43 fork from 6 and are merged by 9: they are in the anticone of pruning
\* point 7.
MCOrder == <<0, 1, 2, 3, 41, 4, 40, 5, 6, 7, 8, 42, 43, 9, 10, 11, 12, 13, 14, 15, 16, 44>>

MCParents ==
  [b \in ToSet(MCOrder) |-> CASE b = 0  -> {}
                       [] b = 5  -> {4, 40}
                       [] b = 9  -> {8, 43}
                       [] b = 40 -> {3}
                       [] b = 41 -> {2}
                       [] b = 42 -> {6}
                       [] b = 43 -> {42}
                       [] b = 44 -> {10, 41}
                       [] OTHER  -> {b - 1}]

MCSpends ==
  [b \in ToSet(MCOrder) |-> CASE b = 3 -> {0} [] b = 5 -> {1} [] b = 7 -> {4} [] b = 9 -> {5}
                       [] OTHER -> {}]

\* The table of the blocks, one block after the other.
BuildGraph == FoldLeft(LAMBDA t, b : t @@ (b :> BlockData(t, b)), <<>>, MCOrder)

MCGraph == BuildGraph
=============================================================================
