---------------------------- MODULE MCBlockSync -----------------------------
EXTENDS BlockSync

MCNoBlock == -1

\* Blocks 3 and 4 are children of 2, 5 of 4, and 6 merges 3 and 5.  Block 8 merges 6 and
\* 7.  Blocks 14 and 15 are another branch, which becomes the selected chain.
MCOrder == <<0, 1, 2, 3, 4, 5, 6, 7, 8, 14, 15>>

MCParents ==
  0 :> {} @@ 1 :> {0} @@ 2 :> {1} @@ 3 :> {2} @@ 4 :> {2} @@ 5 :> {4} @@ 6 :> {3, 5}
  @@ 7 :> {2} @@ 8 :> {6, 7} @@ 14 :> {3, 5} @@ 15 :> {7, 14}

MCPeers == {"p", "q"}
MCKnown == {0, 1}

\* The node is too far behind peer p for orphans, which reorganises while it syncs.
FarBehind ==
  [dag |-> "p" :> 0..8 @@ "q" :> 0..2, mined |-> "p" :> {14, 15} @@ "q" :> {}]

\* The node lacks block 2, which either peer may serve, while both mine on top of it.
OneBehind ==
  [dag |-> "p" :> 0..2 @@ "q" :> 0..2, mined |-> "p" :> {3, 4, 5, 6, 14} @@ "q" :> {7}]

MCStarts == {FarBehind, OneBehind}
=============================================================================
