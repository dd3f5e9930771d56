-------------------------- MODULE MCConsensusState --------------------------
(***************************************************************************)
(* Instances of ConsensusState for TLC.                                    *)
(*                                                                         *)
(* Two chains A1 - A2 and B1 - B2 - B3 fork at the genesis, C merges A2    *)
(* and B2, and D merges C and B3.  Every block mints a coinbase output.    *)
(* A1 and B2 carry the same transaction x, which the two chains accept at  *)
(* different DAA scores; A2 and B3 spend its output in conflicting ways,   *)
(* so that C and D see it accepted once and rejected once.                 *)
(***************************************************************************)
EXTENDS ConsensusStateInv

CONSTANTS G, A1, A2, B1, B2, B3, C, D

MCBlock == {G, A1, A2, B1, B2, B3, C, D}

MCParents == [b \in MCBlock |->
  CASE b = G -> {} [] b = A1 -> {G} [] b = A2 -> {A1}
    [] b = B1 -> {G} [] b = B2 -> {B1} [] b = B3 -> {B2}
    [] b = C -> {A2, B2} [] b = D -> {C, B3}]

\* Blue work first, the hash breaks ties.
MCOrder == [b \in MCBlock |->
  CASE b = G -> 0 [] b = A1 -> 1 [] b = B1 -> 2 [] b = B2 -> 3
    [] b = A2 -> 4 [] b = B3 -> 5 [] b = C -> 6 [] b = D -> 7]

Coinbase(b) == [inputs |-> {}, outputs |-> {<<b, "coinbase">>}, coinbase |-> TRUE]
Spend(input, output) == [inputs |-> {input}, outputs |-> {output}, coinbase |-> FALSE]

MCTransactions == [b \in MCBlock |->
  <<Coinbase(b)>> \o
  CASE b \in {A1, B2} -> <<Spend(<<G, "coinbase">>, <<"x">>)>>
    [] b = A2 -> <<Spend(<<"x">>, <<"u">>)>>
    [] b = B3 -> <<Spend(<<"x">>, <<"w">>)>>
    [] OTHER -> <<>>]

MCPastUTXO[b \in MCBlock] ==
  IF b = G THEN {}
  ELSE ApplyMergeSetBlocks(MCParents[b], MCPastUTXO[SelectedParent(b)])

\* The fork alone, without the blocks that merge it.
MCForkBlock == MCBlock \ {C, D}
MCForkParents == [b \in MCForkBlock |-> MCParents[b]]
MCForkOrder == [b \in MCForkBlock |-> MCOrder[b]]

\* The process may stop between any two commits, except after the commit of
\* the processing point of ResolveVirtual and before that of its virtual.
MCCrashPoints ==
  {<<"none", "idle">>, <<"AddBlock", "resolving">>, <<"AddBlock", "reversing">>,
   <<"ResolveVirtual", "resolving">>}

\* Between any two commits.
MCAllCrashPoints ==
  MCCrashPoints \cup {<<"ResolveVirtual", "reversing">>, <<"ResolveVirtual", "updating">>}
=============================================================================
