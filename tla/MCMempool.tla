------------------------------ MODULE MCMempool ------------------------------
(***************************************************************************)
(* child spends an output of parent and an output that exists from the      *)
(* start, and rival spends that same output.                                *)
(***************************************************************************)
EXTENDS Mempool

CONSTANTS parent, child, rival

MCTx == {parent, child, rival}

MCInputs ==
  parent :> <<<<Root, 0>>>> @@ child :> <<<<parent, 0>>, <<Root, 1>>>>
    @@ rival :> <<<<Root, 1>>>>

MCOutputs == [t \in MCTx |-> 1]

MCFeeRate == parent :> 1 @@ child :> 2 @@ rival :> 3
=============================================================================
