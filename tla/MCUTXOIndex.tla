---------------------------- MODULE MCUTXOIndex ----------------------------
(***************************************************************************)
(* Five virtuals over four outpoints.  Outpoint 2 leaves the set and comes  *)
(* back, outpoint 3 is created again with another DAA score, outpoint 1 is  *)
(* spent and outpoint 4 is new.                                             *)
(***************************************************************************)
EXTENDS UTXOIndex, TLC

MCOutpoint == 1..4

MCAmount == <<1, 2, 3, 5>>

MCVirtualUTXO ==
  0 :> (1 :> 0 @@ 2 :> 0)
    @@ 1 :> (1 :> 0 @@ 3 :> 1)
    @@ 2 :> (2 :> 2 @@ 3 :> 2 @@ 4 :> 2)
    @@ 3 :> (2 :> 2 @@ 4 :> 3)
    @@ 4 :> (1 :> 4 @@ 2 :> 2 @@ 3 :> 4 @@ 4 :> 3)
=============================================================================
