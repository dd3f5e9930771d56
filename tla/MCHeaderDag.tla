---------------------------- MODULE MCHeaderDag -----------------------------
(***************************************************************************)
(* Six headers over genesis, in every shape their parents can give them.   *)
(* The hashes arrive out of order so that ties fall both ways, and one     *)
(* header carries three times the work of the others, so that blue work    *)
(* and blue score disagree.                                                *)
(***************************************************************************)
EXTENDS HeaderDag

MCArrival == <<4, 2, 6, 3, 7, 5>>
MCWork == [b \in 1..7 |-> IF b = 3 THEN 3 ELSE 1]
=============================================================================
