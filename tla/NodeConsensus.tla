--------------------------- MODULE NodeConsensus ---------------------------
(***************************************************************************)
(* What the rest of the node is promised about the consensus database: at  *)
(* any time there is one consensus, known by its generation (0 before the  *)
(* first one is created).  It is replaced in one step by a newer one, never *)
(* by an older one, never by a mixture, and neither a crash nor a start    *)
(* changes which one it is.                                                *)
(***************************************************************************)
EXTENDS Naturals

VARIABLES serving,      \* the generation a start of the node would serve
          up            \* whether the node serves it now

Init ==
    /\ serving \in Nat
    /\ up = FALSE

Replace ==
    /\ serving' \in Nat
    /\ serving' > serving
    /\ UNCHANGED up

Start ==
    /\ serving > 0
    /\ up' = TRUE
    /\ UNCHANGED serving

Stop ==
    /\ up' = FALSE
    /\ UNCHANGED serving

Next == Replace \/ Start \/ Stop

Spec == Init /\ [][Next]_<<serving, up>>
============================================================================
