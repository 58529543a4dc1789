--------------------------- MODULE MCTurnDetection ---------------------------
(* Model checking of TurnDetection. *)
EXTENDS TurnDetection

Last == {Phrases}

\* The defaults; and without a smart-turn model, with a greeting the caller may
\* not interrupt and a recogniser that reports more and whose stream ends.
TwoConfigs ==
    {[smart |-> TRUE, interrupt |-> TRUE, retry |-> TRUE,
      greeting |-> FALSE, ends |-> FALSE, partial |-> FALSE],
     [smart |-> FALSE, interrupt |-> FALSE, retry |-> TRUE,
      greeting |-> TRUE, ends |-> TRUE, partial |-> TRUE]}
=============================================================================
