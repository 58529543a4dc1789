---------------------------- MODULE BargeInClaims ----------------------------
(***************************************************************************)
(* A statement of docs/plan about interruptions that the barge-in core does *)
(* not keep; TLC finds the interleaving.                                    *)
(***************************************************************************)
EXTENDS BargeIn

\* docs/plan/11 line 147: a chunk held by the gate is not sent once its
\* response is no longer valid.
NoStaleChunkThroughGate ==
    [][outPc = "waiting" /\ outPc' = "sending" => IsValid(sm, outSeq)]_vars
=============================================================================
