---------------------------- MODULE MCSarvamTts ----------------------------
(* Model checking of SarvamTts. *)
EXTENDS SarvamTts
=============================================================================
