-------------------------- MODULE MCResponseStream --------------------------
(* Model checking of ResponseStream. *)
EXTENDS ResponseStream
=============================================================================
