---------------------------- MODULE MCVobizStream ----------------------------
(* Model checking of VobizStream. *)
EXTENDS VobizStream
=============================================================================
