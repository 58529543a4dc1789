------------------------------ MODULE MCBargeIn ------------------------------
(* Model checking of BargeIn on small calls. *)
EXTENDS BargeIn
=============================================================================
