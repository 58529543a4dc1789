--------------------------- MODULE MCCartesiaTts ---------------------------
(* Model checking of CartesiaTts. *)
EXTENDS CartesiaTts
=============================================================================
