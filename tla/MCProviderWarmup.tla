--------------------------- MODULE MCProviderWarmup ---------------------------
(* Model checking of ProviderWarmup on a small pool; its values are model    *)
(* values.                                                                   *)
EXTENDS ProviderWarmup
=============================================================================
