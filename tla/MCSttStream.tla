----------------------------- MODULE MCSttStream -----------------------------
(* Model checking of SttStream. *)
EXTENDS SttStream
=============================================================================
