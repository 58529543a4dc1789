------------------------------ MODULE TtsClaims ------------------------------
(***************************************************************************)
(* A statement of docs/plan/13_TTS_PIPELINE.txt that the code does not keep *)
(* with Sarvam; TLC finds the behaviour.                                    *)
(***************************************************************************)
EXTENDS SarvamTts

\* "Late chunks after cancel are dropped.": no audio made for a cancelled message
\* is passed on for another sentence.
LateChunksAreDropped == \A v \in voiced : v.of = v.req \/ Message(v.of) \notin invalid
=============================================================================
