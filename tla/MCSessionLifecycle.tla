-------------------------- MODULE MCSessionLifecycle --------------------------
(* Model checking of SessionLifecycle. *)
EXTENDS SessionLifecycle

\* Each of these ends with its input and passes nothing on, as the interruption
\* manager does and the playback loop, which stay and do more.
Sinks == {"rolling_buffer", "stt_speech", "error", "vad_processor", "metrics"}

\* The loops that may fail: two whose end nobody depends on, and two that pass
\* the end on and stop a provider; the tts loop is the one a provider's error or
\* timeout ends.
Fragile == {"interruption_manager", "playback", "tts", "output"}
=============================================================================
