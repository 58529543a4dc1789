------------------------------- MODULE BargeIn -------------------------------
(***************************************************************************)
(* The barge-in core of a call: the five loops of the SessionOrchestrator   *)
(* that create, synthesise, gate, send, interrupt and retire assistant      *)
(* responses.  Each action runs from one suspension point (await that can   *)
(* really suspend) of a loop to its next, so an interleaving of actions is  *)
(* an interleaving of the asyncio tasks.                                    *)
(*                                                                          *)
(*   llm loop      TakeTurn, FinishCancelOld, CleanupOver, LlmSaved, ...    *)
(*   tts loop      TakeRequest, SynthFrame, SynthDone, SynthFails           *)
(*   output loop   TakeAudio, GateReleased, GateTimeout, SendChunk, ...     *)
(*   interruption  SpeechStart, SpeechStop, Transcript, ClearPlayback, ...  *)
(*   playback      HandlePlayed, HandleCleared, Decide, RequestHangup       *)
(*   turn manager  EmitTurn, LateRepair, FinishRepair, StartRetry, ...      *)
(*                                                                          *)
(* The caller's speech, the turns and the telephony peer are the            *)
(* environment.  interruption_enabled, wait_gate_on_speech_start and        *)
(* clear_audio_on_confirmed_interrupt have their defaults (true), and       *)
(* preemptive_clear_audio its default (false).                              *)
(***************************************************************************)
EXTENDS SequenceManager, OutputGate, Sequences, FiniteSets

CONSTANTS
    MaxSeq,         \* bound: responses created in a call, the greeting included
    MaxTurns,       \* bound: user turns emitted in a call
    MaxSentences,   \* bound: sentences the LLM streams per response
    MaxFrames,      \* bound: audio frames the TTS yields per sentence
    Chunks,         \* 20 ms chunks per TTS frame, one websocket send each
    QueueMax,       \* capacity of tts_request and of tts_audio
    Greeting,       \* agent_greeting is set
    AllowInterruptWelcome, \* allow_interrupt_welcome_message
    EmptyRetry      \* empty_transcript_retry_enabled

ASSUME BoundsAssumption ==
    /\ MaxSeq \in Nat /\ MaxTurns \in Nat /\ MaxSentences \in Nat /\ MaxFrames \in Nat
    /\ Chunks \in Nat \ {0} /\ QueueMax \in Nat \ {0, 1}
    /\ Greeting \in BOOLEAN /\ AllowInterruptWelcome \in BOOLEAN /\ EmptyRetry \in BOOLEAN
    /\ Greeting => MaxSeq > 0

VARIABLES
    sm,           \* SequenceManager
    gate,         \* OutputGate
    im,           \* InterruptionManager: [active, speaking, candidate], and stray:
                  \* history, the response at which a word in silence raised the candidate
    intPc,        \* interruption loop: "idle", or where confirm is suspended
    cleanupDone,  \* _interruption_cleanup_done
    turns, made,  \* turn_event queue length; turns emitted so far
    llmPc, llmSeq, llmOld, sentences,  \* llm loop and its _active_llm_task
    ttsReq, ttsSeq, frames,            \* tts_request; the sentence in synthesis
    ttsUp,        \* the tts loop takes requests: no synthesis has failed
    ttsAudio, outPc, outSeq, outLeft,  \* tts_audio; the packet in hand
    track,        \* PlaybackTracker: [sent, chk, played, interrupted] sets of ids
    marks,        \* checkpoints the telephony peer has yet to reach
    inbound,      \* playback events on their way to the playback loop
    playPc,       \* playback loop
    phase,        \* "open", "hanging" (hangup requested), "closed"
    speech,       \* is the caller speaking, as the VAD reports it
    repairSeq,    \* response a late transcript is cancelling, or None
    retryOld,     \* response an empty transcript is cancelling, or None
    late          \* history: chunks sent per response after it stopped being valid

llmVars  == <<turns, made, llmPc, llmSeq, llmOld, sentences>>
ttsVars  == <<ttsSeq, frames, ttsUp>>
queues   == <<ttsReq, ttsAudio>>
outVars  == <<outPc, outSeq, outLeft>>
playVars == <<marks, inbound, playPc>>
intVars  == <<intPc, cleanupDone, speech>>
cancelVars == <<repairSeq, retryOld>>
vars == <<sm, gate, im, track, phase, cancelVars, late,
          llmVars, ttsVars, queues, outVars, playVars, intVars>>

Seqs == 1..MaxSeq
Packet == [kind : {"sentence", "chunk", "end"}, seq : Seqs]
Event == [kind : {"played", "cleared"}, seq : 0..MaxSeq]

------------------------------------------------------------------------------
(* Operations on the queues and on the trackers.                            *)

\* Mutant: a full queue keeps what it has.
PutDropOldest_KeepsOldest(q, p) == IF Len(q) >= QueueMax THEN q ELSE Append(q, p)

\* put_packet with DROP_OLDEST: a full queue loses its head.
PutDropOldest(q, p) == Append(IF Len(q) >= QueueMax THEN Tail(q) ELSE q, p)

\* _purge_invalid_packets: keep the packets whose response is still valid.
Purge(q, s0) ==
    LET StillValid(p) == IsValid(s0, p.seq) IN SelectSeq(q, StillValid)

\* Mutant: the finished response stays the active one.
MarkFinished_KeepsActive(i0, s) ==
    IF i0.active \in {None, s} THEN [i0 EXCEPT !.speaking = FALSE] ELSE i0

\* mark_agent_response_finished(s)
MarkFinished(i0, s) ==
    IF i0.active \in {None, s}
    THEN [active |-> None, speaking |-> FALSE, candidate |-> FALSE, stray |-> None]
    ELSE i0

\* mark_agent_audio_sent(s)
MarkAudioSent(i0, s) ==
    IF i0.active \in {None, s} THEN [i0 EXCEPT !.speaking = TRUE] ELSE i0

CanConsiderInterruption == im.active # None /\ im.speaking

\* Mutant: playing to the end does not take the interruption mark back.
TrackPlayed_KeepsMark(s) == [track EXCEPT !.played = @ \cup {s}]

\* handle_playback_event for a checkpoint, for clearedAudio; mark_interrupted.
TrackPlayed(s)      == [track EXCEPT !.played = @ \cup {s}, !.interrupted = @ \ {s}]
TrackCleared        == [track EXCEPT !.interrupted = @ \cup ((1..sm.current) \ track.played)]
TrackInterrupted(s) == [track EXCEPT !.interrupted = @ \cup {s}]

LlmIdle == llmPc' = "idle" /\ llmSeq' = None /\ sentences' = 0 /\ llmOld' = None

-----------------------------------------------------------------------------
(* The state after _enqueue_agent_greeting, the last step of start().       *)
Init ==
    /\ sm = IF Greeting THEN CreateSequence(SequenceInit) ELSE SequenceInit
    /\ gate = GateInit
    /\ im = [active |-> IF Greeting /\ AllowInterruptWelcome THEN 1 ELSE None,
             speaking |-> FALSE, candidate |-> FALSE, stray |-> None]
    /\ intPc = "idle" /\ cleanupDone = TRUE /\ speech = "silent"
    /\ turns = 0 /\ made = 0
    /\ llmPc = "idle" /\ llmSeq = None /\ llmOld = None /\ sentences = 0
    /\ ttsReq = IF Greeting THEN <<[kind |-> "sentence", seq |-> 1], [kind |-> "end", seq |-> 1]>>
                ELSE <<>>
    /\ ttsSeq = None /\ frames = 0 /\ ttsUp = TRUE
    /\ ttsAudio = <<>> /\ outPc = "idle" /\ outSeq = None /\ outLeft = 0
    /\ track = [sent |-> {}, chk |-> {}, played |-> {}, interrupted |-> {}]
    /\ marks = <<>> /\ inbound = <<>> /\ playPc = "idle"
    /\ phase = "open" /\ repairSeq = None /\ retryOld = None
    /\ late = [s \in Seqs |-> 0]

-----------------------------------------------------------------------------
(* The llm loop.                                                            *)

\* Mutant: a new response does not reopen the gate.
BeginResponse_GateKept(s0, g0, i0) ==
    /\ NextId(s0) <= MaxSeq
    /\ sm' = CreateSequence(s0) /\ gate' = g0
    /\ im' = [i0 EXCEPT !.active = NextId(s0)]
    /\ llmPc' = "saving" /\ llmSeq' = NextId(s0) /\ llmOld' = None /\ sentences' = 0

\* _run_llm_response from create_sequence to its first suspension, the save
\* of the live state; s0, g0, i0 are the states its prelude left.
BeginResponse(s0, g0, i0) ==
    /\ NextId(s0) <= MaxSeq
    /\ sm' = CreateSequence(s0)
    /\ gate' = SetSend(g0)
    /\ im' = [i0 EXCEPT !.active = NextId(s0)]
    /\ llmPc' = "saving" /\ llmSeq' = NextId(s0) /\ llmOld' = None /\ sentences' = 0

\* _wait_for_interruption_cleanup: go on at once, or suspend.
AwaitCleanup(s0, g0, i0) ==
    IF cleanupDone THEN BeginResponse(s0, g0, i0)
    ELSE /\ llmPc' = "awaitCleanup" /\ llmOld' = None
         /\ sm' = s0 /\ gate' = g0 /\ im' = i0
         /\ UNCHANGED <<llmSeq, sentences>>

\* The loop takes a turn: _invalidate_prior_output_for_new_turn.
TakeTurn ==
    /\ phase # "closed" /\ llmPc = "idle" /\ turns > 0
    /\ turns' = turns - 1
    /\ LET old == Live(sm)
           s0 == InvalidatePending(sm)
           g0 == BlockSequences(gate, old)
       IN /\ ttsReq' = IF old = {} THEN ttsReq ELSE Purge(ttsReq, s0)
          /\ ttsAudio' = IF old = {} THEN ttsAudio ELSE Purge(ttsAudio, s0)
          /\ IF im.active \in old
             THEN /\ llmPc' = "cancelOld" /\ llmOld' = im.active
                  /\ sm' = s0 /\ gate' = g0
                  /\ UNCHANGED <<im, llmSeq, sentences>>
             ELSE AwaitCleanup(s0, g0, im)
    /\ UNCHANGED <<made, track, phase, cancelVars, late, ttsVars, outVars, playVars, intVars>>

\* tts.cancel and llm.cancel for the old response have returned.
FinishCancelOld ==
    /\ phase # "closed" /\ llmPc = "cancelOld"
    /\ AwaitCleanup(sm, gate, MarkFinished(im, llmOld))
    /\ UNCHANGED <<turns, made, track, phase, cancelVars, late,
                   ttsVars, queues, outVars, playVars, intVars>>

\* The cleanup event was set, or its wait timed out.
CleanupOver ==
    /\ phase # "closed" /\ llmPc = "awaitCleanup"
    /\ BeginResponse(sm, gate, im)
    /\ UNCHANGED <<turns, made, track, phase, cancelVars, late,
                   ttsVars, queues, outVars, playVars, intVars>>

LlmSaved ==
    /\ phase # "closed" /\ llmPc = "saving" /\ llmPc' = "streaming"
    /\ UNCHANGED <<sm, gate, im, turns, made, llmSeq, llmOld, sentences, track, phase,
                   cancelVars, late, ttsVars, queues, outVars, playVars, intVars>>

\* The aggregator yields a sentence.
StreamSentence ==
    /\ phase # "closed" /\ llmPc = "streaming" /\ sentences < MaxSentences
    /\ IF IsValid(sm, llmSeq)
       THEN /\ sentences' = sentences + 1
            /\ ttsReq' = PutDropOldest(ttsReq, [kind |-> "sentence", seq |-> llmSeq])
            /\ UNCHANGED <<llmPc, llmSeq, llmOld>>
       ELSE LlmIdle /\ UNCHANGED ttsReq
    /\ UNCHANGED <<sm, gate, im, turns, made, track, phase, cancelVars, late, ttsAudio,
                   ttsVars, outVars, playVars, intVars>>

\* The token stream ends (it may be empty).
StreamEnd ==
    /\ phase # "closed" /\ llmPc = "streaming"
    /\ ttsReq' = IF IsValid(sm, llmSeq)
                 THEN PutDropOldest(ttsReq, [kind |-> "end", seq |-> llmSeq])
                 ELSE ttsReq
    /\ LlmIdle
    /\ UNCHANGED <<sm, gate, im, turns, made, track, phase, cancelVars, late, ttsAudio,
                   ttsVars, outVars, playVars, intVars>>

-----------------------------------------------------------------------------
(* The tts loop.                                                            *)

TakeRequest ==
    /\ phase # "closed" /\ ttsUp /\ ttsSeq = None /\ ttsReq # <<>>
    /\ ttsReq' = Tail(ttsReq)
    /\ LET p == Head(ttsReq) IN
       \/ /\ ~IsValid(sm, p.seq)
          /\ UNCHANGED <<ttsAudio, ttsVars>>
       \/ /\ IsValid(sm, p.seq) /\ p.kind = "end"
          /\ ttsAudio' = PutDropOldest(ttsAudio, p)
          /\ UNCHANGED ttsVars
       \/ /\ IsValid(sm, p.seq) /\ p.kind = "sentence"
          /\ ttsSeq' = p.seq /\ frames' = 0
          /\ UNCHANGED <<ttsAudio, ttsUp>>
    /\ UNCHANGED <<sm, gate, im, track, phase, cancelVars, late,
                   llmVars, outVars, playVars, intVars>>

\* synthesize yields a frame; a response no longer valid is cancelled and left.
SynthFrame ==
    /\ phase # "closed" /\ ttsSeq # None /\ frames < MaxFrames
    /\ IF IsValid(sm, ttsSeq)
       THEN /\ ttsAudio' = PutDropOldest(ttsAudio, [kind |-> "chunk", seq |-> ttsSeq])
            /\ frames' = frames + 1 /\ UNCHANGED ttsSeq
       ELSE ttsSeq' = None /\ frames' = 0 /\ UNCHANGED ttsAudio
    /\ UNCHANGED <<sm, gate, im, track, phase, cancelVars, late, ttsReq, ttsUp,
                   llmVars, outVars, playVars, intVars>>

\* The provider has given the last frame of the sentence.
SynthDone ==
    /\ phase # "closed" /\ ttsSeq # None
    /\ ttsSeq' = None /\ frames' = 0
    /\ UNCHANGED <<sm, gate, im, track, phase, cancelVars, late, queues, ttsUp,
                   llmVars, outVars, playVars, intVars>>

\* synthesize raises (no first audio in time, an error of the provider, a
\* lost connection): _guard_loop records the error and the loop is over.  A
\* synthesis that waits for ever on a new connection has the same effect.
SynthFails ==
    /\ phase # "closed" /\ ttsSeq # None
    /\ ttsSeq' = None /\ frames' = 0 /\ ttsUp' = FALSE
    /\ UNCHANGED <<sm, gate, im, track, phase, cancelVars, late, queues,
                   llmVars, outVars, playVars, intVars>>

-----------------------------------------------------------------------------
(* The output loop.                                                         *)

\* Mutant: a frame is padded by one more chunk (pad_final).
InHand_Padded(pc, s, left) ==
    outPc' = pc /\ outSeq' = s /\ outLeft' = IF pc = "sending" THEN left + 1 ELSE left

OutIdle == outPc' = "idle" /\ outSeq' = None /\ outLeft' = 0
InHand(pc, s, left) == outPc' = pc /\ outSeq' = s /\ outLeft' = left

\* Dequeue a packet, check its response, ask the gate.
TakeAudio ==
    /\ phase # "closed" /\ outPc = "idle" /\ ttsAudio # <<>>
    /\ ttsAudio' = Tail(ttsAudio)
    /\ LET p == Head(ttsAudio)
           decision == DecisionFor(gate, p.seq)
       IN \/ /\ ~IsValid(sm, p.seq) \/ (p.kind = "chunk" /\ decision = "drop")
             /\ UNCHANGED outVars
          \/ IsValid(sm, p.seq) /\ p.kind = "end" /\ InHand("checkpoint", p.seq, 0)
          \/ /\ IsValid(sm, p.seq) /\ p.kind = "chunk"
             /\ \/ decision = "wait" /\ InHand("waiting", p.seq, 0)
                \/ decision = "send" /\ InHand("sending", p.seq, Chunks)
    /\ UNCHANGED <<sm, gate, im, track, phase, cancelVars, late, ttsReq,
                   llmVars, ttsVars, playVars, intVars>>

\* wait_until_released wakes up.
GateReleased ==
    /\ phase # "closed" /\ outPc = "waiting" /\ gate.state # "wait"
    /\ \/ ReleaseDecision(gate) = "drop" /\ OutIdle
       \/ ReleaseDecision(gate) = "send" /\ InHand("sending", outSeq, Chunks)
    /\ UNCHANGED <<sm, gate, im, track, phase, cancelVars, late,
                   llmVars, ttsVars, queues, playVars, intVars>>

\* Mutant: the wait has no timeout.
GateTimeout_Never == FALSE

\* wait_until_released gives up after output_gate_wait_timeout_ms: the chunk is dropped.
GateTimeout ==
    /\ phase # "closed" /\ outPc = "waiting" /\ gate.state = "wait"
    /\ OutIdle
    /\ UNCHANGED <<sm, gate, im, track, phase, cancelVars, late,
                   llmVars, ttsVars, queues, playVars, intVars>>

\* send_audio puts one 20 ms chunk on the websocket.
SendChunk ==
    /\ phase # "closed" /\ outPc = "sending" /\ outLeft > 0
    /\ outLeft' = outLeft - 1
    /\ late' = IF IsValid(sm, outSeq) THEN late ELSE [late EXCEPT ![outSeq] = @ + 1]
    /\ UNCHANGED <<sm, gate, im, track, phase, cancelVars, outPc, outSeq,
                   llmVars, ttsVars, queues, playVars, intVars>>

\* send_audio returned.
AudioSent ==
    /\ phase # "closed" /\ outPc = "sending" /\ outLeft = 0
    /\ track' = [track EXCEPT !.sent = @ \cup {outSeq}]
    /\ im' = MarkAudioSent(im, outSeq)
    /\ OutIdle
    /\ UNCHANGED <<sm, gate, phase, cancelVars, late, llmVars, ttsVars, queues, playVars, intVars>>

\* send_checkpoint, then mark_checkpoint_sent.
SendCheckpoint ==
    /\ phase # "closed" /\ outPc = "checkpoint"
    /\ marks' = Append(marks, outSeq)
    /\ track' = [track EXCEPT !.chk = @ \cup {outSeq}]
    /\ OutIdle
    /\ UNCHANGED <<sm, gate, im, phase, cancelVars, late, llmVars, ttsVars, queues,
                   inbound, playPc, intVars>>

-----------------------------------------------------------------------------
(* The interruption loop.  interruption_event is a FIFO filled by the VAD   *)
(* and the STT; an event is taken here when its handler runs.               *)

\* _release_agent_if_estimated_playback_complete: the checkpoint was sent, the
\* audio and the grace period have elapsed, no acknowledgement arrived.
ReleaseDue ==
    /\ im.active \in track.chk \cap track.sent
    /\ im.active \notin track.played \cup track.interrupted

ReleaseEstimated ==
    /\ ReleaseDue
    /\ track' = [track EXCEPT !.played = @ \cup {im.active}]
    /\ sm' = Retire(sm, im.active)
    /\ im' = MarkFinished(im, im.active)

NotInterruption == <<phase, cancelVars, late, ttsVars, outVars, inbound, playPc, turns, made>>

\* handle_speech_start.  After a release the agent is not speaking: ignored.
SpeechStart ==
    /\ phase # "closed" /\ intPc = "idle" /\ speech = "silent"
    /\ speech' = "speaking"
    /\ \/ ReleaseEstimated /\ UNCHANGED gate
       \/ /\ IF CanConsiderInterruption
             THEN im' = [im EXCEPT !.candidate = TRUE] /\ gate' = SetWait(gate)
             ELSE UNCHANGED <<im, gate>>
          /\ UNCHANGED <<sm, track>>
    /\ UNCHANGED <<NotInterruption, intPc, cleanupDone, llmPc, llmSeq, llmOld, sentences,
                   queues, marks>>

\* handle_speech_stop: a candidate nobody confirmed is rejected.
SpeechStop ==
    /\ phase # "closed" /\ intPc = "idle" /\ speech = "speaking"
    /\ speech' = "silent"
    /\ \/ ReleaseEstimated /\ UNCHANGED <<gate, cleanupDone>>
       \/ /\ IF im.candidate /\ im.active # None
             THEN gate' = SetSend(gate) /\ cleanupDone' = TRUE
             ELSE UNCHANGED <<gate, cleanupDone>>
          /\ im' = [im EXCEPT !.candidate = FALSE, !.stray = None]
          /\ UNCHANGED <<sm, track>>
    /\ UNCHANGED <<NotInterruption, intPc, llmPc, llmSeq, llmOld, sentences, queues, marks>>

\* confirm and _handle_confirmed_interruption, up to the cancellations they await.
Confirm ==
    LET s0 == InvalidatePending(sm) IN
    /\ gate' = BlockSequences(SetBlock(gate), Live(sm))
    /\ sm' = s0
    /\ im' = [active |-> None, speaking |-> FALSE, candidate |-> FALSE, stray |-> None]
    /\ cleanupDone' = FALSE
    /\ ttsReq' = Purge(ttsReq, s0) /\ ttsAudio' = Purge(ttsAudio, s0)
    /\ track' = TrackInterrupted(im.active)
    /\ IF llmSeq = im.active THEN LlmIdle
       ELSE UNCHANGED <<llmPc, llmSeq, llmOld, sentences>>
    /\ intPc' = "clearing"

\* handle_transcript; kind is what the phrase classifier and the word count
\* make of the text.
Transcript(kind) ==
    /\ phase # "closed" /\ intPc = "idle" /\ CanConsiderInterruption
    /\ \/ /\ ReleaseEstimated
          /\ UNCHANGED <<gate, intPc, cleanupDone, llmPc, llmSeq, llmOld, sentences, queues>>
       \/ /\ kind = "backchannel"
          /\ gate' = SetSend(gate) /\ cleanupDone' = TRUE
          /\ im' = [im EXCEPT !.candidate = FALSE, !.stray = None]
          /\ UNCHANGED <<sm, track, intPc, llmPc, llmSeq, llmOld, sentences, queues>>
       \/ kind = "interrupt" /\ Confirm
       \/ /\ kind = "short"
          /\ gate' = IF im.candidate THEN gate ELSE SetWait(gate)
          /\ im' = [im EXCEPT !.candidate = TRUE,
                               !.stray = IF im.candidate \/ speech = "speaking"
                                         THEN im.stray ELSE im.active]
          /\ UNCHANGED <<sm, track, intPc, cleanupDone, llmPc, llmSeq, llmOld, sentences, queues>>
    /\ UNCHANGED <<NotInterruption, speech, marks>>

\* _cancel_active_work sends clearAudio and waits for its acknowledgement.  The
\* peer drops the checkpoints it had queued, or acknowledges them at once.
ClearPlayback ==
    /\ phase # "closed" /\ intPc = "clearing" /\ intPc' = "acking"
    /\ marks' = <<>>
    /\ \E acked \in {<<>>, marks} :
          inbound' = inbound \o [i \in DOMAIN acked |-> [kind |-> "played", seq |-> acked[i]]]
                             \o <<[kind |-> "cleared", seq |-> 0]>>
    /\ UNCHANGED <<sm, gate, im, track, cleanupDone, speech, playPc, phase, cancelVars, late,
                   llmVars, ttsVars, queues, outVars>>

\* Mutant: the confirmation ends without setting the cleanup event.
FinishConfirm_NoEvent ==
    /\ phase # "closed" /\ intPc = "acking" /\ outPc # "waiting"
    /\ intPc' = "idle" /\ gate' = SetSend(gate)
    /\ UNCHANGED <<sm, im, track, cleanupDone, speech, phase, cancelVars, late,
                   llmVars, ttsVars, queues, outVars, playVars>>

\* The acknowledgement came, or its wait timed out; the loop reopens the gate.
\* A waiter that set_block woke has run by then: it was queued first.
FinishConfirm ==
    /\ phase # "closed" /\ intPc = "acking" /\ outPc # "waiting"
    /\ intPc' = "idle"
    /\ cleanupDone' = TRUE
    /\ gate' = SetSend(gate)
    /\ UNCHANGED <<sm, im, track, speech, phase, cancelVars, late,
                   llmVars, ttsVars, queues, outVars, playVars>>

\* _handle_speech_event calls the same release when the VAD reports an event,
\* before the event is queued for the interruption loop.
ReleaseOnSpeechEvent ==
    /\ phase # "closed" /\ ReleaseEstimated
    /\ UNCHANGED <<gate, phase, cancelVars, late, llmVars, ttsVars, queues, outVars,
                   playVars, intVars>>

-----------------------------------------------------------------------------
(* The playback loop, and the telephony peer that feeds it.                 *)

\* The peer reaches a checkpoint: playedStream (external).
RemotePlays ==
    /\ phase # "closed" /\ marks # <<>>
    /\ marks' = Tail(marks)
    /\ inbound' = Append(inbound, [kind |-> "played", seq |-> Head(marks)])
    /\ UNCHANGED <<sm, gate, im, track, playPc, phase, cancelVars, late,
                   llmVars, ttsVars, queues, outVars, intVars>>

HandlePlayed ==
    /\ phase # "closed" /\ playPc = "idle" /\ inbound # <<>> /\ Head(inbound).kind = "played"
    /\ LET s == Head(inbound).seq IN
       /\ track' = TrackPlayed(s)
       /\ im' = MarkFinished(im, s)
       /\ sm' = Retire(sm, s)
    /\ inbound' = Tail(inbound)
    /\ playPc' = "deciding"
    /\ UNCHANGED <<gate, marks, phase, cancelVars, late, llmVars, ttsVars, queues, outVars, intVars>>

HandleCleared ==
    /\ phase # "closed" /\ playPc = "idle" /\ inbound # <<>> /\ Head(inbound).kind = "cleared"
    /\ track' = TrackCleared
    /\ inbound' = Tail(inbound)
    /\ UNCHANGED <<sm, gate, im, marks, playPc, phase, cancelVars, late,
                   llmVars, ttsVars, queues, outVars, intVars>>

\* _maybe_hangup_after_assistant_turn decides against it.
KeepTalking ==
    /\ phase # "closed" /\ playPc = "deciding" /\ playPc' = "idle"
    /\ UNCHANGED <<sm, gate, im, track, marks, inbound, phase, cancelVars, late,
                   llmVars, ttsVars, queues, outVars, intVars>>

\* _request_call_hangup up to telephony.hangup.
RequestHangup ==
    /\ phase = "open" /\ playPc = "deciding"
    /\ phase' = "hanging" /\ playPc' = "hangingUp"
    /\ LET s0 == InvalidatePending(sm) IN
       /\ sm' = s0
       /\ gate' = BlockSequences(gate, Live(sm))
       /\ ttsReq' = Purge(ttsReq, s0) /\ ttsAudio' = Purge(ttsAudio, s0)
    /\ LlmIdle
    /\ UNCHANGED <<im, track, marks, inbound, turns, made, cancelVars, late,
                   ttsVars, outVars, intVars>>

\* telephony.hangup has closed the stream; shutdown ends the call.
HangUp ==
    /\ phase = "hanging" /\ phase' = "closed"
    /\ UNCHANGED <<sm, gate, im, track, cancelVars, late, llmVars, ttsVars, queues,
                   outVars, playVars, intVars>>

-----------------------------------------------------------------------------
(* The turn manager, as far as it feeds and cancels responses.              *)

\* _emit_user_turn.  While the agent speaks the gate waits for the turn to be
\* taken; the save before the put is unobservable: the llm loop may be late.
EmitTurn ==
    /\ phase # "closed" /\ made < MaxTurns
    /\ turns' = turns + 1 /\ made' = made + 1
    /\ gate' = IF im.speaking THEN SetWait(gate) ELSE gate
    /\ UNCHANGED <<sm, im, track, phase, cancelVars, late, llmPc, llmSeq, llmOld, sentences,
                   ttsVars, queues, outVars, playVars, intVars>>

\* _repair_late_transcript_if_possible: cancel the response being generated and
\* emit the amended turn, once tts.cancel has returned if a response is tracked.
LateRepair ==
    /\ phase # "closed" /\ repairSeq = None /\ made \in 1..(MaxTurns - 1)
    /\ llmSeq # None /\ ~im.speaking
    /\ LET s0 == Invalidate(sm, llmSeq) IN
       /\ sm' = s0
       /\ gate' = BlockSequences(gate, {llmSeq})
       /\ ttsReq' = Purge(ttsReq, s0) /\ ttsAudio' = Purge(ttsAudio, s0)
    /\ LlmIdle
    /\ repairSeq' = im.active
    /\ made' = made + 1
    /\ turns' = IF im.active = None THEN turns + 1 ELSE turns
    /\ UNCHANGED <<im, track, phase, retryOld, late, ttsVars, outVars, playVars, intVars>>

FinishRepair ==
    /\ phase # "closed" /\ repairSeq # None
    /\ im' = MarkFinished(im, repairSeq)
    /\ turns' = turns + 1 /\ repairSeq' = None
    /\ UNCHANGED <<sm, gate, made, llmPc, llmSeq, llmOld, sentences, track, phase, retryOld, late,
                   ttsVars, queues, outVars, playVars, intVars>>

\* Mutant: the retry leaves the gate as the caller's speech left it.
BeginRetry_GateKept(s0, g0, i0, q) ==
    /\ NextId(s0) <= MaxSeq
    /\ sm' = CreateSequence(s0) /\ gate' = g0
    /\ im' = [i0 EXCEPT !.active = NextId(s0)]
    /\ ttsReq' = PutDropOldest(PutDropOldest(q, [kind |-> "sentence", seq |-> NextId(s0)]),
                               [kind |-> "end", seq |-> NextId(s0)])

\* The rest of _enqueue_empty_transcript_retry: the prompt to repeat is a
\* response of its own, enqueued whole.
BeginRetry(s0, g0, i0, q) ==
    /\ NextId(s0) <= MaxSeq
    /\ sm' = CreateSequence(s0)
    /\ gate' = SetSend(g0)
    /\ im' = [i0 EXCEPT !.active = NextId(s0)]
    /\ ttsReq' = PutDropOldest(PutDropOldest(q, [kind |-> "sentence", seq |-> NextId(s0)]),
                               [kind |-> "end", seq |-> NextId(s0)])

\* Speech ended and no transcript came: what is pending is invalidated, and the
\* active response's providers are cancelled before the prompt is created.
StartRetry ==
    /\ EmptyRetry /\ phase # "closed" /\ retryOld = None /\ NextId(sm) <= MaxSeq
    /\ LET old == Live(sm)
           s0 == InvalidatePending(sm)
           g0 == BlockSequences(gate, old)
           q0 == IF old = {} THEN ttsReq ELSE Purge(ttsReq, s0)
       IN /\ ttsAudio' = IF old = {} THEN ttsAudio ELSE Purge(ttsAudio, s0)
          /\ IF im.active \in old
             THEN /\ retryOld' = im.active
                  /\ sm' = s0 /\ gate' = g0 /\ ttsReq' = q0 /\ UNCHANGED im
             ELSE BeginRetry(s0, g0, im, q0) /\ UNCHANGED retryOld
    /\ UNCHANGED <<track, phase, repairSeq, late, llmVars, ttsVars, outVars, playVars, intVars>>

FinishRetry ==
    /\ EmptyRetry /\ phase # "closed" /\ retryOld # None /\ retryOld' = None
    /\ BeginRetry(sm, gate, MarkFinished(im, retryOld), ttsReq)
    /\ UNCHANGED <<track, phase, repairSeq, late, ttsAudio, llmVars, ttsVars, outVars,
                   playVars, intVars>>

-----------------------------------------------------------------------------
TranscriptKinds == {"backchannel", "interrupt", "short"}

Next ==
    \/ EmitTurn \/ LateRepair \/ FinishRepair \/ StartRetry \/ FinishRetry
    \/ TakeTurn \/ FinishCancelOld \/ CleanupOver \/ LlmSaved \/ StreamSentence \/ StreamEnd
    \/ TakeRequest \/ SynthFrame \/ SynthDone \/ SynthFails
    \/ TakeAudio \/ GateReleased \/ GateTimeout \/ SendChunk \/ AudioSent \/ SendCheckpoint
    \/ SpeechStart \/ SpeechStop \/ (\E kind \in TranscriptKinds : Transcript(kind))
    \/ ClearPlayback \/ FinishConfirm \/ ReleaseOnSpeechEvent
    \/ RemotePlays \/ HandlePlayed \/ HandleCleared \/ KeepTalking \/ RequestHangup \/ HangUp

Spec == Init /\ [][Next]_vars

-----------------------------------------------------------------------------
(* Properties.                                                              *)

\* Every variable stays in its domain.
TypeOK ==
    /\ sm \in [current : 0..MaxSeq, valid : SUBSET (Seqs \cup {SYSTEM_SEQUENCE_ID}),
               invalidated : SUBSET Seqs]
    /\ gate \in [state : {"send", "wait", "block"}, blocked : SUBSET Seqs]
    /\ im \in [active : Seqs \cup {None}, speaking : BOOLEAN, candidate : BOOLEAN,
              stray : Seqs \cup {None}]
    /\ track \in [sent : SUBSET Seqs, chk : SUBSET Seqs, played : SUBSET Seqs,
                  interrupted : SUBSET Seqs]
    /\ llmPc \in {"idle", "cancelOld", "awaitCleanup", "saving", "streaming"}
    /\ llmSeq \in Seqs \cup {None} /\ llmOld \in Seqs \cup {None}
    /\ turns \in 0..MaxTurns /\ made \in 0..MaxTurns /\ sentences \in 0..MaxSentences
    /\ ttsReq \in Seq(Packet) /\ Len(ttsReq) <= QueueMax
    /\ ttsAudio \in Seq(Packet) /\ Len(ttsAudio) <= QueueMax
    /\ ttsSeq \in Seqs \cup {None} /\ frames \in 0..MaxFrames /\ ttsUp \in BOOLEAN
    /\ outPc \in {"idle", "waiting", "sending", "checkpoint"}
    /\ outSeq \in Seqs \cup {None} /\ outLeft \in 0..Chunks
    /\ marks \in Seq(Seqs) /\ inbound \in Seq(Event)
    /\ playPc \in {"idle", "deciding", "hangingUp"}
    /\ intPc \in {"idle", "clearing", "acking"}
    /\ cleanupDone \in BOOLEAN /\ speech \in {"silent", "speaking"}
    /\ phase \in {"open", "hanging", "closed"}
    /\ repairSeq \in Seqs \cup {None} /\ retryOld \in Seqs \cup {None}
    /\ late \in [Seqs -> Nat]

\* At most one response may be heard at any moment, although the llm loop
\* suspends between invalidating the old one and creating the new one.  (With
\* EmptyRetry a second task creates responses, and the two can overlap.)
OneLiveResponse == \A s, t \in Live(sm) : s = t

\* A blocked gate never swallows a response: while the gate is in "block"
\* nothing is valid, even when a new turn outlives the wait for the cleanup.
BlockedGateHasNoLiveResponse == gate.state = "block" => Live(sm) = {}

\* Of a response that stopped being valid, the caller is sent no more than the
\* one frame the output loop held at that moment.
LateAudioIsOneFrame == \A s \in Seqs : late[s] <= Chunks

\* No message is recorded both as played to the end and as interrupted, in
\* whatever order checkpoints, clears and confirmations are handled.
PlayedOrInterrupted == track.played \cap track.interrupted = {}

\* The response the interruption manager would cancel is one that can still be
\* heard, unless a loop is suspended in the middle of cancelling it or the
\* call is being hung up.
ActiveResponseIsLive ==
    \/ im.active \in Live(sm) \cup {None}
    \/ llmPc = "cancelOld" \/ repairSeq # None \/ retryOld # None \/ phase # "open"

\* While a response is active, a gate in "wait" has somebody who will reopen
\* it: the end of the speech that started a candidate, or an emitted turn yet
\* to be answered.  A word heard while nobody speaks is the exception: it
\* starts a candidate that only another word or speech will end, and it may
\* hold up the response it came in, never one that is created after it.
WaitIsOwed ==
    gate.state = "wait" /\ im.active # None =>
        \/ im.candidate /\ (speech = "speaking" \/ im.stray = im.active)
        \/ turns > 0 \/ llmPc \in {"cancelOld", "awaitCleanup"}
        \/ phase # "open"

\* The end of response s, which brings its checkpoint about, is sent, on its
\* way, or to come from the llm loop.
EndOnItsWay(s) ==
    \/ llmSeq = s
    \/ \E q \in {ttsReq, ttsAudio} :
          \E i \in DOMAIN q : q[i] = [kind |-> "end", seq |-> s]
    \/ outPc = "checkpoint" /\ outSeq = s
    \/ s \in track.chk

\* The queues that drop their oldest packet when they are full never drop the
\* end of a response that can still be heard.  (With EmptyRetry the packets of
\* two such responses share them, and the end of the older one may be lost.)
EndIsOnItsWay == \A s \in Live(sm) : EndOnItsWay(s)

\* Between two events the interruption loop leaves neither a blocked gate nor
\* an unset cleanup event behind, so that nobody waits for a confirmation that
\* is over.
IdleManagerLeavesGateOpen == intPc = "idle" => cleanupDone /\ gate.state # "block"

-----------------------------------------------------------------------------
(* The core implements ResponseLife.                                        *)

LifeOf(s) == IF s > sm.current THEN "unborn" ELSE IF IsValid(sm, s) THEN "live" ELSE "gone"

Life == INSTANCE ResponseLife
        WITH Responses <- Seqs, TailChunks <- Chunks, Exclusive <- ~EmptyRetry,
             life <- [s \in Seqs |-> LifeOf(s)], tail <- late

\* Whatever the interleaving of the loops, responses live and die as
\* ResponseLife says.
LifeSpecHolds == Life!LifeSpec

-----------------------------------------------------------------------------
(* Fairness: asyncio runs every ready task, the providers end their streams  *)
(* or fail, the gate wait times out, the caller stops speaking.              *)
Fairness ==
    /\ WF_vars(TakeTurn) /\ WF_vars(FinishCancelOld) /\ WF_vars(CleanupOver)
    /\ WF_vars(LlmSaved) /\ WF_vars(StreamEnd) /\ WF_vars(FinishRepair)
    /\ WF_vars(FinishRetry)
    /\ WF_vars(TakeRequest) /\ WF_vars(SynthDone \/ SynthFails)
    /\ WF_vars(TakeAudio) /\ WF_vars(GateReleased \/ GateTimeout)
    /\ WF_vars(SendChunk) /\ WF_vars(AudioSent) /\ WF_vars(SendCheckpoint)
    /\ WF_vars(SpeechStop) /\ WF_vars(ClearPlayback) /\ WF_vars(FinishConfirm)
    /\ WF_vars(RemotePlays) /\ WF_vars(HandlePlayed) /\ WF_vars(HandleCleared)
    /\ WF_vars(KeepTalking) /\ WF_vars(HangUp)

FairSpec == Spec /\ Fairness

\* A response that is created either gets its checkpoint to the telephony peer
\* or stops being live: no cycle of the gate, the cleanup event, the queues and
\* the confirmation keeps it pending for ever.  Two things may: a synthesis
\* that fails, after which nobody takes requests, and, when the retry's
\* response shares a full queue with it, the loss of its end.
ResponseCompletes ==
    \A s \in Seqs :
        s \in Live(sm) ~> \/ s \in track.chk \/ s \notin Live(sm) \/ phase = "closed"
                          \/ ~ttsUp \/ ~EndOnItsWay(s)
=============================================================================
