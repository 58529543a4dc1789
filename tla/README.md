# Verification of the voice agent

TLA+ models of `voice-agent-v2`, the TLC runs that check them and the theorems
TLAPS proves about them. Paths below are relative to `src/voice_agent/` of the
repository unless they start with `docs/` or `tests/`.

`PROJECT.json` is the machine-readable side: components, runs, the mutant that
each checked property must catch, the map from definitions to source lines,
the findings, the hazards and the theorems.

## 1. Inventory

One phone call is one `SessionOrchestrator`: a set of asyncio tasks joined by
bounded queues, with ports to telephony, STT, TTS and LLM providers.

| Component | State | Operations | Talks to | Modelled in |
|---|---|---|---|---|
| barge-in core (`core/session_orchestrator.py`, llm, tts, output, interruption and playback loops) | active LLM task and ids, cleanup event, hangup flag | one handler per packet; cancel, purge, invalidate | queues, gate, sequence manager, trackers, providers | `BargeIn` |
| sequence manager (`core/interruption/sequence_manager.py`) | newest id, valid ids, invalidated ids | create, invalidate, invalidate_pending, retire | called by every loop | `SequenceManager` |
| output gate (`output_gate.py`) | SEND, WAIT or BLOCK; blocked ids; a condition | set_*, block_sequences, decision_for, wait_until_released | output loop waits on it | `OutputGate` |
| interruption manager (`interruption_manager.py`) | active response, agent_is_speaking, candidate | speech start and stop, transcript, confirm, reject | gate, sequences, providers | `BargeIn` |
| playback tracker (`core/playback/`) | per message: sent, checkpointed, played, interrupted | mark_*, handle_playback_event | output, playback, interruption loops; context | `BargeIn` |
| turn manager (`core/turn_detection/`) | the current turn's text, times, end signals | speech, transcript, smart turn, emit, amend, discard | VAD loop, turn manager loop, delayed check | `TurnDetection` |
| session lifecycle (`start`, `_guard_loop`, `shutdown`, `_finalize_closed`) | call state, task set, shutdown flag | start, fail, end of stream, shut down | everything | `SessionLifecycle` |
| provider warm-up pool (`core/provider_warmup.py`) | entries, aliases, expiry and health tasks | prewarm, claim, discard, expire, close | API, session factory | `ProviderWarmup` |
| Vobiz adapter (`providers/telephony/vobiz.py`) | stream id, inbound queues, clear acknowledgement | receive, send audio, clear, checkpoint, hangup, stop | websocket, the loops on its streams | `VobizStream` |
| STT adapters (`providers/stt/`) | socket, reconnect buffer, tasks | send, receive, keepalive, reconnect, stop | websocket, warm-up pool | `SttStream` |
| Sarvam TTS (`providers/tts/sarvam.py`) | shared socket, codec, cancelled ids | synthesize, cancel, fall back, keepalive, stop | websocket, tts loop | `SarvamTts` |
| Cartesia TTS (`providers/tts/cartesia.py`) | socket, contexts, ignored contexts | synthesize, cancel, stop | websocket, tts loop | `CartesiaTts` |
| LLM adapter (`providers/llm/litellm.py`) and sentence aggregator (`core/response/`) | cancelled ids, next-chunk task; token buffer | stream_response, cancel, stop; add, flush | response task | `ResponseStream` |
| context, prompts, listener, logging, storage, API, audio, configuration | see `PROJECT.json` | text, numbers or I/O | | section 5 |

What is hard in it:

* *Concurrency.* asyncio suspends a task only at an `await` that really waits.
  Five loops share the ids, the gate and the trackers, and most handlers have
  one or two such points: the llm loop between invalidating an old response and
  creating a new one, the output loop at the gate and at every 20 ms chunk, the
  interruption loop while it clears the caller's playback. Three tasks evaluate,
  emit or discard the same turn, one of them after a thread call. Up to four
  tasks reconnect one STT socket; two use and drop Sarvam's.
* *Ordering.* Checkpoints, clear acknowledgements, transcripts, VAD events and
  the payloads of a cancelled synthesis arrive in any order with respect to what
  the loops do meanwhile.
* *Bounded queues.* The Vobiz receiver waits with a packet in hand when a queue
  is full, and holds up the stop event behind it; other queues drop the oldest.
* *Timeouts.* The gate, the cleanup event, the clear acknowledgement, the first
  audio and the first token are each waited for with a timeout whose end races
  the event; after the first audio there is none.
* *Failure.* Connections are lost at any time; a provider error ends one loop, and
  leaves the others; shutdown stops them and may itself be cancelled; a request or a
  session that is cancelled drops the stops it was waiting for.

The hazards, each at its line and with the properties that cover it, are in
`PROJECT.json`. Per component, correct means:

* barge-in core: one response on the air; nothing but the frame in hand of a
  response that was taken back; the gate and the cleanup event never left
  closed; every response finished or taken back; honest playback marks.
* turn manager: each utterance emitted once, none forgotten; a verdict never
  decides about another turn's audio.
* lifecycle: when telephony ends, a loop fails or a hangup is requested, the
  call reaches CLOSED with every task ended and every provider stopped.
* warm-up pool: a bundle has one owner; no bundle that was started is forgotten but
  by a cancellation or a half-failed start.
* STT adapters: frames keep their order across a reconnect, none is forgotten
  beyond the buffer's size; one connection at a time.
* TTS adapters: the audio of a sentence is the audio it is taken for; a cancel
  takes effect; a synthesis ends.
* LLM adapter and aggregator: what is spoken is what the model said, each token once and
  in order, up to the last text of a stream that failed; a cancelled stream stops;
  nothing awaits the model after.
* Vobiz adapter: end of stream and playback events reach their consumers
  whatever is full; an acknowledgement serves one clear; stop returns.

## 2. Modules

| Module | Models |
|---|---|
| `SequenceManager`, `OutputGate` | `sequence_manager.py` and `output_gate.py` as operators on their state |
| `BargeIn` | the barge-in core: the state machine, its invariants and fairness |
| `ResponseLife` | abstract specification: responses are born in order, leave for good, and leave a bounded tail |
| `BargeInClaims`, `TtsClaims` | statements of `docs/plan` that the code does not keep |
| `TurnDetection` | `turn_manager.py` and the three tasks of the session that call it |
| `SessionLifecycle` | how a session starts and ends: loops, end of stream, shutdown, cancellation |
| `ProviderWarmup` | `provider_warmup.py`, the sessions that claim and the route that places a call |
| `VobizStream` | `vobiz.py`, the platform, and the loops that read and write it |
| `SttStream` | `deepgram.py` and `stt/sarvam.py`: one socket, several tasks, its reconnection |
| `SarvamTts`, `CartesiaTts` | the two TTS adapters, each with the service and the tts loop that drives it |
| `ResponseStream` | `litellm.py`, the aggregator and the response task |
| `MC*` | root modules of the runs, with the values a `.cfg` cannot write |
| `*_proofs` | the inductive invariants and the theorems: one per module above, but for the pool and the session, which share `Lifecycle_proofs` |

An action is what a task does between two suspension points; where a handler
suspends, the rest is another action. A put with `DROP_OLDEST`, a gate setter
(an uncontended lock) and a log call do not suspend. Counters of things that
happen (responses, frames, sentences, sockets) are bounded by constants whose
declaration says "bound"; all other constants are settings of the code.

### BargeIn

`TakeTurn`, `Confirm`, `RequestHangup`, `LateRepair` and `StartRetry` each
contain the purges, gate updates and cancellations that the code makes in one
go. `TakeTurn` / `FinishCancelOld` / `CleanupOver` / `LlmSaved` are
`_run_llm_response`, `TakeAudio` / `GateReleased` or `GateTimeout` /
`SendChunk` / `AudioSent` are `_output_loop` and `send_audio`, `Transcript` /
`ClearPlayback` / `FinishConfirm` a confirmed interruption, `LateRepair` /
`FinishRepair` and `StartRetry` / `FinishRetry` the turn manager's two ways of
cancelling a response. A synthesis ends in `SynthDone`, or in `SynthFails`: what
`synthesize` raises ends the tts loop (`_guard_loop`), and nobody takes its requests
any more.

| Variable | Code |
|---|---|
| `sm`, `gate` | the sequence manager and the gate |
| `im` | `active_response` (its id), `agent_is_speaking`, the candidate; history `stray`: the response in which a word heard in silence began the candidate |
| `cleanupDone`, `intPc` | `_interruption_cleanup_done`; where the interruption loop is suspended |
| `llmPc`, `llmSeq`, `llmOld`, `sentences` | `_active_llm_task` and what it is doing |
| `ttsReq`, `ttsAudio`, `ttsSeq`, `frames` | the two output queues and the sentence in synthesis |
| `ttsUp` | the tts loop is running |
| `outPc`, `outSeq`, `outLeft` | the packet the output loop holds and the chunks left of its frame |
| `track`, `marks`, `inbound`, `playPc` | the tracker, the peer's queued checkpoints, its events, the playback loop |
| `turns`, `made`, `repairSeq`, `retryOld` | turns queued and emitted; the two cancellations in progress |
| `late` | history: chunks sent of a response that was no longer valid |

Text is absent: a transcript is a backchannel, an interruption or too short to
tell; the token stream yields any number of sentences up to a bound. Time is
absent: a timeout may fire whenever it is armed. `interruption_enabled`,
`wait_gate_on_speech_start` and `clear_audio_on_confirmed_interrupt` are true
and `preemptive_clear_audio` is false, their defaults. A waiter at the gate is
woken before the acknowledgement of a clear can come back (it was queued first,
the other needs the network), hence the guard of `FinishConfirm`; every other
setter of the gate may run before it. After the call is closed nothing runs: the
shutdown itself belongs to `SessionLifecycle`.

### TurnDetection

Time is discrete here and a timestamp of the code is its age (`Off` for `None`),
counted no further than the code's comparisons see. `st` is `TurnState`, `last`
the last emitted turn, `check` the delayed check, `op` where each of the three
tasks is suspended, `supp` the suppression of overlapping speech, `cfg` the
settings that are on. `Rules` is `evaluate`, the first line that applies being the
decision; `NextDelay` is `_next_turn_check_delay_ms`, `RetryLeft`
`_empty_transcript_retry_delay_ms`; `VadStart`, `VadStop` and `Verdict` are the
VAD loop, `TranscriptSuppressed`, `LateRepair`, `Transcript` and
`TranscriptsEnd` the turn manager loop, `CheckFires` the delayed check, and
`FinishEmit` / `FinishRetry` what any of them does after its suspension.

The caller talks and pauses, the recogniser reports the beginning of a phrase,
all of it and then its final text, up to `MaxLag` ticks late, or that it heard
nothing. A phrase is a number; whether it ends in a connector is data (`Open`).
VAD events carry wall-clock milliseconds, as the adapter's do; one transcript at
a time is in the queue. `set_expected_answer` is called by nobody and
`smart_turn_runner` is passed by nobody: both are left out. The model's verdict is
any of the three.

### SessionLifecycle

The task of the websocket session starts the providers and fourteen loops and
gathers them. Here a loop runs, takes the end of its input, may have a provider
to stop, and passes the end on. The map of who passes it to whom (`Readers`,
`QueueLoops`, `Stopper`, `EosTo`) is data, the actions are the same for every
loop.

| Variable | Code |
|---|---|
| `state` | `CallState`, with LISTENING to INTERRUPTED as one value |
| `main`, `cancelled` | where the session's task is in `run`; whether the server cancelled it |
| `pc` | where each loop is: running, awaiting a response (llm), in a provider's `stop`, in a hangup, in `shutdown`, cancelled, over |
| `eos` | loops whose queue or stream has ended |
| `prov` | each provider: up, ended by the peer, stopping, stopped, or abandoned in the middle of its stop |
| `shut` | which task runs `shutdown` and how far it is |
| `saved` | history: times the record was stored |

`stop` of the speech adapters returns at once when it has begun before
(`stopped` is set first), that of the telephony does not; hence `BeginStop` and
`EndStop`. A cancelled task leaves the stop it is in (`Abandon`), unless the
cancellation meets it where the adapter waits for one of its own tasks with
`suppress(CancelledError)`, when it goes on. `ServerCancel` is the cancellation
of `run`: while the loops are gathered it reaches each of them; the llm loop
takes it for a cancellation of its response unless shutdown has begun. A failing
`telephony.start` is left out (its stream is up before `run` is called).

### ProviderWarmup

The pool's lock is only ever held between suspensions, so each method is one
action up to its first `await` that waits. `BeginPrewarm` (the stale entries leave the
pool) / `StartBundle` (they are stopped) / `PrewarmReady` or `PrewarmFails` are
`prewarm`; `BeginClaim` / `TakeEntry` / `FinishClaim` (the health check returns) are
`claim`; `MonitorLooks` / `MonitorDecides` the health task; `ExpiryFires`, `AddAlias`,
`CallFailed` and `Close` the rest. `Close` may come at any time and the pool goes on
afterwards, as the code lets it. A request is named by the bundle it prewarms.

The stop of a bundle ends in `StopDone`. Requests and sessions wait for the stops they
begin, and `CancelRequest` and `CancelClaim`, the server's cancellations, abandon
those (`GiveUp`); a request that is cancelled while its bundle starts does not stop it
either, for `CancelledError` is no `Exception`. `PrewarmFails` stops the bundle with
the other provider's `start()` perhaps still running, which `gather` does not cancel
(`SiblingEnds`).

| Variable | Code |
|---|---|
| `entries`, `alias` | `_entries`, `_aliases` |
| `idOf`, `names`, `expiry`, `monitor` | of a bundle: its prewarm id, `entry.aliases`, `_expiry_task`, `_health_task` |
| `preparing`, `starting`, `stopping`, `stopped` | bundles whose request has yet to create them, and whose providers somebody starts, stops, or has stopped |
| `by` | the request or the session that waits for a stop |
| `sibling`, `left` | bundles with one `start()` still running after the other failed; bundles that may keep a connection nobody closes |
| `session` | a websocket session in `claim`, and what it got |
| `dead`, `old` | what `_provider_alive` and the time to live would say |

The API draws a fresh id per call (`uuid4`), the pool does not rely on it, and
the model lets ids be reused.

### VobizStream

The platform is external: it opens with one start packet (accepted, refused, or
its media format refused), sends media, plays what it is sent, reports each
checkpoint, carries out clears and delivers in order; it may leave with a stop
packet or without. `wire` and `line` are the two directions. `Receive` is one
turn of `_receiver_loop` with the handler it calls, up to a put that must wait
(`PutHeld`); `Finish` is `_finish_stream` with `PutTerminal`; `StopSent` and
`StopReturns` are `stop()`, which two tasks may be in. `RouteFrame` and
`TakeEvent` are the two loops of the session that read, `SendStarts` /
`SendChunk` / `SendCheckpoint` / `SendFails` the output loop, `ClearStarts` /
`ClearReturns` / `ClearTimeout` `clear_playback`. Each entry on the line carries
the number of clears sent before it (`epoch`), which the code does not have and
`AckServesOneClear` needs. Codecs, parsing and the packets that change nothing
are left out, and so are media before the start packet and a second start that
names another call.

### SttStream

Both adapters: they differ in the keepalive loop (`KeepAlive`) and in what they
write. `pc` says where each of sender, receiver, keepalive loop and health check
is: idle, waiting on its socket, closing one (`Drop`), waiting for
`_connect_lock` (`ahead` is who has it before), making its attempts, flushing.
`Locked` is `_ensure_connected` under the lock; `Connects`, `ConnectFails` and
`FlushOn` are `_connect_with_retries` and `_flush_reconnect_buffer`; `Send` and `Sent`
are `send_audio`; `Claim` is the call taking the provider out of the warm-up
pool; `Stop` / `StopCloses` / `CancelSender` the end. Answers of the recogniser
are left out. Two facts of the websocket library are assumed: a closed
connection wakes those who wait on it before a new one can be up, and closing
one that is dead does not suspend.

### SarvamTts and CartesiaTts

Each has the service (`Answers`), what it still owes (`work`), the payloads on
their way (`pipe`), the place of the tts loop in `synthesize` (`pc`), and what
other tasks do to it: `Invalidate` a message, `Cancel` it, lose the connection,
`Stop`. Sentences are numbered, several make a message, and a response is
invalidated as a whole. `voiced` is history: for which sentence a payload was
passed on and of which it was made.

In Sarvam's, payloads name no request. `Ensure` is `_ensure_connected`, `Begin`
/ `Sends` / `Receives` / `Over` are a synthesis, `Fallback` the reconnection with
another codec, `KeepsAlive` the keepalive loop, `Leaves` the tts loop leaving the
generator at a frame whose sequence is invalid. In Cartesia's the id of a message
is the context of all its sentences, contexts are answered side by side, and
`context_ids_to_ignore` drops the cancelled ones; a cancel is written later
(`Tell`). The connection is never made again. Audio conversion, word timestamps
and the checks of `start()` are left out.

### ResponseStream

`Begin` to `StreamEnds` are `stream_response` with its `next_chunk_task`
(`pulling`), `Reads` and `FlushDue` the aggregator in the response task, `Emit` a
sentence put in `tts_request`, `ProducerCancelled` and `Closes` the end of
`aggregate_token_stream`. A token is its number and the mark it ends with;
lengths are counted in tokens. `Cancel`, `Invalidate`, `CancelTask` and `Stop`
are the other tasks. What `sanitize_for_speech` rewrites is left out.

## 3. Runs

| Run | Question | Instance |
|---|---|---|
| `barge_in` | the invariants of the core, that full queues lose no end of a response, and that it implements `ResponseLife`, one response at a time | interruptible greeting and two turns (3 ids), one sentence of 2 frames of 2 chunks, queues of 2, late repairs, no retry |
| `barge_in_live` | with the retry on, what a waiting gate and an active response rest on; every live response gets its checkpoint out or is taken back, unless a synthesis failed | 2 ids, two turns, retries, 1 frame of 1 chunk, queues of 2, no greeting |
| `warmup` | the safety of the pool, and that no bundle is forgotten but in the ways its cancellations and half-failed starts have | 2 ids, 1 alias, 2 bundles, 2 sessions |
| `lifecycle` | the safety of the end of a call, and that every stream that ends and every shutdown closes it | 9 loops, of which interruption manager, playback, tts and output may fail, cancellation by the server |
| `turn` | each utterance judged by its own verdict, looked at again, emitted once and not lost | 2 phrases, the second ending in a connector, talking twice, thresholds of 1 and 2 ticks, events up to 1 tick late; the defaults, and no smart-turn model with a greeting the caller may not interrupt and a recogniser whose stream may end |
| `vobiz` | the end of the stream, playback events, acknowledgements and stop, with full queues | 1 place per queue, 2 in `stt_audio`; 2 frames, 1 send of 2 chunks, 2 clears, any 3 of them |
| `stt` | order and loss of frames, one connection, and that `send_audio` returns | 4 tasks, 3 sockets, 4 frames, a buffer of 2, 1 retry |
| `sarvam_tts` | whose audio is heard, how many connections there are, that a synthesis ends | 3 sentences in 2 messages, 2 payloads each, 2 sockets |
| `cartesia_tts` | whose audio is heard, that a cancel is heeded, that a synthesis ends | 4 sentences in 2 messages, 2 payloads each |
| `response` | nothing lost between model and speech queue, cancels, and that a response ends | 5 tokens, sentences of 2 to 3 |
| `claim_stale`, `claim_late` | statements of `docs/plan`, each refuted | the smallest instance that shows it |

Why these bounds are enough: every property is about one response, sentence, frame or
clear and the next one. Three ids give an old response, a new one, and one that is
created while the new one is being cancelled. Two chunks per frame let an event fall
inside a frame, two frames let one be held at the gate while the other is queued, and a
queue of 2 packets overflows (2 frames and the end of a response are 3). `barge_in_live`
has two ids: the loss of an end that `ResponseCompletes` excepts needs a third and does
not occur in it. For the pool, two ids let an alias and a task of one entry meet another
entry; two bundles are an entry and the one that replaces it; two sessions contend for
one entry. In the lifecycle the loops that are left out (`Sinks`) end with their input
and pass nothing on. In `turn`, two phrases are a turn and what comes after it, and
every threshold lies on both sides of a time that occurs. In `vobiz` one place per queue
makes every queue full at once, with a packet in the receiver's hand, and two clears are
one that timed out and one that its acknowledgement can be mistaken for; `MaxActs` keeps
the run short, since a frame more changes nothing of what a clear meets. In `stt` four
frames overflow the buffer twice and three sockets let a flush fail and be made again.
In the TTS runs the sentences are two of one message and one of the next; two sockets
are the first and a fallback's or one after a loss. In `response` five tokens are a
sentence cut by length and the rest it leaves. In the lifecycle the four loops that may
fail are two nobody depends on and two that pass the end of stream on and stop a
provider. Every safety property of these runs but `EndIsOnItsWay` is proved without any
bound (section 4).

Properties:

* `BargeIn`. `OneLiveResponse` (retry off): the id manager never has two valid
  responses. `BlockedGateHasNoLiveResponse`, `IdleManagerLeavesGateOpen`: a confirmation
  that outlives the wait for its cleanup leaves neither a gate that swallows the next
  response nor an event nobody sets. `LateAudioIsOneFrame`: the audible consequence of
  an interruption is bounded. `WaitIsOwed`: the gate is put in WAIT from three places;
  while a response is active, the end of the caller's speech or an emitted turn is going
  to reopen it, and a word heard in silence, which nothing rejects, holds up only the
  response it came in. `ActiveResponseIsLive`: what the interruption manager would
  cancel is what the caller can hear. `PlayedOrInterrupted`: marks from checkpoints,
  estimates, clears and confirmations never contradict each other. `LifeSpecHolds`:
  refinement of `ResponseLife`. `EndIsOnItsWay` (retry off): queues that drop their
  oldest packet never drop the end of a live response. `ResponseCompletes`: liveness;
  excepted are a tts loop that has failed and an end that was lost.
* `TurnDetection`. `VerdictIsOfThisTurn`, `TextHasACheck` (some task will look at
  the text again), `FinalTextOnce`, `NothingHeardIsLost` (final text leaves a
  turn only into an emitted one, by the suppression or by a retry),
  `OverdueTextIsEmitted` (silent for as long as a turn ever waits, a speech long
  enough is emitted by the next check).
* `SessionLifecycle`. `RecordIsFinal` (stored once, when nothing can change it),
  `ClosedStopsProviders` (but for a provider whose loop failed in a call nobody shut
  down), `EndCloses` (unless a loop that passes the end of stream on fails and nobody
  shuts down, or the server cancels the session).
* `ProviderWarmup`. `SoleOwner` (no two calls over one connection, no stop under
  a running call), `TasksFollowEntries` (a task that acts by id after an `await`
  still means its own entry), `BundlesSettle` (a bundle that was started is
  stopped, unless a call has it, a session was cancelled with it in hand, or it is one
  of those in `left`).
* `VobizStream`. `EndReachesReaders`, `NothingSkipped`, `AckServesOneClear`, and
  the liveness of `EndIsNoticed` and `StopEnds`.
* `SttStream`. `FramesInOrder`, `NoFrameForgotten`, `OneConnection`,
  `SendReturns`. `FramesInOrder` excepts a flush that was cut off whose task then
  gave up; `OneConnection` a task that was in its attempts when stop came.
* `SarvamTts`. `OwnAudio` excepts sockets on which a generator was left half-way
  (finding `claim_late`); `OneConnection` a loop that connects while stop runs;
  `SynthesisEnds` a synthesis stranded on a connection that was never asked.
* `CartesiaTts`. `OwnAudio` without exception, `CancelIsHeeded`; `SynthesisEnds`
  excepts a message cancelled after its first audio.
* `ResponseStream`. `NothingLostOnTheWay` (leaves it open whether the last text of a
  stream that failed is said), `CancelStopsTheStream`,
  `NothingPullsOnAfterwards` (excepts a cancelled producer), `ResponseEnds`.

Fairness is weak fairness of what asyncio runs when it is ready; the outside is
free unless the code has a timeout for it.

* `BargeIn`: the loops' actions; `StreamEnd` stands for the model's end or its timeout,
  `SynthDone \/ SynthFails` for a provider's end, error or timeout, `GateReleased \/
  GateTimeout` for a wait with a timeout, `FinishConfirm` for `clear_playback`, which
  has one; `SpeechStop` because a caller stops speaking. Turns, speech, transcripts,
  repairs, retries and the playback estimate are free.
* `ProviderWarmup`: starts (the one left behind too), stops and health checks end, time
  passes, the expiry task runs; prewarms, claims, drops and cancellations come from
  outside.
* `SessionLifecycle`: a loop takes an end of input that is there, stops and
  responses end, cancellations arrive and `shutdown` goes on; `TurnsRunOut` says
  that a turn manager that is over has left finitely many turns in the queue.
  The peer, the hangup, failures and the server's cancellation are free.
* `VobizStream`: receiver, loops and a stop that has begun; nothing of the
  platform, the caller, the recogniser or of when the session ends.
* `SttStream`: the library's pings and timeouts end a read or a write on a dead
  connection; attempts end. Nothing of the recogniser or of when it is lost.
* `SarvamTts`, `CartesiaTts`: the tts loop and its first-audio timeout; and that
  a service on an open connection goes on with what it was asked, since after
  the first audio the code has no timeout of its own.
* `ResponseStream`: producer and response task; the model may stay silent, its
  timeout is the code's.

`CHECK_DEADLOCK FALSE`: calls end, and an instance uses up its bounds.

### Findings

* `claim_stale`: a chunk waiting at the gate is sent after its response was
  invalidated, when the gate reopens for the next response: nothing is checked
  after the wait. `docs/plan/11` line 147 says that a stale chunk is never
  allowed. `LateAudioIsOneFrame` bounds the damage.
* `claim_late`: the tts loop that sees an invalid sequence at a frame leaves
  Sarvam's generator half-way; the rest of that answer is spoken for the next
  sentence, and every later sentence is one answer behind. `docs/plan/13` line
  101 says that late chunks after a cancel are dropped.

### Behaviours worth knowing

Met while modelling, each allowed by the model named, and without a run of its
own.

* `BargeIn`. The rest of the frame in hand follows its `clearAudio` (`docs/plan/01` line
  115). Chunks dropped by the gate's timeout still count as heard (`docs/plan/20` line
  76); the estimate of what was heard is in proportion to the whole generated text. A
  transcript that comes after the speech stop begins a candidate of its own and puts the
  gate in WAIT with nobody speaking and nothing to reject it: what waits there is
  dropped by the gate's timeout, and `WaitIsOwed` says that no later response is held up
  by it. A synthesis that fails ends the tts loop for the rest of the call: the response
  stays live and is never heard. With the retry on two responses can be live: speech
  without a transcript starts the retry, which invalidates the response being spoken and
  suspends in `tts.cancel`; the llm loop takes a turn, finds nothing to invalidate and
  begins its response; the retry resumes and creates its prompt without looking again
  (`OneLiveResponse` under the constants of `barge_in_live`, with a third id, shows it).
  With two live responses in queues as small as 2, the older can lose its end packet to
  `DROP_OLDEST`; without the retry none does (`EndIsOnItsWay`). The code's queues are
  larger.
* `TurnDetection`. A turn whose measured duration is too short
  (`turn_manager.py` line 186) is checked again and again and does not end by
  itself, also after the maximal silence, which `docs/plan/10` line 147 says
  prevents waiting for ever. Silence is measured from the last VAD stop even
  while the caller talks again (line 190; `docs/plan/10` line 143), so a
  transcript that comes then may end the turn. A late final text of an interim
  that was emitted by force may be answered twice, and the suppression of
  overlapping speech may outlive the overlap. Turns whose emission is suspended in
  `_save_live_state` may enter the queue out of order.
* `SessionLifecycle`. A tts loop that failed (a first-audio timeout is enough)
  keeps the end of stream from the output loop, which waits for ever
  (`docs/plan/07` line 103). The llm loop swallows the cancellation of the session
  while it awaits a response, and the session waits for it (`docs/plan/04` line
  169). A shutdown cancelled half-way is never finished, for the next caller finds
  that one has begun (line 164), and it passes over a stop that a loop has begun
  and then cancels that loop (line 158). A start that fails after
  `telephony.start` leaves what is up to nobody.
* `ProviderWarmup`. A claim or a prewarm that the server cancels abandons the stops it
  is in, and leaves to nobody the other stale entries it took out of the pool. A prewarm
  one of whose providers fails stops both while the other is still connecting, which may
  then be connected with nobody to close it. A prewarm that ends after `close` has an
  entry in the pool all the same.
* `VobizStream`. An acknowledgement that comes after its clear timed out serves
  the next clear. A start that fails between the platform's start packet and the
  loops leaves the adapter stopped by nobody. A hangup by the playback loop is
  cancelled by the shutdown of the session if that comes first.
* `SttStream`. Frames may be reordered after a flush that was cut off. A task in
  its attempts when `stop()` comes opens a socket nobody closes.
* `SarvamTts`. A connection lost between two payloads leaves the synthesis
  waiting on a new one that was asked nothing, after the first audio for ever. A
  stop that races a connection or a fallback leaves a socket open. A failed ping
  of the keepalive loop closes whatever connection is current by then.
* `CartesiaTts`. A context cancelled after its first audio may never be ended by
  the service; contexts are not forgotten when a synthesis fails; the connection
  is not made again; a synthesis after `stop` raises.
* `ResponseStream`. A stream that fails in the middle of a sentence has the broken
  sentence spoken; `docs/plan/12` lines 98 to 100 say that it is not sent.
  `NothingLostOnTheWay` holds either way. A producer cancelled while it
  waits leaves its next-chunk task pending until the model speaks or hangs up.

## 4. Theorems

TLAPS proves, for every value of the constants that satisfies the module's
assumption (all bounds are arbitrary naturals, so calls of any length), the
theorems below. Each follows from an inductive invariant `IInv` of its module by
the three facts `Init => IInv`, `IInv /\ [Next]_vars => IInv'` and `IInv =>` the
property.

| Module | Theorems |
|---|---|
| `BargeIn_proofs` | `OneLiveResponseHolds` (assuming `~EmptyRetry`), `BlockedGateHolds`, `LateAudioHolds`, `PlayedOrInterruptedHolds`, `ActiveResponseHolds`, `WaitIsOwedHolds`, `IdleManagerHolds`, `LifeSpecRefined` (the refinement) |
| `TurnDetection_proofs` | `VerdictIsOfThisTurnHolds`, `TextHasACheckHolds`, `FinalTextOnceHolds`, `OverdueTextIsEmittedHolds`, `NothingHeardIsLostHolds` (an action property), `TypesHold` |
| `Lifecycle_proofs` | of `ProviderWarmup` `SoleOwnerHolds`, `TasksFollowEntriesHolds`, `AliasesResolveHolds`, `PoolTypesHold`; of `SessionLifecycle` `RecordIsFinalHolds`, `ClosedStopsHolds`, `TypesHold` |
| `VobizStream_proofs` | `NothingSkippedHolds`, `EndReachesHolds`, `AckHolds`, `TypesHold` |
| `SttStream_proofs` | `FramesInOrderHolds`, `OneConnectionHolds`, `NoFrameForgottenHolds`, `TypesHold` |
| `SarvamTts_proofs` | `OwnAudioHolds`, `OneConnectionHolds`, `TypesHold` |
| `CartesiaTts_proofs` | `OwnAudioHolds`, `CancelIsHeededHolds`, `TypesHold` |
| `ResponseStream_proofs` | `NothingLostHolds`, `CancelStopsHolds`, `NothingPullsOnHolds`, `TypesHold` |

The arguments:

* **BargeIn.** `SeqInv`: valid ids are at most the newest one, and, without the
  retry, only the newest id can be valid and none is while the llm loop sits
  between invalidating and creating; that is what makes `create_sequence` safe
  when it comes. `GateInv`: a blocked gate means nothing is valid. `LateInv`:
  nothing was sent late of an id that is valid, unborn or held at the gate, and
  for the id in hand the chunks sent late plus those left fit one frame; this is
  why checking the id only at dequeue costs one frame and no more. The steps are
  of few shapes: those that only take responses off the air (`ShrinkOK`), the
  birth of a response (`BirthOK`), steps of the output loop (`OutputOK`).
  The four other properties need `OwnedInv`, with what the tasks share.
  `ActiveInv`: the active response is live or one of three suspended tasks is
  about to tell the manager, and which one; the property alone says only that
  some task is suspended, and when one of two returns it would be lost.
  `PeerInv`: checkpoints and playback events in flight are of responses that were
  made, so that no mark is of an id that is born later; `PlayedInv`: what was
  played is not active, so that a confirmation cannot mark it interrupted.
  `WaitIsOwed` and `IdleManagerLeavesGateOpen` are parts of it themselves, for
  each needs the others.
* **TurnDetection.** `Core` is about the turn in progress, the turns emitted and
  the tasks that are suspended with one in hand. `StOK` and `Judged`: a verdict on
  the audio of a turn that is gone finds no turn, or one that pays no attention to
  verdicts. `Once`: results come in the order of their phrases, what is in a turn has
  come and is in no other, what is still to come is in none; `FinalTextOnce` alone
  says nothing of the turn in progress, into which a suspended task's turn may
  be amended. `TextHasACheck` is inductive with the end signals (`vadStop` or
  `final` once the caller is silent): `NextDelay` then gives a delay whatever the
  ages are. `OverdueTextIsEmitted` needs no history but the types: among the twelve
  rules the one of the maximal silence applies (`FirstRule`). The actions share
  `EmitShapes`: a decision keeps the turn, drops it, or emits it. `TurnAssumption`
  orders the settings as the defaults are, and says that an event waits no longer
  for its loop than the maximal silence.
* **ProviderWarmup.** `PoolInv`: an entry is under the id its bundle was
  prewarmed under, an alias is among the names of the entry it leads to, tasks
  follow entries. `OwnInv`: the owners of a bundle exclude each other, a bundle
  somebody stops, has stopped or has left (`Gone`) is in no pool and no call, and one
  that was never prewarmed is nowhere. Neither property is inductive alone:
  `ExpiryFires` discards by id, and only `EntryKnowsId` with `TasksFollowEntries`
  says that what it finds is its own bundle.
* **SessionLifecycle.** `Starting`: until the providers are up there is no loop.
  `Runner`: who runs shutdown is in it or has left it for good, and only the
  server aborts it; so when the state is CLOSED either the session's task or the
  one in shutdown has seen every other loop end. `Saving`: without the server's
  cancellation one task at most is about to store the record. For
  `ClosedStopsHolds`, `Stops`: a loop that stops a provider is not over before it
  has or it fails, and a shutdown that gathers has begun to stop all three. The
  exception is the code's: if such a loop fails and nobody asks for a shutdown, `run()`
  closes the call with that provider up. A loop that failed stays failed
  (`FailedStays`), so the exception is not taken back once the call is closed.
* **VobizStream.** The end marker, once in a queue, is taken by the reader alone;
  the receiver may still put one packet behind it, and a second `_finish_stream`
  changes no queue. `UnderWay`: there are no loops before the session has started,
  so nobody has missed it. For `AckHolds`, `Ordered`: the clears on the line and
  their acknowledgements on the wire are numbered without gaps to mistake, and the
  clears that returned, with the one that is `Due` to, are at most the number of the
  next acknowledgement. Receiving one makes at most one due, clearing the event
  before the next clear takes it back: so a late acknowledgement serves the next
  clear, but never two.
  For `NothingSkippedHolds`, `OnTheWay`: `Kinds` says what may be in each queue and in
  the receiver's hand; `EventsKept` that what the platform told is what was seen, then
  what is queued, then the events still `Unread`; `FramesKept` that the frames in the
  queue and behind it rise from the last one routed, without a gap while the stream is
  up; `SttKept` the order in `stt_audio`. The last two must hold after the end too: a
  queue that lost its head to the marker, or got a packet behind it, still rises, and
  that keeps the recogniser's frames in order. Each step is first shown to be one of the
  nine moves of `Move`, and the four parts are proved of those.
* **SttStream.** `LockOK` is the order of `_connect_lock`. `Wires`: whoever
  connects has the lock and finds no connection, whoever flushes does it to the
  current socket or to one that was dropped; that leaves one socket open.
  `Waiting`: what is in the buffer while the connection is up is being flushed to
  it. `Account`: every frame given is written, buffered or lost in a known way.
  For `FramesInOrderHolds`, `Ordered`: as long as no flush was cut off, what was
  written to a socket is in order, what waits in the buffer is in order and behind
  all of it, and a frame in the sender's hand is behind both. That the sender does
  not write past a buffer that waits is `Behind`, which says where it can be: in
  the queue of `_connect_lock`, the last of it, or with one frame waiting that the
  next holder of the lock flushes. `Told`, `Newest` and `Used`: who waits on a
  socket waits on the current one, sockets are used in order, and nothing is
  written to one that was never open.
* **SarvamTts.** `Fresh`: nothing is on a socket to which a request is about to be
  written; `Answering`: what is on the socket a synthesis reads answers its
  request, and nothing follows what ends it. Each synthesis that reads to the end
  gives `Fresh` back to the next; a socket left half-way is in `broken` and out of
  the property. `Current`: the synthesis is on the current socket unless
  another task dropped it.
* **CartesiaTts.** `Leftovers`: of the message being synthesized nothing is pending
  but the current sentence, and of a message whose earlier sentence was left, no
  sentence is taken up again; since sentences share their context, this is what
  keeps them apart. `Answered`: payloads name their context, and nothing of a
  sentence follows its end.
* **ResponseStream.** `Tally`: what is spoken, buffered and queued against what was
  yielded; `Counts`: what was yielded against what was made; `Awaited`:
  who still awaits a chunk; `Ending`: the task ends on the marker with nothing
  behind it.

Induction over data is used in one form only: of a set of naturals that is not
empty there is a least member (`Least`, from the library's theorem on well-founded
relations). The library's other induction theorems take an operator as a parameter,
which no backend can instantiate. In `VobizStream_proofs` it carries what is needed of
the recursive `OfKind`: that it exists at every length (`UnfoldsExists`), depends on
nothing behind (`UnfoldsSame`), and is taken of two sequences apart (`OfKindConcat`).

Only model-checked: liveness, which the prover does not do, and `EndIsOnItsWay`. The
`TypeOK` of `BargeIn` holds in TLC and is neither proved nor part of a run; what the
proofs need of it is in `IInv`, `ManagerInv`, `PeerInv` and `PlayedInv`.

## 5. Not modelled

* *Local models* (Silero VAD, smart turn): inference. When the VAD reports and
  that the verdict may be anything is in `TurnDetection`.
* *Audio conversion, chunking, rolling buffer*: arithmetic on samples with no
  state that outlives a call. Routing is in `VobizStream`.
* *Context manager and prompt builder*: text; history trimming cuts by characters
  and messages.
* *End-call listener*: its request for a hangup is an input of `BargeIn` and
  `SessionLifecycle`; how it reads a sentence is text.
* *Call logger, metrics, latency tracker*: they observe, nobody waits for them; the
  queue that drops metrics has no property.
* *Assistant manager and post-call tasks, storage*: reads and writes of files and a
  database, after the call or before it, one at a time.
* *HTTP API*: request validation; placing a call is in `ProviderWarmup`, the
  websocket session in `SessionLifecycle` and `VobizStream`.
* *Configuration, agents, factories*: read once.
* Of modelled components: `estimate_heard_text` (arithmetic on lengths); the
  transition table of `state_machine.py`, which the orchestrator does not use; the
  summary of a long turn text and expected answers, which nothing sets; what
  `start()` of the speech adapters checks of its settings; the warm-up pool's health
  check of the TTS adapters; a retry whose text is empty.
