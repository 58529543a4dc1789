------------------------------ MODULE SarvamTts ------------------------------
(***************************************************************************)
(* providers/tts/sarvam.py and the tts loop of the session that drives it:  *)
(* one websocket whose payloads carry no name of the request they answer.   *)
(* What a synthesis takes for its own is whatever comes next, so everything *)
(* rests on the synthesis before it having read its answer to the end.      *)
(*                                                                          *)
(* _send_lock only orders writes: a write here happens when it has the      *)
(* lock.  The flush of cancel() makes the service do nothing, since no text *)
(* is waiting.  The health check of the warm-up pool is left out, which     *)
(* comes before any synthesis and whose reconnection SttStream has.         *)
(***************************************************************************)
EXTENDS Naturals, Sequences

CONSTANTS
    MaxReqs,    \* bound: sentences of the call
    PerMessage, \* sentences of one response
    Chunks,     \* bound: audio payloads of one answer
    MaxSockets  \* bound: connections opened in the call

ASSUME TtsAssumption ==
    /\ MaxReqs \in Nat \ {0} /\ PerMessage \in Nat \ {0}
    /\ Chunks \in Nat \ {0} /\ MaxSockets \in Nat \ {0}

Reqs == 1..MaxReqs
Sockets == 1..MaxSockets
None == 0
Message(r) == (r - 1) \div PerMessage
Messages == {Message(r) : r \in Reqs}

VARIABLES
    ws,        \* _websocket
    socks,     \* each socket: "none", "open", "dead" (lost) or "closed" (by us)
    work,      \* per socket: what the service has yet to say of each request
    pipe,      \* per socket: payloads not yet received
    pc,        \* where the tts loop is in synthesize(), and in cancel()
    next,      \* what it does once connected: "sending" or "receiving"
    cur,       \* the request being synthesized, or the last one
    sock,      \* the socket it uses
    first,     \* first_chunk_received
    linear,    \* _output_audio_codec is linear16
    cancelled, \* cancelled_message_ids
    invalid,   \* messages whose sequence is invalid
    ping,      \* the socket the keepalive loop pings, or None
    stopped,   \* stop() has been called
    stopping,  \* where it is: "no", "cancelling" (the keepalive loop) or "done"
    voiced,    \* history: audio passed on: for which request, of which, on which socket
    broken,    \* history: sockets a synthesis left before its final event
    late       \* history: the loop was connecting when stop() came, or began to after it

synVars  == <<pc, next, cur, sock, first>>
stopVars == <<stopped, stopping, late>>
vars == <<ws, socks, work, pipe, synVars, linear, cancelled, invalid, ping, stopVars, voiced, broken>>

\* start() has connected.
Init ==
    /\ ws = 1 /\ socks = [s \in Sockets |-> IF s = 1 THEN "open" ELSE "none"]
    /\ work = [s \in Sockets |-> <<>>] /\ pipe = [s \in Sockets |-> <<>>]
    /\ pc = "idle" /\ next = "sending" /\ cur = 0 /\ sock = None /\ first = FALSE
    /\ linear = FALSE /\ cancelled = {} /\ invalid = {} /\ ping = None
    /\ stopped = FALSE /\ stopping = "no" /\ voiced = {} /\ broken = {} /\ late = FALSE

Open(s) == s # None /\ socks[s] = "open"
Closed(s) == [socks EXCEPT ![s] = IF @ = "open" THEN "closed" ELSE @]

-----------------------------------------------------------------------------
(* The service and the network.                                             *)

Says(s, kind) == pipe' = [pipe EXCEPT ![s] = Append(@, [kind |-> kind, of |-> Head(work[s]).req])]

OneLess(w) == [req |-> w.req, left |-> w.left - 1]

\* Requests are answered one after the other: audio, then the final event
\* (send_completion_event is on), or an error instead.
Answers(s) ==
    /\ Open(s) /\ work[s] # <<>>
    /\ \/ /\ Head(work[s]).left > 0 /\ Says(s, "audio")
          /\ work' = [work EXCEPT ![s] = <<OneLess(Head(@))>> \o Tail(@)]
       \/ /\ \/ Says(s, "final")
             \/ Head(work[s]).left = Chunks /\ Says(s, "error")
          /\ work' = [work EXCEPT ![s] = Tail(@)]
    /\ UNCHANGED <<ws, socks, synVars, linear, cancelled, invalid, ping, stopVars, voiced, broken>>

Die ==
    /\ \E s \in Sockets : socks[s] = "open" /\ socks' = [socks EXCEPT ![s] = "dead"]
    /\ UNCHANGED <<ws, work, pipe, synVars, linear, cancelled, invalid, ping, stopVars, voiced, broken>>

-----------------------------------------------------------------------------
(* Connections.                                                             *)

Goes(where, s) == pc' = where /\ sock' = s

\* _ensure_connected, up to where it suspends: a connection that is not up is
\* dropped and a new one made.
Ensure(then) ==
    /\ next' = then
    /\ IF Open(ws) THEN Goes(then, ws) /\ UNCHANGED ws
                   ELSE Goes("connecting", None) /\ ws' = None

\* _connect: the connection is there, then takes the configuration; only then
\* is it the current one.
Connects ==
    /\ pc = "connecting"
    /\ \E s \in Sockets :
         /\ socks[s] = "none" /\ \A r \in 1..(s - 1) : socks[r] # "none"
         /\ socks' = [socks EXCEPT ![s] = "open"] /\ Goes("configuring", s)
    /\ UNCHANGED <<ws, work, pipe, next, cur, first, linear, cancelled, invalid, ping, stopVars, voiced, broken>>

Configured ==
    /\ pc = "configuring" /\ Open(sock) /\ ws' = sock /\ Goes(next, sock)
    /\ UNCHANGED <<socks, work, pipe, next, cur, first, linear, cancelled, invalid, ping, stopVars, voiced, broken>>

\* The synthesis is over and its finally has forgotten the id.
Over(where) == Goes(where, None) /\ cancelled' = cancelled \ {Message(cur)}
Ends == Over("idle")

\* What is raised leaves synthesize(), and with it the tts loop.
Raise == Over("failed")

\* Neither has a retry.
ConnectFails ==
    /\ pc = "connecting" \/ (pc = "configuring" /\ ~Open(sock))
    /\ Raise
    /\ UNCHANGED <<ws, socks, work, pipe, next, cur, first, linear, invalid, ping, stopVars, voiced, broken>>

-----------------------------------------------------------------------------
(* The tts loop and synthesize().                                           *)

\* The next sentence: of a response no longer valid it is dropped, and after
\* stop() or for a cancelled message synthesize() returns at once.
Begin ==
    /\ pc = "idle" /\ cur < MaxReqs /\ cur' = cur + 1
    /\ IF Message(cur') \in invalid \cup cancelled \/ stopped
       THEN UNCHANGED <<ws, pc, next, sock, first>>
       ELSE Ensure("sending") /\ first' = FALSE
    /\ UNCHANGED <<socks, work, pipe, linear, cancelled, invalid, ping, stopVars, voiced, broken>>

\* On to the next payload; once the provider is stopped the synthesis ends.
ReadOn == IF stopped THEN Ends /\ UNCHANGED <<ws, next>>
                     ELSE Ensure("receiving") /\ UNCHANGED cancelled

\* Text and flush are written, or raise; the receiving begins, unless stopped.
Sends ==
    /\ pc = "sending"
    /\ IF Open(sock)
       THEN work' = [work EXCEPT ![sock] = Append(@, [req |-> cur, left |-> Chunks])] /\ ReadOn
       ELSE Raise /\ UNCHANGED <<ws, next, work>>
    /\ UNCHANGED <<socks, pipe, cur, first, linear, invalid, ping, stopVars, voiced, broken>>

Passed(p) == voiced' = voiced \cup {[req |-> cur, of |-> p.of, on |-> sock]} /\ first' = TRUE

\* Mutant: a cancelled synthesis ends at its next audio, as if nothing followed.
Audio_Leaves(p) ==
    /\ IF Message(cur) \in cancelled THEN Ends /\ UNCHANGED <<ws, next, first, voiced>>
                                     ELSE Passed(p) /\ ReadOn
    /\ UNCHANGED <<linear, socks, broken, late>>

\* Audio: of a cancelled message it is dropped.  It is yielded otherwise, and if
\* the response is no longer valid the loop does not pass it on but cancels the
\* message and leaves the generator where it is.
Audio(p) ==
    /\ CASE Message(cur) \in cancelled -> ReadOn /\ UNCHANGED <<first, voiced, broken>>
         [] Message(cur) \in invalid \ cancelled ->
              /\ Goes("leaving", None) /\ broken' = broken \cup {sock} /\ first' = TRUE
              /\ cancelled' = cancelled \cup {Message(cur)} /\ UNCHANGED <<ws, next, voiced>>
         [] OTHER -> Passed(p) /\ ReadOn /\ UNCHANGED broken
    /\ UNCHANGED <<linear, socks, late>>

\* Mutant: the connection that refused the codec is not closed.
Fallback_LeavesOpen == ws' = None /\ next' = "sending" /\ Goes("connecting", None) /\ UNCHANGED socks

\* _fallback_to_linear16: with a connection of its own the request is sent again.
Fallback ==
    /\ ws' = None /\ socks' = IF ws = None THEN socks ELSE Closed(ws)
    /\ next' = "sending" /\ Goes("connecting", None)

\* Errors before the first audio that name the codec or the like, which is
\* nearly all of them, are tried again once; the others are raised.
Error ==
    /\ \/ /\ ~first /\ ~linear /\ linear' = TRUE /\ Fallback
          /\ late' = (late \/ stopped) /\ UNCHANGED cancelled
       \/ Raise /\ UNCHANGED <<linear, ws, next, socks, late>>
    /\ UNCHANGED <<first, voiced, broken>>

Final == Ends /\ UNCHANGED <<ws, next, first, voiced, broken, linear, socks, late>>

Receives ==
    /\ pc = "receiving" /\ pipe[sock] # <<>>
    /\ pipe' = [pipe EXCEPT ![sock] = Tail(@)]
    /\ LET p == Head(pipe[sock]) IN
       CASE p.kind = "audio" -> Audio(p) [] p.kind = "error" -> Error [] p.kind = "final" -> Final
    /\ UNCHANGED <<work, cur, invalid, ping, stopped, stopping>>

\* The connection is lost under recv(): whatever is current is dropped.
ReceiveFails ==
    /\ pc = "receiving" /\ pipe[sock] = <<>> /\ ~Open(sock) /\ Raise
    /\ ws' = None /\ socks' = IF ws = None THEN socks ELSE Closed(ws)
    /\ UNCHANGED <<work, pipe, next, cur, first, linear, invalid, ping, stopVars, voiced, broken>>

\* Mutant: no timeout before the first audio either.
Timeout_Never == FALSE /\ UNCHANGED vars

\* There is a timeout for as long as no audio has been yielded.
Timeout ==
    /\ pc = "receiving" /\ pipe[sock] = <<>> /\ ~first /\ Raise
    /\ UNCHANGED <<ws, socks, work, pipe, next, cur, first, linear, invalid, ping, stopVars, voiced, broken>>

\* The loop's cancel() has returned; the generator it left is finalised, which
\* forgets the id.
Leaves ==
    /\ pc = "leaving" /\ Ends
    /\ UNCHANGED <<ws, socks, work, pipe, next, cur, first, linear, invalid, ping, stopVars, voiced, broken>>

-----------------------------------------------------------------------------
(* The other tasks.                                                         *)

\* A barge-in or a new turn: the sequence is invalid, cancel() follows.
Invalidate ==
    /\ cur > 0 /\ invalid' = invalid \cup {Message(cur)} /\ invalid' # invalid
    /\ UNCHANGED <<ws, socks, work, pipe, synVars, linear, cancelled, ping, stopVars, voiced, broken>>

Cancel ==
    /\ \E m \in invalid \ cancelled : m = Message(cur) /\ cancelled' = cancelled \cup {m}
    /\ UNCHANGED <<ws, socks, work, pipe, synVars, linear, invalid, ping, stopVars, voiced, broken>>

\* _keepalive_loop: a ping that raises drops what is current by then.
KeepsAlive ==
    /\ ~stopped
    /\ \/ ping = None /\ ws # None /\ ping' = ws /\ UNCHANGED <<ws, socks>>
       \/ ping # None /\ Open(ping) /\ ping' = None /\ UNCHANGED <<ws, socks>>
       \/ /\ ping # None /\ ~Open(ping) /\ ping' = None
          /\ ws' = None /\ socks' = IF ws = None THEN socks ELSE Closed(ws)
    /\ UNCHANGED <<work, pipe, synVars, linear, cancelled, invalid, stopVars, voiced, broken>>

\* stop() first waits for the keepalive loop it cancels.
Stop ==
    /\ ~stopped /\ stopped' = TRUE /\ stopping' = "cancelling"
    /\ UNCHANGED <<ws, socks, work, pipe, synVars, linear, cancelled, invalid, ping, late, voiced, broken>>

StopCloses ==
    /\ stopping = "cancelling" /\ stopping' = "done" /\ ping' = None
    /\ ws' = None /\ socks' = IF ws = None THEN socks ELSE Closed(ws)
    /\ late' = (late \/ pc \in {"connecting", "configuring"})
    /\ UNCHANGED <<work, pipe, synVars, linear, cancelled, invalid, stopped, voiced, broken>>

\* The shutdown that stopped the provider then cancels the tts loop.
CancelLoop ==
    /\ stopping = "done" /\ pc # "gone" /\ Goes("gone", None)
    /\ UNCHANGED <<ws, socks, work, pipe, next, cur, first, linear, cancelled, invalid, ping, stopVars, voiced, broken>>

-----------------------------------------------------------------------------
Synthesis == Connects \/ Configured \/ ConnectFails \/ Sends \/ Receives \/ ReceiveFails \/ Leaves
AnswersSome == \E s \in Sockets : Answers(s)

Next ==
    \/ AnswersSome \/ Die \/ Begin \/ Synthesis \/ Timeout
    \/ Invalidate \/ Cancel \/ KeepsAlive \/ Stop \/ StopCloses \/ CancelLoop

Spec == Init /\ [][Next]_vars

\* asyncio runs what can run, timeouts fire and the library ends every attempt
\* to connect or write.  The service answers what it was sent on a connection
\* that is up: after the first audio the code has no timeout to rely on instead.
FairSpec ==
    /\ Spec /\ WF_vars(Synthesis) /\ WF_vars(Timeout)
    /\ \A s \in Sockets : WF_vars(Answers(s))

-----------------------------------------------------------------------------
(* Properties.                                                              *)

\* The variables have their types; a synthesis has a socket while it writes or
\* reads, and only what a response no longer valid said may be cancelled.
TypeOK ==
    /\ ws \in Sockets \cup {None} /\ socks \in [Sockets -> {"none", "open", "dead", "closed"}]
    /\ work \in [Sockets -> Seq([req : Reqs, left : 0..Chunks])]
    /\ pipe \in [Sockets -> Seq([kind : {"audio", "final", "error"}, of : Reqs])]
    /\ pc \in {"idle", "connecting", "configuring", "sending", "receiving", "leaving", "failed", "gone"}
    /\ next \in {"sending", "receiving"} /\ cur \in 0..MaxReqs /\ sock \in Sockets \cup {None}
    /\ first \in BOOLEAN /\ linear \in BOOLEAN /\ stopped \in BOOLEAN /\ late \in BOOLEAN
    /\ cancelled \subseteq invalid /\ invalid \subseteq Messages
    /\ ping \in Sockets \cup {None} /\ stopping \in {"no", "cancelling", "done"}
    /\ voiced \subseteq [req : Reqs, of : Reqs, on : Sockets] /\ broken \subseteq Sockets
    /\ sock # None <=> pc \in {"configuring", "sending", "receiving"}

\* The caller hears what the agent is saying: audio passed on for a sentence
\* was made of that sentence, through cancellations, a fallback to another
\* codec, lost connections and the keepalive loop's drops.  Payloads name no
\* request, so it rests on each synthesis reading its answer to the end, also
\* when cancelled: between two sentences the service owes nothing and nothing
\* waits on the socket.  Where the tts loop saw an invalid sequence first and left
\* a generator half-way, nothing of what follows on that socket is certain.
OwnAudio ==
    /\ \A v \in voiced : v.req = v.of \/ v.on \in broken
    /\ pc = "idle" /\ ~stopped /\ ws # None /\ ws \notin broken
         => work[ws] = <<>> /\ pipe[ws] = <<>>

\* There is one connection, the current one or the one being configured, also
\* when the keepalive loop drops what the synthesis has just made; and none once
\* the provider is stopped, but for a loop that was connecting just then or that
\* falls back to the other codec after it: what it makes is closed by nobody.
OneConnection ==
    /\ \A s \in Sockets : Open(s) => s = ws \/ (pc = "configuring" /\ s = sock) \/ late
    /\ stopping = "done" /\ ~late => \A s \in Sockets : ~Open(s)

\* It waits on a connection that was never asked: the one it asked was lost
\* between two payloads and _receive_payload made another.
Stranded == pc = "receiving" /\ first /\ Open(sock) /\ work[sock] = <<>> /\ pipe[sock] = <<>>

\* A synthesis ends, or fails and takes the loop along, whatever is cancelled,
\* lost or left over from the one before; unless it is stranded after its first
\* audio, when there is no timeout any more.
SynthesisEnds == pc \notin {"idle", "failed", "gone"} ~> (pc \in {"idle", "failed", "gone"} \/ Stranded)
=============================================================================
