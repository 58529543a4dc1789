----------------------------- MODULE VobizStream -----------------------------
(***************************************************************************)
(* providers/telephony/vobiz.py: the adapter between one websocket of the   *)
(* phone platform and the session, with the loops on its two streams.  One  *)
(* receiver task reads every packet and hands it on before it reads the     *)
(* next, so a full queue holds up what is behind it; any task that finds    *)
(* the call over ends both streams.                                         *)
(*                                                                          *)
(*   receiver      Receive, PutHeld                                         *)
(*   session       StartSeen, StartTimeout, LoopsStart, StartFails,         *)
(*                 ShutDown, StopSent, StopReturns                          *)
(*   audio loop    RouteFrame             playback loop  TakeEvent, HungUp, *)
(*                                                HangupOver               *)
(*   output loop   SendStarts, SendChunk, SendCheckpoint, SendFails         *)
(*   interruption  ClearStarts, ClearReturns, ClearTimeout                  *)
(*   platform      Connect, Talk, PlayNext, CarryOutClear, HangUp           *)
(*                                                                          *)
(* The platform is external: it opens with one start packet, answers each   *)
(* checkpoint it plays to and each clear, and delivers in order.  What a    *)
(* frame holds, its codec and its base64 form are left out, and so are the  *)
(* packets that change nothing here (connected, dtmf, what does not parse). *)
(***************************************************************************)
EXTENDS Naturals, Sequences

CONSTANTS
    QueueMax,   \* places in each of the adapter's two queues
    SttMax,     \* places in stt_audio
    MaxFrames,  \* bound: frames the caller's side sends
    MaxSends,   \* bound: frames and checkpoints the agent sends
    Chunks,     \* 20 ms chunks per frame
    MaxClears,  \* bound: clears in a call
    MaxActs     \* bound: frames of both sides, checkpoints and clears in all

ASSUME VobizAssumption ==
    /\ QueueMax \in Nat \ {0} /\ SttMax \in Nat \ {0} /\ Chunks \in Nat \ {0}
    /\ MaxFrames \in Nat /\ MaxSends \in Nat /\ MaxClears \in Nat /\ MaxActs \in Nat

VARIABLES
    wire,      \* packets on their way to the adapter
    line,      \* what the adapter sent and the platform has not finished with
    sock,      \* "open", "gone" (the platform left) or "closed" (by us)
    talked,    \* frames the caller's side sent
    told,      \* history: playback events the platform sent
    opened,    \* stream_id is known
    finished,  \* _finished, and stopped
    startSet,  \* _start_event
    ack,       \* _clear_ack_event
    receiver,  \* "reading", "holding" or "over"
    held,      \* the packet it holds for a full queue
    audio,     \* _incoming_audio
    events,    \* _playback_events
    session,   \* where the session's task is
    stop,      \* where each caller of stop() is in it
    audioLoop, \* "off", "on" or "over"
    playLoop,  \* "off", "on", "hanging" (in hangup) or "over"
    routed,    \* frames the audio loop passed on
    stt,       \* stt_audio
    seen,      \* history: events the playback loop took
    output,    \* the output loop: "idle", "sending" or "over"
    left,      \* chunks of its frame yet to send
    sends,     \* frames and checkpoints sent so far
    clear,     \* clear_playback: "idle", "waiting" or "over"
    clears,    \* clears sent so far
    acked      \* history: clears that returned on an acknowledgement

platform == <<wire, line, sock, talked, told>>
adapter  == <<opened, finished, startSet, ack, receiver, held, audio, events>>
tasks    == <<session, stop>>
loops    == <<audioLoop, playLoop, routed, stt, seen>>
senders  == <<output, left, sends, clear, clears, acked>>
vars     == <<platform, adapter, tasks, loops, senders>>

Stoppers == {"session", "playback"}
End == [kind |-> "end", n |-> 0]
Nothing == [kind |-> "none", n |-> 0]
Packet(k, n) == [kind |-> k, n |-> n]
MoreToCome == talked + sends + clears <= MaxActs

Init ==
    /\ wire = <<>> /\ line = <<>> /\ sock = "open" /\ talked = 0 /\ told = <<>>
    /\ opened = FALSE /\ finished = FALSE /\ startSet = FALSE /\ ack = FALSE
    /\ receiver = "reading" /\ held = Nothing /\ audio = <<>> /\ events = <<>>
    /\ session = "waiting" /\ stop = [s \in Stoppers |-> "no"]
    /\ audioLoop = "off" /\ playLoop = "off" /\ routed = 0 /\ stt = <<>> /\ seen = <<>>
    /\ output = "off" /\ left = 0 /\ sends = 0
    /\ clear = "idle" /\ clears = 0 /\ acked = 0

-----------------------------------------------------------------------------
(* The end of the stream.                                                   *)

\* Mutant: a full queue gets no end marker.
PutTerminal_OnlyIfRoom(q) == IF Len(q) < QueueMax THEN Append(q, End) ELSE q

\* _put_terminal: the end marker always gets in; a full queue loses its head.
PutTerminal(q) == Append(IF Len(q) < QueueMax THEN q ELSE Tail(q), End)

\* _finish_stream, on top of the queues as they then are.
Finish ==
    /\ finished' = TRUE /\ startSet' = TRUE /\ ack' = TRUE
    /\ IF finished THEN UNCHANGED <<audio, events>>
       ELSE audio' = PutTerminal(audio) /\ events' = PutTerminal(events)

-----------------------------------------------------------------------------
(* The receiver.                                                            *)

\* The loop looks at _finished before it reads again.
ReadOn == receiver' = IF finished THEN "over" ELSE "reading"

\* Put in one of the queues, or wait for room with the packet in hand.
PutAudio(p) ==
    IF Len(audio) < QueueMax
    THEN audio' = Append(audio, p) /\ ReadOn /\ UNCHANGED <<events, held>>
    ELSE held' = p /\ receiver' = "holding" /\ UNCHANGED <<audio, events>>

\* Mutant: a playback event that finds its queue full is dropped.
PutEvent_Drops(p) ==
    /\ events' = IF Len(events) < QueueMax THEN Append(events, p) ELSE events
    /\ ReadOn /\ UNCHANGED <<audio, held>>

PutEvent(p) ==
    IF Len(events) < QueueMax
    THEN events' = Append(events, p) /\ ReadOn /\ UNCHANGED <<audio, held>>
    ELSE held' = p /\ receiver' = "holding" /\ UNCHANGED <<audio, events>>

\* _handle_start: a packet that is refused ends the stream; one refused for its
\* media format has given the ids all the same.
HandleStart(p) ==
    /\ opened' = (p.n > 0)
    /\ IF p.n = 1 THEN /\ startSet' = TRUE
                       /\ UNCHANGED <<finished, ack, audio, events, receiver, held>>
                  ELSE Finish /\ receiver' = "over" /\ UNCHANGED held

\* Mutant: a socket error does not end the loop; the next read meets it again.
Ended_TriesAgain(p) ==
    IF p.kind = "stop" THEN Finish /\ receiver' = "over" /\ UNCHANGED <<opened, held>>
                       ELSE UNCHANGED adapter

\* The platform's stop, or a read that raises: both end the loop.
Ended(p) == Finish /\ receiver' = "over" /\ UNCHANGED <<opened, held>>

\* _receiver_loop, one packet.
Receive ==
    /\ receiver = "reading" /\ wire # <<>>
    /\ LET p == Head(wire) IN
       /\ wire' = Tail(wire)
       /\ CASE p.kind = "start" -> HandleStart(p)
            [] p.kind = "media" -> PutAudio(p) /\ UNCHANGED <<opened, finished, startSet, ack>>
            [] p.kind = "played" -> PutEvent(p) /\ UNCHANGED <<opened, finished, startSet, ack>>
            [] p.kind = "cleared" -> /\ ack' = TRUE /\ PutEvent(p)
                                     /\ UNCHANGED <<opened, finished, startSet>>
            [] OTHER -> Ended(p)
    /\ UNCHANGED <<line, sock, talked, told, tasks, loops, senders>>

\* The queue has room again; the loop then looks whether the stream is over.
PutHeld ==
    /\ receiver = "holding"
    /\ IF held.kind = "media"
       THEN Len(audio) < QueueMax /\ audio' = Append(audio, held) /\ UNCHANGED events
       ELSE Len(events) < QueueMax /\ events' = Append(events, held) /\ UNCHANGED audio
    /\ held' = Nothing /\ ReadOn
    /\ UNCHANGED <<platform, opened, finished, startSet, ack, tasks, loops, senders>>

-----------------------------------------------------------------------------
(* The session: run_vobiz_websocket_session, and stop().                    *)

\* stop(): the platform is told, which may suspend, if the stream is open.
Stop(s) == stop' = [stop EXCEPT ![s] = IF ~finished /\ opened THEN "sending" ELSE "ending"]

\* wait_started after its wait: the stream is open, or the session gives up.
StartSeen ==
    /\ session = "waiting" /\ startSet
    /\ IF opened /\ ~finished THEN session' = "starting" /\ UNCHANGED stop
                              ELSE session' = "stopping" /\ Stop("session")
    /\ UNCHANGED <<platform, adapter, loops, senders>>

\* vobiz_start_timeout_ms; and a server shutdown before there is a session.
StartTimeout ==
    /\ session \in {"waiting", "starting"} /\ ~(session = "waiting" /\ startSet)
    /\ session' = "stopping" /\ Stop("session")
    /\ UNCHANGED <<platform, adapter, loops, senders>>

\* SessionOrchestrator.start() has run: the loops exist.
LoopsStart ==
    /\ session = "starting"
    /\ session' = "running" /\ audioLoop' = "on" /\ playLoop' = "on" /\ output' = "idle"
    /\ UNCHANGED <<platform, adapter, stop, routed, stt, seen, left, sends, clear, clears, acked>>

\* An exception before that: nobody stops the adapter, the route closes the
\* websocket and the receiver's next read meets that.
StartFails ==
    /\ session = "starting"
    /\ session' = "failed"
    /\ sock' = "closed" /\ wire' = Append(wire, Packet("error", 0)) /\ line' = <<>>
    /\ UNCHANGED <<talked, told, adapter, stop, loops, senders>>

\* shutdown() of a running session reaches its providers.
ShutDown ==
    /\ session = "running"
    /\ session' = "stopping" /\ Stop("session")
    /\ UNCHANGED <<platform, adapter, loops, senders>>

\* The stop packet is out, or could not be sent: either way stop() goes on.
StopSent(s) ==
    /\ stop[s] = "sending" /\ stop' = [stop EXCEPT ![s] = "ending"]
    /\ UNCHANGED <<platform, adapter, session, loops, senders>>

\* Mutant: the receiver is waited for and not cancelled.
CancelReceiver_Waits == receiver = "over" /\ UNCHANGED <<receiver, held>>

\* A cancelled receiver ends where it waits, with what it holds.
CancelReceiver == receiver' = "over" /\ held' = Nothing

\* The rest of stop(): end the streams, cancel the receiver, close the socket.
\* A shutdown then cancels the loops, also one that is in stop() itself.
StopReturns(s) ==
    /\ stop[s] = "ending"
    /\ stop' = [t \in Stoppers |-> IF t = s \/ (s = "session" /\ stop[t] # "no") THEN "done"
                                                                             ELSE stop[t]]
    /\ Finish /\ CancelReceiver
    /\ sock' = "closed" /\ wire' = <<>> /\ line' = <<>> /\ UNCHANGED <<talked, told, opened>>
    /\ IF s = "session"
       THEN /\ session' = "over" /\ audioLoop' = "over" /\ output' = "over"
            /\ playLoop' = "over" /\ clear' = "over"
       ELSE UNCHANGED <<session, audioLoop, output, playLoop, clear>>
    /\ UNCHANGED <<routed, stt, seen, left, sends, clears, acked>>

-----------------------------------------------------------------------------
(* The loops that read the streams.                                         *)

\* put_packet with DROP_OLDEST.
PutStt(p) == stt' = Append(IF Len(stt) < SttMax THEN stt ELSE Tail(stt), p)

\* _receive_audio_loop and route_inbound; the end is passed on as a packet.
RouteFrame ==
    /\ audioLoop = "on" /\ audio # <<>>
    /\ audio' = Tail(audio) /\ PutStt(Head(audio))
    /\ IF Head(audio) = End THEN audioLoop' = "over" /\ UNCHANGED routed
                            ELSE routed' = Head(audio).n /\ UNCHANGED audioLoop
    /\ UNCHANGED <<platform, opened, finished, startSet, ack, receiver, held, events,
                   tasks, playLoop, seen, senders>>

\* The sender loop of the recogniser takes a packet.
TakeFrame ==
    /\ stt # <<>> /\ stt' = Tail(stt)
    /\ UNCHANGED <<platform, adapter, tasks, audioLoop, playLoop, routed, seen, senders>>

\* _playback_loop; what was said at a checkpoint may be the end of the call.
TakeEvent ==
    /\ playLoop = "on" /\ events # <<>>
    /\ events' = Tail(events)
    /\ LET p == Head(events) IN
       \/ p = End /\ playLoop' = "over" /\ UNCHANGED seen
       \/ p # End /\ seen' = Append(seen, p) /\ UNCHANGED playLoop
       \/ /\ p.kind = "played" /\ session = "running"
          /\ seen' = Append(seen, p) /\ playLoop' = "hanging"
    /\ UNCHANGED <<platform, opened, finished, startSet, ack, receiver, held, audio,
                   tasks, audioLoop, routed, stt, senders>>

\* hangup(): the call of the telephone API has returned, or failed; then stop().
HungUp ==
    /\ playLoop = "hanging" /\ stop["playback"] = "no" /\ Stop("playback")
    /\ UNCHANGED <<platform, adapter, session, loops, senders>>

\* After hangup() the playback loop shuts the session down, unless another does.
HangupOver ==
    /\ playLoop = "hanging" /\ stop["playback"] = "done" /\ playLoop' = "over"
    /\ IF session = "running" THEN session' = "stopping" /\ Stop("session")
                              ELSE UNCHANGED tasks
    /\ UNCHANGED <<platform, adapter, audioLoop, routed, stt, seen, senders>>

-----------------------------------------------------------------------------
(* The tasks that send.                                                     *)

\* What reaches the platform; each entry knows the clears sent before it.
Send(k) ==
    line' = IF sock = "open" THEN Append(line, [kind |-> k, n |-> sends + 1, epoch |-> clears])
                             ELSE line

\* _output_loop begins to send a frame; on a call that is over it ends.
SendStarts ==
    /\ output = "idle"
    /\ IF finished THEN output' = "over" /\ UNCHANGED <<left, sends>>
       ELSE /\ MoreToCome /\ sends < MaxSends /\ sends' = sends + 1
            /\ output' = "sending" /\ left' = Chunks
    /\ UNCHANGED <<platform, adapter, tasks, loops, clear, clears, acked>>

\* send_audio: one chunk, after another look at the stream.
SendChunk ==
    /\ output = "sending"
    /\ IF finished THEN output' = "over" /\ UNCHANGED <<line, left>>
       ELSE /\ left' = left - 1
            /\ Send("chunk")
            /\ output' = IF left' = 0 THEN "idle" ELSE "sending"
    /\ UNCHANGED <<wire, sock, talked, told, adapter, tasks, loops, sends, clear, clears, acked>>

\* send_checkpoint.
SendCheckpoint ==
    /\ output = "idle" /\ ~finished /\ MoreToCome /\ sends < MaxSends
    /\ Send("mark") /\ sends' = sends + 1
    /\ UNCHANGED <<wire, sock, talked, told, adapter, tasks, loops, output, left, clear, clears, acked>>

\* _send_json fails, for a chunk or for a clear: the error of a closed socket
\* ends the stream; any error ends the output loop, and the clear goes on.
SendFails ==
    /\ ~finished
    /\ \/ output = "sending" /\ output' = "over"
       \/ clear = "idle" /\ session = "running" /\ UNCHANGED output
    /\ \/ sock # "open" /\ Finish
       \/ UNCHANGED <<finished, startSet, ack, audio, events>>
    /\ UNCHANGED <<platform, opened, receiver, held, tasks, loops, left, sends, clear, clears, acked>>

\* Mutant: the acknowledgement of an earlier clear is still there.
ForgetAck_Keeps == UNCHANGED ack

ForgetAck == ack' = FALSE

\* clear_playback up to its wait.
ClearStarts ==
    /\ clear = "idle" /\ session = "running" /\ ~finished /\ MoreToCome /\ clears < MaxClears
    /\ ForgetAck
    /\ clear' = "waiting" /\ clears' = clears + 1 /\ Send("clear")
    /\ UNCHANGED <<wire, sock, talked, told, opened, finished, startSet, receiver, held,
                   audio, events, tasks, loops, output, left, sends, acked>>

ClearReturns ==
    /\ clear = "waiting" /\ ack
    /\ clear' = "idle" /\ acked' = IF finished THEN acked ELSE acked + 1
    /\ UNCHANGED <<platform, adapter, tasks, loops, output, left, sends, clears>>

\* clear_timeout_seconds.
ClearTimeout ==
    /\ clear = "waiting" /\ ~ack /\ clear' = "idle"
    /\ UNCHANGED <<platform, adapter, tasks, loops, output, left, sends, clears, acked>>

-----------------------------------------------------------------------------
(* The platform.                                                            *)

Tell(p) == wire' = Append(wire, p)

\* The start packet: accepted (1), refused (0), or its format refused (2).
Connect ==
    /\ sock = "open" /\ talked = 0 /\ \E n \in 0..2 : Tell(Packet("start", n))
    /\ talked' = 1
    /\ UNCHANGED <<line, sock, told, adapter, tasks, loops, senders>>

Talk ==
    /\ sock = "open" /\ MoreToCome /\ talked \in 1..MaxFrames
    /\ Tell(Packet("media", talked)) /\ talked' = talked + 1
    /\ UNCHANGED <<line, sock, told, adapter, tasks, loops, senders>>

\* The head of the line is played; a checkpoint is reported.
PlayNext ==
    /\ sock = "open" /\ line # <<>> /\ Head(line).kind # "clear" /\ line' = Tail(line)
    /\ LET e == Packet("played", Head(line).n) IN
       IF Head(line).kind = "mark" THEN Tell(e) /\ told' = Append(told, e)
                                   ELSE UNCHANGED <<wire, told>>
    /\ UNCHANGED <<sock, talked, adapter, tasks, loops, senders>>

\* A clear arrives: what was sent before it will not be played.
CarryOutClear ==
    /\ sock = "open"
    /\ \E i \in DOMAIN line :
         /\ line[i].kind = "clear" /\ \A j \in 1..(i - 1) : line[j].kind # "clear"
         /\ line' = SubSeq(line, i + 1, Len(line))
         /\ LET e == Packet("cleared", line[i].epoch) IN Tell(e) /\ told' = Append(told, e)
    /\ UNCHANGED <<sock, talked, adapter, tasks, loops, senders>>

\* The caller hangs up, or the platform is told to stop: a stop packet and then
\* the close, or only the close.
HangUp ==
    /\ sock = "open" /\ sock' = "gone" /\ line' = <<>>
    /\ \/ wire' = wire \o <<Packet("stop", 0), Packet("error", 0)>>
       \/ wire' = Append(wire, Packet("error", 0))
    /\ UNCHANGED <<talked, told, adapter, tasks, loops, senders>>

-----------------------------------------------------------------------------
Receiver == Receive \/ PutHeld
Session  == StartSeen \/ StartTimeout \/ LoopsStart \/ StartFails \/ ShutDown
Stops    == \E s \in Stoppers : StopSent(s) \/ StopReturns(s)
Output   == SendStarts \/ SendChunk \/ SendCheckpoint \/ SendFails
Clear    == ClearStarts \/ ClearReturns \/ ClearTimeout
Platform == Connect \/ Talk \/ PlayNext \/ CarryOutClear \/ HangUp

Next == Receiver \/ Session \/ Stops \/ RouteFrame \/ TakeFrame \/ TakeEvent \/ HungUp \/ HangupOver
        \/ Output \/ Clear \/ Platform

Spec == Init /\ [][Next]_vars

\* asyncio runs what can run: the receiver, the two loops, and a stop that has
\* begun.  Nothing is assumed of the platform, of the caller, of the recogniser
\* or of when the session ends.
FairSpec ==
    /\ Spec
    /\ WF_vars(Receiver) /\ WF_vars(RouteFrame) /\ WF_vars(TakeEvent) /\ WF_vars(HungUp \/ HangupOver)
    /\ \A s \in Stoppers : WF_vars(StopSent(s)) /\ WF_vars(StopReturns(s))

-----------------------------------------------------------------------------
(* Properties.                                                              *)

Numbers == 0..(MaxFrames + MaxSends + MaxClears + 2)
Packets == [kind : {"start", "media", "played", "cleared", "stop", "error", "end", "none"},
            n : Numbers]
Line == [kind : {"chunk", "mark", "clear"}, n : Numbers, epoch : Numbers]

\* The variables have their types, and no queue has more than its places.
TypeOK ==
    /\ wire \in Seq(Packets) /\ line \in Seq(Line) /\ sock \in {"open", "gone", "closed"}
    /\ talked \in Numbers /\ told \in Seq(Packets) /\ seen \in Seq(Packets)
    /\ opened \in BOOLEAN /\ finished \in BOOLEAN /\ startSet \in BOOLEAN /\ ack \in BOOLEAN
    /\ receiver \in {"reading", "holding", "over"} /\ held \in Packets
    /\ audio \in Seq(Packets) /\ Len(audio) <= QueueMax
    /\ events \in Seq(Packets) /\ Len(events) <= QueueMax
    /\ session \in {"waiting", "starting", "running", "stopping", "failed", "over"}
    /\ stop \in [Stoppers -> {"no", "sending", "ending", "done"}]
    /\ audioLoop \in {"off", "on", "over"} /\ playLoop \in {"off", "on", "hanging", "over"}
    /\ routed \in Numbers /\ stt \in Seq(Packets) /\ Len(stt) <= SttMax
    /\ output \in {"off", "idle", "sending", "over"} /\ left \in 0..Chunks
    /\ sends \in 0..MaxSends /\ clear \in {"idle", "waiting", "over"}
    /\ clears \in 0..MaxClears /\ acked \in 0..MaxClears

Has(q, p) == \E i \in DOMAIN q : q[i] = p

\* Once the stream is finished, whoever reads it will learn so: its end marker
\* is in the queue until the reader has had it.  A full queue and a receiver
\* that puts a packet behind the marker do not keep it out (_put_terminal).
EndReachesReaders ==
    finished => /\ Has(audio, End) \/ audioLoop = "over"
                /\ Has(events, End) \/ playLoop \in {"hanging", "over"}

\* The packets of q whose kind is in K: SelectSeq, one entry after the other.
OfKind(q, K) ==
    LET kept[n \in 0..Len(q)] ==
          IF n = 0 THEN <<>>
          ELSE IF q[n].kind \in K THEN Append(kept[n - 1], q[n]) ELSE kept[n - 1]
    IN kept[Len(q)]
Media(q) == OfKind(q, {"media"})
Events(q) == OfKind(q, {"played", "cleared"})

\* What the receiver has yet to hand on.
Unread == (IF held = Nothing THEN <<>> ELSE <<held>>) \o wire

\* While the stream is up no playback event is lost, repeated or reordered on
\* its way to the playback loop, and no frame on its way to the audio loop, full
\* queues included; one that ends may lose a queue's head.  From the audio loop
\* on the recogniser gets the latest frames, in order, and the end of the stream
\* last: what does not fit is the oldest audio, never the newest and never the end.
NothingSkipped ==
    /\ ~finished =>
         LET frames == Media(audio \o Unread)
         IN /\ told = seen \o events \o Events(Unread)
            /\ talked > 0 => routed + Len(frames) = talked - 1
            /\ \A i \in DOMAIN frames : frames[i].n = routed + i
    /\ \A i, j \in DOMAIN stt : i < j => stt[i] # End /\ (stt[j].n > stt[i].n \/ stt[j] = End)
    /\ stt # <<>> /\ session # "over" => (stt[Len(stt)] = End <=> audioLoop = "over")
    /\ stt # <<>> /\ audioLoop = "on" => stt[Len(stt)].n = routed

\* The k-th clear_playback that returns on an acknowledgement finds that the
\* platform has carried out at least k clears: nothing sent before the k-th is
\* still to be played.  An acknowledgement serves one clear only, though not
\* always its own: one that comes after its clear timed out serves the next.
AckServesOneClear == \A i \in DOMAIN line : line[i].epoch >= acked

\* When the platform is gone, with or without a stop packet, and the session
\* runs, both streams end, however much audio is before the news in the queue
\* and whatever the receiver holds.
EndIsNoticed ==
    audioLoop = "on" /\ sock # "open" ~> audioLoop = "over" /\ playLoop = "over"

\* stop() returns, with the receiver ended and the socket closed, also when the
\* receiver waits for room in a queue nobody reads any more.
StopEnds ==
    \A s \in Stoppers : stop[s] # "no" ~> stop[s] = "done" /\ receiver = "over" /\ sock = "closed"
=============================================================================
