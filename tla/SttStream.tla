------------------------------ MODULE SttStream ------------------------------
(***************************************************************************)
(* providers/stt/deepgram.py and providers/stt/sarvam.py: one recogniser    *)
(* websocket that several tasks use, and its reconnection.  The sender loop *)
(* of the session, the receiver loop, the keepalive loop (Deepgram's only)  *)
(* and, while the provider waits in the warm-up pool, the pool's health     *)
(* check each may find the socket dead; whoever does drops it and connects  *)
(* again under _connect_lock, and audio that finds no socket is buffered.   *)
(*                                                                          *)
(* What the recogniser answers is left out.  The library tells a task that  *)
(* waits on a socket of its loss once the connection is closed, and at      *)
(* once, which is before a new one can be up, so that to close such a       *)
(* socket does not suspend; the health check has a timeout of its own.      *)
(***************************************************************************)
EXTENDS Naturals, Sequences

CONSTANTS
    MaxSockets, \* bound: connections opened in a call
    MaxFrames,  \* bound: frames the sender loop is given
    BufferMax,  \* frames in reconnect_buffer_ms
    Backoffs,   \* reconnect_backoffs_seconds: retries after the first attempt
    KeepAlive   \* has the adapter a keepalive loop?

ASSUME SttAssumption ==
    /\ MaxSockets \in Nat \ {0} /\ MaxFrames \in Nat /\ BufferMax \in Nat \ {0}
    /\ Backoffs \in Nat /\ KeepAlive \in BOOLEAN

Tasks == {"sender", "receiver", "health"} \cup (IF KeepAlive THEN {"keepalive"} ELSE {})
Owned == Tasks \ {"sender", "health"}   \* the tasks start() creates
Sockets == 1..MaxSockets
None == 0

VARIABLES
    phase,    \* "warm" (in the pool) or "call"
    ws,       \* _websocket
    socks,    \* each socket: "none", "open", "dead" (lost) or "closed" (by us)
    pc,       \* where each task is
    sock,     \* the socket each task uses
    tries,    \* failed attempts of the connection in progress
    ahead,    \* who holds _connect_lock or waits for it before each task, as it waits
    buffer,   \* _reconnect_buffer
    hand,     \* the frame the sender loop is sending, or None
    given,    \* frames given to send_audio
    written,  \* history: what was written to a live socket, as [socket, frame]
    lost,     \* history: frames pushed out of the buffer, failed in a flush or
              \* given after the stop
    stopped,  \* stop() has been called
    stopping, \* where it is: "no", "closing" or "done"
    closes,   \* the socket it closes
    cut,      \* history: a flush has been cut off
    late      \* history: a task was in its attempts when stop() came

taskVars  == <<pc, sock, tries, ahead, hand>>
audioVars == <<buffer, given, written, lost, cut>>
stopVars  == <<stopped, stopping, closes, late>>
vars == <<phase, ws, socks, taskVars, audioVars, stopVars>>

\* start() has connected.
Init ==
    /\ phase \in {"warm", "call"} /\ ws = 1
    /\ socks = [s \in Sockets |-> IF s = 1 THEN "open" ELSE "none"]
    /\ pc = [t \in Tasks |-> "idle"] /\ sock = [t \in Tasks |-> None]
    /\ tries = 0 /\ ahead = [t \in Tasks |-> {}] /\ hand = None
    /\ buffer = <<>> /\ given = 0 /\ written = <<>> /\ lost = {} /\ cut = FALSE
    /\ stopped = FALSE /\ stopping = "no" /\ closes = None /\ late = FALSE

\* websocket_is_open: both ends of the connection are up.
Open(s) == s # None /\ socks[s] = "open"

\* A task moves on, with the socket it uses from here, if any.
With(t, where, s) == pc' = [pc EXCEPT ![t] = where] /\ sock' = [sock EXCEPT ![t] = s]
Go(t, where) == With(t, where, None)

-----------------------------------------------------------------------------
(* Dropping a connection and taking the lock.                               *)

\* _buffer_frame, two seconds at most: the oldest frame makes room.
Buffered(f) == Append(IF Len(buffer) < BufferMax THEN buffer ELSE Tail(buffer), f)
PushedOut == IF Len(buffer) < BufferMax THEN {} ELSE {Head(buffer)}

\* The tasks that hold the lock or wait for it, first come, first served.
InLock == {t \in Tasks : pc[t] \in {"locking", "connecting", "flushing"}}
Queue(t) == Go(t, "locking") /\ ahead' = [ahead EXCEPT ![t] = InLock]

Closed(s) == [socks EXCEPT ![s] = IF @ = "open" THEN "closed" ELSE @]

\* _drop_connection: whatever socket is current now, close it.
Drop(t) ==
    /\ ws' = None
    /\ IF Open(ws) THEN Go(t, "closing") /\ socks' = Closed(ws) /\ UNCHANGED ahead
                   ELSE Queue(t) /\ UNCHANGED socks

CloseDone(t) ==
    /\ pc[t] = "closing" /\ Queue(t)
    /\ UNCHANGED <<phase, ws, socks, tries, hand, audioVars, stopVars>>

\* Leave _connect_with_retries.
Release(t) == ahead' = [u \in Tasks |-> ahead[u] \ {t}] /\ Go(t, "idle")

\* Mutant: no look at the socket and at stopped once the lock is held.
NoNeed_Never == FALSE

NoNeed == Open(ws) \/ stopped

\* The lock is free: another task may have connected, or the provider stopped.
Locked(t) ==
    /\ pc[t] = "locking" /\ ahead[t] = {}
    /\ IF NoNeed THEN Release(t) /\ UNCHANGED tries
                 ELSE Go(t, "connecting") /\ tries' = 0 /\ UNCHANGED ahead
    /\ UNCHANGED <<phase, ws, socks, hand, audioVars, stopVars>>

\* Mutant: the task goes on for as long as the recogniser is away.
Retry_Forever(t) == Go(t, "connecting") /\ UNCHANGED <<tries, ahead>>

\* An attempt failed; after the last one the task gives up, with an error.
Retry(t) ==
    IF tries < Backoffs THEN tries' = tries + 1 /\ Go(t, "connecting") /\ UNCHANGED ahead
                        ELSE Release(t) /\ UNCHANGED tries

\* By the end of an attempt every task that waits on a lost socket knows it.
AllTold == \A t \in Tasks : pc[t] \in {"sending", "receiving"} => Open(sock[t])

ConnectFails(t) ==
    /\ pc[t] = "connecting" /\ AllTold /\ Retry(t)
    /\ UNCHANGED <<phase, ws, socks, hand, audioVars, stopVars>>

\* Mutant: the newest buffered frame goes first.
Flush_NewestFirst(t, s, status) ==
    IF buffer = <<>> THEN Release(t) /\ UNCHANGED <<buffer, written, lost, cut, tries>>
    ELSE LET f == buffer[Len(buffer)] IN
         /\ buffer' = SubSeq(buffer, 1, Len(buffer) - 1)
         /\ written' = Append(written, [socket |-> s, frame |-> f])
         /\ With(t, "flushing", s) /\ UNCHANGED <<lost, cut, tries, ahead>>

\* _flush_reconnect_buffer from one send to the next, to the socket it began
\* with: a send that raises loses its frame and costs the attempt.
Flush(t, s, status) ==
    IF buffer = <<>> THEN Release(t) /\ UNCHANGED <<buffer, written, lost, cut, tries>>
    ELSE LET f == Head(buffer) IN
         /\ buffer' = Tail(buffer)
         /\ IF status = "open"
            THEN /\ written' = Append(written, [socket |-> s, frame |-> f])
                 /\ With(t, "flushing", s) /\ UNCHANGED <<lost, cut, tries, ahead>>
            ELSE lost' = lost \cup {f} /\ cut' = TRUE /\ Retry(t) /\ UNCHANGED written

Connects(t) ==
    /\ pc[t] = "connecting" /\ AllTold
    /\ \E s \in Sockets :
         /\ socks[s] = "none" /\ \A r \in 1..(s - 1) : socks[r] # "none"
         /\ ws' = s /\ socks' = [socks EXCEPT ![s] = "open"]
         /\ Flush(t, s, "open")
    /\ UNCHANGED <<phase, hand, given, stopVars>>

\* The send of the flush returns, or raises on a socket lost meanwhile.
FlushOn(t) ==
    /\ pc[t] = "flushing"
    /\ \/ Flush(t, sock[t], socks[sock[t]])
       \/ ~Open(sock[t]) /\ cut' = TRUE /\ Retry(t) /\ UNCHANGED <<buffer, written, lost>>
    /\ UNCHANGED <<phase, ws, socks, hand, given, stopVars>>

-----------------------------------------------------------------------------
(* What the tasks do.                                                       *)

\* Mutant: the frame whose send failed is not kept.
Keep_Forgets(f) == UNCHANGED <<buffer, lost>>

Keep(f) == buffer' = Buffered(f) /\ lost' = lost \cup PushedOut

\* send_audio.
Send ==
    /\ phase = "call" /\ pc["sender"] = "idle" /\ given < MaxFrames
    /\ given' = given + 1
    /\ CASE stopped -> /\ lost' = lost \cup {given + 1}
                       /\ UNCHANGED <<ws, socks, pc, sock, ahead, hand, buffer, written>>
         [] ~stopped /\ ws = None -> /\ Keep(given + 1) /\ Queue("sender")
                                     /\ UNCHANGED <<ws, socks, hand, written>>
         [] ~stopped /\ Open(ws) ->
              /\ written' = Append(written, [socket |-> ws, frame |-> given + 1])
              /\ With("sender", "sending", ws)
              /\ hand' = given + 1 /\ UNCHANGED <<ws, socks, ahead, buffer, lost>>
         [] OTHER -> Keep(given + 1) /\ Drop("sender") /\ UNCHANGED <<hand, written>>
    /\ UNCHANGED <<phase, tries, cut, stopVars>>

\* The write has drained, or raises as the socket is lost: the frame, which may
\* have left, is then kept for the next one.
Sent ==
    /\ pc["sender"] = "sending" /\ hand' = None
    /\ \/ Go("sender", "idle") /\ UNCHANGED <<ws, socks, ahead, buffer, lost>>
       \/ ~Open(sock["sender"]) /\ Keep(hand) /\ Drop("sender")
    /\ UNCHANGED <<phase, tries, given, written, cut, stopVars>>

\* A loop or the check takes the socket that is current; without one the
\* receiver and keepalive loops only sleep, and the check connects.
Take(t, where) ==
    /\ pc[t] = "idle" /\ ~stopped /\ ws # None
    /\ With(t, where, ws)
    /\ UNCHANGED <<phase, ws, socks, tries, ahead, hand, audioVars, stopVars>>

\* _receiver_loop, _keepalive_loop: the call on the socket returns, or raises.
Returned(t, where) ==
    /\ pc[t] = where
    /\ \/ Open(sock[t]) /\ Go(t, "idle") /\ UNCHANGED <<ws, socks, ahead>>
       \/ ~Open(sock[t]) /\ Drop(t)
    /\ UNCHANGED <<phase, tries, hand, audioVars, stopVars>>

Receiver == Take("receiver", "receiving") \/ Returned("receiver", "receiving")
KeepsAlive == KeepAlive /\ (Take("keepalive", "sending") \/ Returned("keepalive", "sending"))

\* health_check in the pool: a ping that may time out on a healthy socket too.
HealthCheck ==
    /\ phase = "warm"
    /\ \/ Take("health", "pinging")
       \/ /\ pc["health"] = "idle" /\ ~stopped /\ ws = None /\ Queue("health")
          /\ UNCHANGED <<phase, ws, socks, tries, hand, audioVars, stopVars>>
       \/ /\ pc["health"] = "pinging"
          /\ \/ Open(sock["health"]) /\ Go("health", "idle") /\ UNCHANGED <<ws, socks, ahead>>
             \/ Drop("health")
          /\ UNCHANGED <<phase, tries, hand, audioVars, stopVars>>

\* The pool gives the provider to a call after a last check of its own.
Claim ==
    /\ phase = "warm" /\ pc["health"] = "idle" /\ ~stopped /\ phase' = "call"
    /\ UNCHANGED <<ws, socks, taskVars, audioVars, stopVars>>

\* The connection is lost.
Die ==
    /\ \E s \in Sockets : socks[s] = "open" /\ socks' = [socks EXCEPT ![s] = "dead"]
    /\ UNCHANGED <<phase, ws, taskVars, audioVars, stopVars>>

-----------------------------------------------------------------------------
(* stop().                                                                  *)

\* Tasks that are cancelled: the loops of start(), and the check by the pool.
Cancelled == Owned \cup {"health"}

\* What cancelling leaves: no lock held, no wait, and the frame in hand gone.
Cancel(ts) ==
    /\ pc' = [t \in Tasks |-> IF t \in ts THEN "gone" ELSE pc[t]]
    /\ sock' = [t \in Tasks |-> IF t \in ts THEN None ELSE sock[t]]
    /\ ahead' = [t \in Tasks |-> IF t \in ts THEN {} ELSE ahead[t] \ ts]

\* stop() up to the close of the socket; with none, or one that is lost already,
\* nothing suspends and it goes through at once.
Stop ==
    /\ ~stopped /\ stopped' = TRUE /\ closes' = ws
    /\ late' = \E t \in Tasks \ {"health"} : pc[t] \in {"connecting", "flushing"}
    /\ IF Open(ws) THEN stopping' = "closing" /\ Cancel({"health"}) /\ UNCHANGED ws
                   ELSE stopping' = "done" /\ Cancel(Cancelled) /\ ws' = None
    /\ UNCHANGED <<phase, socks, tries, hand, audioVars>>

\* The close has returned.
StopCloses ==
    /\ stopping = "closing" /\ stopping' = "done"
    /\ socks' = Closed(closes) /\ ws' = None
    /\ Cancel(Cancelled)
    /\ UNCHANGED <<phase, tries, hand, audioVars, stopped, closes, late>>

\* The shutdown that stopped the provider then cancels the sender loop.
CancelSender ==
    /\ stopping = "done" /\ pc["sender"] # "gone" /\ Cancel({"sender"}) /\ hand' = None
    /\ UNCHANGED <<phase, ws, socks, tries, audioVars, stopVars>>

-----------------------------------------------------------------------------
Reconnects(t) == CloseDone(t) \/ Locked(t) \/ Connects(t) \/ ConnectFails(t) \/ FlushOn(t)

Next ==
    \/ Send \/ Sent \/ Receiver \/ KeepsAlive \/ HealthCheck \/ Claim \/ Die
    \/ Stop \/ StopCloses \/ CancelSender
    \/ \E t \in Tasks : Reconnects(t)

Spec == Init /\ [][Next]_vars

\* asyncio runs what can run, and the library's timeouts end every connection
\* attempt, close and write; nothing is assumed of the network or of the call.
FairSpec ==
    /\ Spec /\ WF_vars(Sent) /\ WF_vars(StopCloses) /\ WF_vars(Receiver) /\ WF_vars(KeepsAlive)
    /\ \A t \in Tasks : WF_vars(Reconnects(t))

-----------------------------------------------------------------------------
(* Properties.                                                              *)

\* The lock is held and awaited by the tasks that are reconnecting, in one
\* order, and only its holder connects.
LockOK ==
    /\ ahead \in [Tasks -> SUBSET InLock]
    /\ \A t \in Tasks : /\ t \notin InLock => ahead[t] = {}
                       /\ pc[t] \in {"connecting", "flushing"} => ahead[t] = {}
    /\ \A t, u \in InLock : t # u => (t \in ahead[u] <=> u \notin ahead[t])
    /\ \A t \in InLock : t \notin ahead[t]

\* The variables have their types, and the lock is as it should be.
TypeOK ==
    /\ phase \in {"warm", "call"} /\ ws \in Sockets \cup {None}
    /\ socks \in [Sockets -> {"none", "open", "dead", "closed"}]
    /\ pc \in [Tasks -> {"idle", "sending", "receiving", "pinging", "closing", "locking",
                         "connecting", "flushing", "gone"}]
    /\ sock \in [Tasks -> Sockets \cup {None}] /\ tries \in 0..Backoffs
    /\ hand \in 0..MaxFrames /\ given \in 0..MaxFrames
    /\ buffer \in Seq(1..MaxFrames) /\ Len(buffer) <= BufferMax
    /\ written \in Seq([socket : Sockets, frame : 1..MaxFrames]) /\ lost \subseteq 1..MaxFrames
    /\ stopped \in BOOLEAN /\ stopping \in {"no", "closing", "done"}
    /\ closes \in Sockets \cup {None} /\ late \in BOOLEAN /\ cut \in BOOLEAN
    /\ LockOK

\* The recogniser hears the caller's frames in the order they were spoken, none
\* twice on one connection, whichever task flushes the buffer and whenever the
\* sender loop sends the next frame.  _connect_with_retries sets _websocket
\* before it flushes, so a frame could overtake the buffered ones; that it does
\* not rests on the sender loop waiting for the lock whenever it has buffered.
\* Only after a flush that was cut off, its task then giving up, can another
\* task flush what is left while the sender loop is free to overtake.
FramesInOrder ==
    ~cut => \A i, j \in DOMAIN written :
        i < j => \/ written[i].frame < written[j].frame
                 \/ written[i].frame = written[j].frame /\ written[i].socket < written[j].socket

\* No frame is forgotten: each one given was written, waits in the buffer or is
\* in one of the three losses the code has: the oldest pushed out of two
\* seconds, the one whose send fails in a flush, and those after the stop.  Nor
\* is one held back from a recogniser that is there: with the connection up and
\* nobody reconnecting, the buffer is empty.
NoFrameForgotten ==
    /\ \A f \in 1..given : \/ f \in lost \/ (\E i \in DOMAIN buffer : buffer[i] = f)
                           \/ \E i \in DOMAIN written : written[i].frame = f
    /\ ~stopped /\ Open(ws) /\ InLock = {} => buffer = <<>>

\* There is one connection: no socket but the current one is left open, by a
\* task that drops a socket another has just made, by two tasks that connect or
\* by an attempt after a failed flush; and none once stop() has returned.  The
\* exception is a task that was in its attempts when stop() came: stopped is
\* looked at before the first of them only, so it opens a socket nobody closes.
OneConnection ==
    /\ \A s \in Sockets : Open(s) /\ s # ws => stopped /\ late
    /\ stopping = "done" /\ ~late => \A s \in Sockets : ~Open(s)

\* send_audio returns, whoever else has the lock and however its attempts end.
SendReturns == pc["sender"] \notin {"idle", "gone"} ~> pc["sender"] \in {"idle", "gone"}
=============================================================================
