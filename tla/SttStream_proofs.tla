--------------------------- MODULE SttStream_proofs ---------------------------
(***************************************************************************)
(* Proofs about SttStream, for every value of its constants.                *)
(***************************************************************************)
EXTENDS SttStream, Integers, SequenceTheorems, TLAPS

(***************************************************************************)
(* The inductive invariant.                                                 *)
(***************************************************************************)

\* Whoever connects has the lock and no connection; whoever flushes does it to
\* the current socket, unless that was dropped; and after stop() only those go
\* on who were in their attempts before.
Wires ==
    /\ ws # None => socks[ws] # "none"
    /\ \A t \in Tasks : pc[t] = "connecting" => ~Open(ws)
    /\ \A t \in Tasks : pc[t] = "flushing" => sock[t] # None /\ ws \in {sock[t], None}
    /\ \A t \in Tasks : stopped /\ pc[t] \in {"connecting", "flushing"} => late
    /\ stopping = "closing" /\ ~late => ws \in {closes, None}
    /\ stopped <=> stopping # "no"

Places == {"idle", "sending", "receiving", "pinging", "closing", "locking",
           "connecting", "flushing", "gone"}
ConnTypes ==
    /\ phase \in {"warm", "call"} /\ ws \in Sockets \cup {None}
    /\ socks \in [Sockets -> {"none", "open", "dead", "closed"}]
    /\ pc \in [Tasks -> Places] /\ sock \in [Tasks -> Sockets \cup {None}] /\ tries \in 0..Backoffs
    /\ stopped \in BOOLEAN /\ stopping \in {"no", "closing", "done"}
    /\ closes \in Sockets \cup {None} /\ late \in BOOLEAN /\ LockOK

\* The connection and the tasks.
Conn == ConnTypes /\ Wires /\ OneConnection

\* What waits in the buffer while the connection is up is being flushed to it.
Waiting ==
    ~stopped /\ Open(ws) /\ buffer # <<>> =>
        \E t \in Tasks : pc[t] = "flushing" /\ sock[t] = ws

Known(f) == \/ f \in lost \/ (\E i \in DOMAIN buffer : buffer[i] = f)
            \/ \E i \in DOMAIN written : written[i].frame = f

\* Every frame is accounted for, and the one in hand is one of them.
Account ==
    /\ \A f \in 1..given : Known(f)
    /\ pc["sender"] = "sending" => hand # None

FrameTypes ==
    /\ hand \in 0..MaxFrames /\ given \in 0..MaxFrames
    /\ buffer \in Seq(1..MaxFrames) /\ Len(buffer) <= BufferMax
    /\ written \in Seq([socket : Sockets, frame : 1..MaxFrames]) /\ lost \subseteq 1..MaxFrames
    /\ cut \in BOOLEAN

\* The audio.
Frames == FrameTypes /\ Account

IInv == Conn /\ Frames /\ Waiting

-----------------------------------------------------------------------------
(* The lock.                                                                *)

\* The tasks there are, whether the adapter has a keepalive loop or not.
LEMMA TasksOK == "sender" \in Tasks /\ "receiver" \in Tasks /\ "health" \in Tasks
                 /\ (KeepAlive => "keepalive" \in Tasks)
  BY DEF Tasks

\* A task that neither had to do with the lock nor has.
LEMMA OutsideOK ==
  ASSUME LockOK, pc \in [Tasks -> Places], NEW t \in Tasks, NEW where, t \notin InLock,
         where \notin {"locking", "connecting", "flushing"},
         pc' = [pc EXCEPT ![t] = where], ahead' = ahead
  PROVE  LockOK'
  BY DEF LockOK, InLock

\* A task joins those that wait.
LEMMA QueueOK ==
  ASSUME LockOK, pc \in [Tasks -> Places], NEW t \in Tasks, t \notin InLock, Queue(t)
  PROVE  LockOK'
  BY DEF LockOK, InLock, Queue, Go, With

\* Its holder goes on with the lock.
LEMMA HolderOK ==
  ASSUME LockOK, pc \in [Tasks -> Places], NEW t \in Tasks, t \in InLock, ahead[t] = {},
         NEW where \in {"locking", "connecting", "flushing"},
         pc' = [pc EXCEPT ![t] = where], ahead' = ahead
  PROVE  LockOK'
  BY DEF LockOK, InLock

\* Its holder leaves it.
LEMMA ReleaseOK ==
  ASSUME LockOK, pc \in [Tasks -> Places], NEW t \in Tasks, t \in InLock, ahead[t] = {}, Release(t)
  PROVE  LockOK'
  BY DEF LockOK, InLock, Release, Go, With

\* Whoever has been cancelled neither holds the lock nor waits for it.
LEMMA CancelOK ==
  ASSUME LockOK, pc \in [Tasks -> Places], NEW ts, Cancel(ts)
  PROVE  LockOK'
  BY DEF LockOK, InLock, Cancel

\* There is one holder at a time.
LEMMA OneHolder ==
  ASSUME LockOK, NEW t \in Tasks, NEW u \in Tasks,
         pc[t] \in {"connecting", "flushing"}, pc[u] \in {"connecting", "flushing"}
  PROVE  t = u
  BY DEF LockOK, InLock

-----------------------------------------------------------------------------
(* Steps of a task that leave the audio alone.                              *)

\* The flushes under way are those that were.
SameFlushes == \A u \in Tasks : pc[u] = "flushing" => pc'[u] = "flushing" /\ sock'[u] = sock[u]

\* A task that has nothing to do with the lock takes a socket, or lets it go.
LEMMA MoveOK ==
  ASSUME Conn, NEW t \in Tasks, t \notin InLock, NEW where \in {"idle", "sending", "receiving", "pinging"},
         NEW s \in Sockets \cup {None}, With(t, where, s),
         UNCHANGED <<phase, ws, socks, tries, ahead, stopVars>>
  PROVE  Conn' /\ SameFlushes
  <1>1. /\ pc' = [pc EXCEPT ![t] = where] /\ sock' = [sock EXCEPT ![t] = s]
        /\ pc' \in [Tasks -> Places] /\ sock' \in [Tasks -> Sockets \cup {None}]
        /\ UNCHANGED <<stopped, stopping, closes, late, phase, ws, socks, tries>>
    BY DEF Conn, ConnTypes, With, Places, stopVars
  <1>2. LockOK'
    BY <1>1, OutsideOK DEF Conn, ConnTypes
  <1>3. Wires' /\ OneConnection' /\ SameFlushes
    BY <1>1 DEF Conn, ConnTypes, Wires, OneConnection, Open, InLock, SameFlushes
  <1> QED
    BY <1>1, <1>2, <1>3 DEF Conn, ConnTypes

\* A task drops whatever socket is the current one.
LEMMA DropOK ==
  ASSUME Conn, NEW t \in Tasks, t \notin InLock, Drop(t), UNCHANGED <<phase, tries, stopVars>>
  PROVE  Conn' /\ ws' = None /\ (pc["sender"]' = "sending" => pc["sender"] = "sending" /\ t # "sender")
  <1>1. /\ ws' = None /\ sock' = [sock EXCEPT ![t] = None]
        /\ \/ pc' = [pc EXCEPT ![t] = "closing"] /\ ahead' = ahead /\ Open(ws) /\ socks' = Closed(ws)
           \/ pc' = [pc EXCEPT ![t] = "locking"] /\ Queue(t) /\ ~Open(ws) /\ socks' = socks
        /\ UNCHANGED <<stopped, stopping, closes, late, phase, tries>>
    BY DEF Drop, Queue, Go, With, stopVars
  <1>2. LockOK'
    BY <1>1, OutsideOK, QueueOK DEF Conn, ConnTypes
  <1>3. pc' \in [Tasks -> Places] /\ sock' \in [Tasks -> Sockets \cup {None}]
    BY <1>1 DEF Conn, ConnTypes, Places
  <1>4. /\ socks' \in [Sockets -> {"none", "open", "dead", "closed"}]
        /\ \A s \in Sockets : socks'[s] = "open" => socks[s] = "open" /\ s # ws
    <2>1. ws \in Sockets \cup {None} /\ None \notin Sockets
          /\ socks \in [Sockets -> {"none", "open", "dead", "closed"}]
      BY SttAssumption DEF Conn, ConnTypes, Sockets, None
    <2>2. CASE ws # None /\ socks[ws] = "open" /\ socks' = Closed(ws)
      BY <2>1, <2>2 DEF Closed
    <2>3. CASE (ws = None \/ socks[ws] # "open") /\ socks' = socks
      BY <2>1, <2>3
    <2> QED
      BY <1>1, <2>2, <2>3 DEF Open
  <1>5. Wires'
    BY <1>1, <1>3 DEF Conn, ConnTypes, Wires, Open, None
  <1>6. OneConnection'
    BY <1>1, <1>4 DEF Conn, OneConnection, Open
  <1>7. pc["sender"]' = "sending" => pc["sender"] = "sending" /\ t # "sender"
    BY <1>1, TasksOK DEF Conn, ConnTypes
  <1> QED
    BY <1>1, <1>2, <1>3, <1>4, <1>5, <1>6, <1>7 DEF Conn, ConnTypes, None

\* A task joins those that wait for the lock.
LEMMA JoinOK ==
  ASSUME Conn, NEW t \in Tasks, t \notin InLock, Queue(t), UNCHANGED <<phase, ws, socks, tries, stopVars>>
  PROVE  Conn' /\ SameFlushes
  <1>1. /\ pc' = [pc EXCEPT ![t] = "locking"] /\ sock' = [sock EXCEPT ![t] = None]
        /\ pc' \in [Tasks -> Places] /\ sock' \in [Tasks -> Sockets \cup {None}]
        /\ UNCHANGED <<stopped, stopping, closes, late, phase, ws, socks, tries>>
    BY DEF Conn, ConnTypes, Queue, Go, With, Places, stopVars
  <1>2. LockOK'
    BY QueueOK DEF Conn, ConnTypes
  <1>3. Wires' /\ OneConnection' /\ SameFlushes
    BY <1>1 DEF Conn, ConnTypes, Wires, OneConnection, Open, InLock, SameFlushes
  <1> QED
    BY <1>1, <1>2, <1>3 DEF Conn, ConnTypes

\* The holder of the lock leaves it.
LEMMA LeaveOK ==
  ASSUME Conn, NEW t \in Tasks, t \in InLock, ahead[t] = {}, Release(t), UNCHANGED <<phase, ws, socks, tries, stopVars>>
  PROVE  Conn' /\ pc' = [pc EXCEPT ![t] = "idle"]
  <1>1. /\ pc' = [pc EXCEPT ![t] = "idle"] /\ sock' = [sock EXCEPT ![t] = None]
        /\ pc' \in [Tasks -> Places] /\ sock' \in [Tasks -> Sockets \cup {None}]
        /\ UNCHANGED <<stopped, stopping, closes, late, phase, ws, socks, tries>>
    BY DEF Conn, ConnTypes, Release, Go, With, Places, stopVars
  <1>2. LockOK'
    BY ReleaseOK DEF Conn, ConnTypes
  <1>3. Wires' /\ OneConnection'
    BY <1>1 DEF Conn, ConnTypes, Wires, OneConnection, Open
  <1> QED
    BY <1>1, <1>2, <1>3 DEF Conn, ConnTypes

\* The holder goes on to an attempt, without a connection, and is no straggler
\* unless it was one.
LEMMA AttemptOK ==
  ASSUME Conn, NEW t \in Tasks, t \in InLock, ahead[t] = {}, ~Open(ws), stopped => late,
         Go(t, "connecting"), UNCHANGED <<phase, ws, socks, ahead, stopVars>>, tries' \in 0..Backoffs
  PROVE  Conn' /\ pc' = [pc EXCEPT ![t] = "connecting"]
  <1>1. /\ pc' = [pc EXCEPT ![t] = "connecting"] /\ sock' = [sock EXCEPT ![t] = None]
        /\ pc' \in [Tasks -> Places] /\ sock' \in [Tasks -> Sockets \cup {None}]
        /\ UNCHANGED <<stopped, stopping, closes, late, phase, ws, socks>>
    BY DEF Conn, ConnTypes, Go, With, Places, stopVars
  <1>2. LockOK'
    BY <1>1, HolderOK DEF Conn, ConnTypes
  <1>3. Wires' /\ OneConnection'
    BY <1>1 DEF Conn, ConnTypes, Wires, OneConnection, Open
  <1> QED
    BY <1>1, <1>2, <1>3 DEF Conn, ConnTypes

\* An attempt has failed.
LEMMA RetryOK ==
  ASSUME Conn, NEW t \in Tasks, pc[t] \in {"connecting", "flushing"}, ~Open(ws), Retry(t),
         UNCHANGED <<phase, ws, socks, stopVars>>
  PROVE  Conn' /\ pc' \in {[pc EXCEPT ![t] = "connecting"], [pc EXCEPT ![t] = "idle"]}
  <1>1. /\ t \in InLock /\ ahead[t] = {} /\ (stopped => late)
        /\ tries \in 0..Backoffs /\ Backoffs \in Nat
    BY SttAssumption DEF Conn, ConnTypes, LockOK, InLock, Wires
  <1>2. CASE tries < Backoffs
    <2>1. tries' \in 0..Backoffs /\ Go(t, "connecting") /\ ahead' = ahead
      BY <1>1, <1>2 DEF Retry
    <2> QED
      BY <1>1, <2>1, AttemptOK
  <1>3. CASE ~(tries < Backoffs)
    <2>1. Release(t) /\ tries' = tries
      BY <1>3 DEF Retry
    <2> QED
      BY <1>1, <2>1, LeaveOK
  <1> QED
    BY <1>2, <1>3

\* A new connection, and the first step of its flush.
LEMMA ConnectedOK ==
  ASSUME Conn, NEW t \in Tasks, pc[t] = "connecting", NEW s \in Sockets, socks[s] = "none",
         ws' = s, socks' = [socks EXCEPT ![s] = "open"], UNCHANGED <<phase, tries, stopVars>>,
         Release(t) \/ (With(t, "flushing", s) /\ ahead' = ahead)
  PROVE  Conn'
  <1>1. /\ sock' \in [Tasks -> Sockets \cup {None}]
        /\ \/ pc' = [pc EXCEPT ![t] = "idle"] /\ Release(t)
           \/ pc' = [pc EXCEPT ![t] = "flushing"] /\ ahead' = ahead /\ sock' = [sock EXCEPT ![t] = s]
        /\ UNCHANGED <<stopped, stopping, closes, late, phase, tries>>
    BY DEF Conn, ConnTypes, Release, Go, With, stopVars
  <1>2. t \in InLock /\ ahead[t] = {} /\ (stopped => late) /\ ~Open(ws) /\ s # None
    BY SttAssumption DEF Conn, ConnTypes, LockOK, InLock, Wires, Sockets, None
  <1>3. LockOK'
    BY <1>1, <1>2, HolderOK, ReleaseOK DEF Conn, ConnTypes
  <1>4. pc' \in [Tasks -> Places] /\ socks' \in [Sockets -> {"none", "open", "dead", "closed"}]
    BY <1>1 DEF Conn, ConnTypes, Places
  <1>5. \A u \in Tasks : u # t => pc[u] \notin {"connecting", "flushing"}
    BY OneHolder DEF Conn, ConnTypes
  <1>6. \A u \in Tasks : pc'[u] # "connecting" /\ (pc'[u] = "flushing" => u = t /\ sock'[u] = s)
    BY <1>1, <1>5 DEF Conn, ConnTypes
  <1>7. Wires'
    BY <1>1, <1>2, <1>6 DEF Conn, ConnTypes, Wires
  <1>8. OneConnection'
    <2>1. \A r \in Sockets : socks'[r] = "open" => r = s \/ (Open(r) /\ r # ws)
      BY <1>2 DEF Conn, ConnTypes, Open, Sockets, None
    <2> QED
      BY <1>1, <1>2, <2>1 DEF Conn, OneConnection, Open, Wires
  <1> QED
    BY <1>1, <1>3, <1>4, <1>7, <1>8 DEF Conn, ConnTypes

-----------------------------------------------------------------------------
(* The audio.                                                               *)

\* A frame is kept for the next connection.
LEMMA KeepOK ==
  ASSUME FrameTypes, NEW f \in 1..MaxFrames, Keep(f), written' = written
  PROVE  /\ buffer' \in Seq(1..MaxFrames) /\ Len(buffer') <= BufferMax /\ lost' \subseteq 1..MaxFrames
         /\ Known(f)' /\ \A g : Known(g) => Known(g)'
  <1>1. /\ buffer \in Seq(1..MaxFrames) /\ Len(buffer) \in Nat /\ Len(buffer) <= BufferMax
        /\ BufferMax \in Nat /\ BufferMax >= 1 /\ lost \subseteq 1..MaxFrames
    BY SttAssumption DEF FrameTypes
  <1>2. CASE Len(buffer) < BufferMax
    <2>1. buffer' = Append(buffer, f) /\ lost' = lost
      BY <1>2 DEF Keep, Buffered, PushedOut
    <2>2. /\ buffer' \in Seq(1..MaxFrames) /\ Len(buffer') = Len(buffer) + 1
          /\ DOMAIN buffer = 1..Len(buffer) /\ DOMAIN buffer' = 1..(Len(buffer) + 1)
          /\ \A i \in 1..Len(buffer) : buffer'[i] = buffer[i]
          /\ buffer'[Len(buffer) + 1] = f
      BY <1>1, <2>1
    <2>3. Len(buffer') <= BufferMax /\ Len(buffer) + 1 \in DOMAIN buffer'
          /\ \A i \in DOMAIN buffer : i \in DOMAIN buffer'
      BY <1>1, <1>2, <2>2
    <2> QED
      BY <1>1, <2>1, <2>2, <2>3 DEF Known
  <1>3. CASE ~(Len(buffer) < BufferMax)
    <2>1. buffer' = Append(Tail(buffer), f) /\ lost' = lost \cup {Head(buffer)}
      BY <1>3 DEF Keep, Buffered, PushedOut
    <2>2. buffer # <<>> /\ Len(buffer) = BufferMax
      BY <1>1, <1>3
    <2> DEFINE tl == Tail(buffer)
    <2>11. buffer \in Seq(1..MaxFrames) /\ buffer # <<>>
      BY <1>1, <2>2
    <2>7. Head(buffer) \in 1..MaxFrames /\ Head(buffer) = buffer[1] /\ DOMAIN buffer = 1..Len(buffer)
      <3>1. Head(buffer) = buffer[1] /\ DOMAIN buffer = 1..Len(buffer)
        BY <2>11
      <3>3. 1 \in 1..Len(buffer)
        BY <1>1, <2>2
      <3>2. Head(buffer) \in 1..MaxFrames
        BY <2>11, <3>1, <3>3, SttAssumption
      <3> QED
        BY <3>1, <3>2
    <2>8. tl \in Seq(1..MaxFrames)
      BY <1>1, <2>2
    <2>9. Len(tl) = Len(buffer) - 1
      BY <1>1, <2>2
    <2>10. \A i \in 1..(Len(buffer) - 1) : tl[i] = buffer[i + 1]
      BY <1>1, <2>2
    <2> HIDE DEF tl
    <2>3. /\ tl \in Seq(1..MaxFrames) /\ Head(buffer) \in 1..MaxFrames /\ Head(buffer) = buffer[1]
          /\ Len(tl) = Len(buffer) - 1 /\ DOMAIN buffer = 1..Len(buffer)
          /\ \A i \in 1..(Len(buffer) - 1) : tl[i] = buffer[i + 1]
      BY <2>7, <2>8, <2>9, <2>10
    <2>4. /\ buffer' \in Seq(1..MaxFrames) /\ Len(buffer') = Len(buffer) /\ DOMAIN buffer' = 1..Len(buffer)
          /\ \A i \in 1..(Len(buffer) - 1) : buffer'[i] = tl[i]
          /\ buffer'[Len(buffer)] = f
      <3>1. buffer' = Append(tl, f)
        BY <2>1 DEF tl
      <3> QED
        BY <1>1, <2>2, <2>3, <3>1
    <2>5. ASSUME NEW i \in DOMAIN buffer PROVE buffer[i] \in lost' \/ \E j \in DOMAIN buffer' : buffer'[j] = buffer[i]
      <3>1. CASE i = 1
        BY <3>1, <2>1, <2>3
      <3>2. CASE i # 1
        <4>1. i - 1 \in 1..(Len(buffer) - 1) /\ i - 1 \in DOMAIN buffer' /\ (i - 1) + 1 = i
          BY <3>2, <1>1, <2>3, <2>4
        <4> QED
          BY <4>1, <2>3, <2>4
      <3> QED
        BY <3>1, <3>2
    <2>6. Len(buffer) \in DOMAIN buffer' /\ Len(buffer') <= BufferMax /\ lost' \subseteq 1..MaxFrames
      <3>1. Len(buffer) \in 1..Len(buffer)
        BY <1>1, <2>2
      <3> QED
        BY <1>1, <2>1, <2>3, <2>4, <3>1
    <2> QED
      BY <2>1, <2>4, <2>5, <2>6 DEF Known
  <1> QED
    BY <1>2, <1>3

\* The oldest frame leaves the buffer, for the socket or for good.
LEMMA PopOK ==
  ASSUME FrameTypes, buffer # <<>>, buffer' = Tail(buffer), NEW s \in Sockets,
         \/ written' = Append(written, [socket |-> s, frame |-> Head(buffer)]) /\ lost' = lost
         \/ written' = written /\ lost' = lost \cup {Head(buffer)}
  PROVE  /\ buffer' \in Seq(1..MaxFrames) /\ Len(buffer') <= BufferMax /\ lost' \subseteq 1..MaxFrames
         /\ written' \in Seq([socket : Sockets, frame : 1..MaxFrames])
         /\ \A g : Known(g) => Known(g)'
  <1>1. /\ Head(buffer) \in 1..MaxFrames /\ Head(buffer) = buffer[1] /\ Len(buffer) \in Nat
        /\ buffer' \in Seq(1..MaxFrames) /\ Len(buffer') = Len(buffer) - 1
        /\ DOMAIN buffer = 1..Len(buffer) /\ DOMAIN buffer' = 1..(Len(buffer) - 1)
        /\ \A i \in 1..(Len(buffer) - 1) : buffer'[i] = buffer[i + 1]
        /\ BufferMax \in Nat /\ Len(buffer) <= BufferMax
    BY SttAssumption DEF FrameTypes
  <1>2. \A i \in DOMAIN buffer : i = 1 \/ \E j \in DOMAIN buffer' : buffer'[j] = buffer[i]
    <2> SUFFICES ASSUME NEW i \in DOMAIN buffer, i # 1 PROVE \E j \in DOMAIN buffer' : buffer'[j] = buffer[i]
      OBVIOUS
    <2>1. i - 1 \in DOMAIN buffer' /\ i - 1 \in 1..(Len(buffer) - 1) /\ (i - 1) + 1 = i
      BY <1>1
    <2> QED
      BY <1>1, <2>1
  <1>3. CASE written' = Append(written, [socket |-> s, frame |-> Head(buffer)]) /\ lost' = lost
    <2> DEFINE w == [socket |-> s, frame |-> Head(buffer)]
    <2>1. w \in [socket : Sockets, frame : 1..MaxFrames] /\ w.frame = buffer[1]
      BY <1>1
    <2> HIDE DEF w
    <2>2. /\ written' \in Seq([socket : Sockets, frame : 1..MaxFrames]) /\ Len(written) \in Nat
          /\ DOMAIN written = 1..Len(written) /\ DOMAIN written' = 1..(Len(written) + 1)
          /\ \A i \in 1..Len(written) : written'[i] = written[i]
          /\ written'[Len(written) + 1] = w
      BY <1>3, <2>1 DEF FrameTypes, w
    <2>3. Len(written) + 1 \in DOMAIN written' /\ \A i \in DOMAIN written : i \in DOMAIN written'
      BY <2>2
    <2>4. ASSUME NEW g, Known(g) PROVE Known(g)'
      <3>1. CASE g \in lost
        BY <1>3, <3>1 DEF Known
      <3>2. CASE \E i \in DOMAIN written : written[i].frame = g
        <4>1. PICK i \in DOMAIN written : written[i].frame = g
          BY <3>2
        <4>2. i \in DOMAIN written' /\ written'[i].frame = g
          BY <2>2, <2>3, <4>1
        <4> QED
          BY <4>2 DEF Known
      <3>3. CASE \E i \in DOMAIN buffer : buffer[i] = g
        <4>1. PICK i \in DOMAIN buffer : buffer[i] = g
          BY <3>3
        <4>2. CASE i = 1
          <5>1. written'[Len(written) + 1].frame = g
            BY <2>1, <2>2, <4>1, <4>2
          <5> QED
            BY <2>3, <5>1 DEF Known
        <4>3. CASE i # 1
          BY <1>2, <4>1, <4>3 DEF Known
        <4> QED
          BY <4>2, <4>3
      <3> QED
        BY <2>4, <3>1, <3>2, <3>3 DEF Known
    <2> QED
      BY <1>1, <1>3, <2>2, <2>4 DEF FrameTypes
  <1>4. CASE written' = written /\ lost' = lost \cup {Head(buffer)}
    <2>3. lost' \subseteq 1..MaxFrames
      BY <1>1, <1>4 DEF FrameTypes
    <2>1. lost' \subseteq 1..MaxFrames /\ Len(buffer') <= BufferMax
      BY <1>1, <2>3
    <2>2. \A g : Known(g) => Known(g)'
      BY <1>1, <1>2, <1>4 DEF Known
    <2> QED
      BY <1>1, <1>4, <2>1, <2>2 DEF FrameTypes
  <1> QED
    BY <1>3, <1>4

-----------------------------------------------------------------------------
(* One lemma per action.                                                    *)

\* The audio is left alone.
LEMMA QuietOK == ASSUME Frames, UNCHANGED <<hand, audioVars>>, pc["sender"]' = "sending" => pc["sender"] = "sending"
                 PROVE  Frames'
  BY DEF Frames, FrameTypes, Account, Known, audioVars

\* With nobody flushing but who was, nothing more waits.
LEMMA WaitsOK ==
  ASSUME Waiting, stopped => stopped', Open(ws)' => Open(ws) /\ ws' = ws, buffer' = buffer \/ buffer' = <<>>,
         \A u \in Tasks : pc[u] = "flushing" => pc'[u] = "flushing" /\ sock'[u] = sock[u]
  PROVE  Waiting'
  BY DEF Waiting

LEMMA InitOK == Init => IInv
  <1> SUFFICES ASSUME Init PROVE IInv
    OBVIOUS
  <1>1. /\ 1 \in Sockets /\ 1 # None /\ tries \in 0..Backoffs /\ given \in 0..MaxFrames
        /\ hand \in 0..MaxFrames /\ hand = None
    BY SttAssumption DEF Init, Sockets, None
  <1>2. /\ buffer \in Seq(1..MaxFrames) /\ Len(buffer) <= BufferMax
        /\ written \in Seq([socket : Sockets, frame : 1..MaxFrames])
    BY SttAssumption DEF Init
  <1>3. FrameTypes
    BY <1>1, <1>2 DEF Init, FrameTypes
  <1>4. Account
    BY TasksOK DEF Init, Account
  <1>5. LockOK
    BY DEF Init, LockOK, InLock
  <1>6. /\ phase \in {"warm", "call"} /\ ws \in Sockets \cup {None}
        /\ socks \in [Sockets -> {"none", "open", "dead", "closed"}]
        /\ pc \in [Tasks -> Places] /\ sock \in [Tasks -> Sockets \cup {None}]
    BY <1>1 DEF Init, Places
  <1>9. stopped \in BOOLEAN /\ stopping \in {"no", "closing", "done"}
        /\ closes \in Sockets \cup {None} /\ late \in BOOLEAN
    BY DEF Init
  <1>7. Wires /\ OneConnection
    BY <1>1 DEF Init, Wires, OneConnection, Open
  <1>8. Waiting
    BY DEF Init, Waiting
  <1> QED
    BY <1>1, <1>3, <1>4, <1>5, <1>6, <1>7, <1>8, <1>9 DEF IInv, Conn, ConnTypes, Frames

LEMMA ReconnectsOK == ASSUME IInv, NEW t \in Tasks, Reconnects(t) PROVE IInv'
  <1>1. Conn /\ Frames /\ Waiting /\ pc \in [Tasks -> Places] /\ LockOK
    BY DEF IInv, Conn, ConnTypes
  <1>2. CASE CloseDone(t)
    <2>1. /\ Queue(t) /\ t \notin InLock /\ pc' = [pc EXCEPT ![t] = "locking"]
          /\ UNCHANGED <<phase, ws, socks, tries, hand, audioVars, stopVars, buffer, stopped>>
      BY <1>2 DEF CloseDone, InLock, Queue, Go, With, audioVars, stopVars
    <2>2. Conn' /\ SameFlushes
      BY <1>1, <2>1, JoinOK
    <2>3. Frames'
      BY <1>1, <2>1, TasksOK, QuietOK
    <2>4. Waiting'
      BY <1>1, <2>1, <2>2, WaitsOK DEF SameFlushes, Open
    <2> QED
      BY <2>2, <2>3, <2>4 DEF IInv
  <1>3. CASE Locked(t)
    <2>1. /\ pc[t] = "locking" /\ t \in InLock /\ ahead[t] = {}
          /\ UNCHANGED <<phase, ws, socks, hand, audioVars, stopVars, buffer, stopped>>
      BY <1>3 DEF Locked, InLock, audioVars, stopVars
    <2>2. Conn' /\ pc' \in {[pc EXCEPT ![t] = "connecting"], [pc EXCEPT ![t] = "idle"]}
      <3>1. CASE NoNeed
        <4>1. Release(t) /\ tries' = tries
          BY <1>3, <3>1 DEF Locked
        <4> QED
          BY <1>1, <2>1, <4>1, LeaveOK
      <3>2. CASE ~NoNeed
        <4>1. Go(t, "connecting") /\ tries' = 0 /\ ahead' = ahead /\ ~Open(ws) /\ ~stopped
          BY <1>3, <3>2 DEF Locked, NoNeed
        <4>2. tries' \in 0..Backoffs
          BY <4>1, SttAssumption
        <4> QED
          BY <1>1, <2>1, <4>1, <4>2, AttemptOK
      <3> QED
        BY <3>1, <3>2
    <2>3. Frames'
      BY <1>1, <2>1, <2>2, TasksOK, QuietOK
    <2>4. \A u \in Tasks : pc[u] = "flushing" => u # t /\ pc'[u] = "flushing"
      BY <1>1, <2>1, <2>2
    <2>5. \A u \in Tasks : u # t => sock'[u] = sock[u]
      BY <1>3 DEF Locked, Release, Go, With, Conn, ConnTypes, IInv
    <2>6. Waiting'
      BY <1>1, <2>1, <2>4, <2>5, WaitsOK DEF Open
    <2> QED
      BY <2>2, <2>3, <2>6 DEF IInv
  <1>4. CASE ConnectFails(t)
    <2>1. /\ pc[t] = "connecting" /\ Retry(t) /\ ~Open(ws)
          /\ UNCHANGED <<phase, ws, socks, hand, audioVars, stopVars, buffer, stopped>>
      BY <1>1, <1>4 DEF ConnectFails, Conn, Wires, audioVars, stopVars
    <2>2. Conn' /\ pc' \in {[pc EXCEPT ![t] = "connecting"], [pc EXCEPT ![t] = "idle"]}
      BY <1>1, <2>1, RetryOK
    <2>3. Frames'
      BY <1>1, <2>1, <2>2, TasksOK, QuietOK
    <2>4. Waiting'
      BY <2>1 DEF Waiting, Open
    <2> QED
      BY <2>2, <2>3, <2>4 DEF IInv
  <1>5. CASE Connects(t)
    <2>1. PICK s \in Sockets : /\ socks[s] = "none" /\ ws' = s /\ socks' = [socks EXCEPT ![s] = "open"]
                               /\ Flush(t, s, "open")
      BY <1>5 DEF Connects
    <2>2. pc[t] = "connecting" /\ UNCHANGED <<phase, hand, given, stopVars>>
      BY <1>5 DEF Connects
    <2>3. CASE buffer = <<>>
      <3>1. Release(t) /\ UNCHANGED <<buffer, written, lost, cut, tries>>
        BY <2>1, <2>3 DEF Flush
      <3>2. Conn' /\ pc' = [pc EXCEPT ![t] = "idle"]
        BY <1>1, <2>1, <2>2, <3>1, ConnectedOK DEF Release, Go, With
      <3>3. Frames'
        BY <1>1, <2>2, <3>1, <3>2, TasksOK, QuietOK DEF audioVars
      <3>4. Waiting'
        BY <2>3, <3>1 DEF Waiting
      <3> QED
        BY <3>2, <3>3, <3>4 DEF IInv
    <2>4. CASE buffer # <<>>
      <3>1. /\ buffer' = Tail(buffer) /\ written' = Append(written, [socket |-> s, frame |-> Head(buffer)])
            /\ With(t, "flushing", s) /\ UNCHANGED <<lost, cut, tries, ahead>>
        BY <2>1, <2>4 DEF Flush
      <3>2. Conn' /\ pc' = [pc EXCEPT ![t] = "flushing"] /\ sock' = [sock EXCEPT ![t] = s]
        BY <1>1, <2>1, <2>2, <3>1, ConnectedOK DEF With
      <3>3. Frames'
        BY <1>1, <2>2, <2>4, <3>1, <3>2, TasksOK, PopOK DEF Frames, FrameTypes, Account
      <3>4. Waiting'
        BY <1>1, <2>1, <3>2 DEF Waiting, Conn, ConnTypes
      <3> QED
        BY <3>2, <3>3, <3>4 DEF IInv
    <2> QED
      BY <2>3, <2>4
  <1>6. CASE FlushOn(t)
    <2>1. /\ pc[t] = "flushing" /\ t \in InLock /\ ahead[t] = {} /\ sock[t] \in Sockets
          /\ ws \in {sock[t], None} /\ (stopped => late)
          /\ UNCHANGED <<phase, ws, socks, hand, given, stopVars>>
      BY <1>1, <1>6 DEF FlushOn, Conn, ConnTypes, LockOK, InLock, Wires
    <2>2. CASE buffer = <<>> /\ Release(t) /\ UNCHANGED <<buffer, written, lost, cut, tries>>
      <3>1. Conn' /\ pc' = [pc EXCEPT ![t] = "idle"]
        BY <1>1, <2>1, <2>2, LeaveOK
      <3>2. Frames'
        BY <1>1, <2>1, <2>2, <3>1, TasksOK, QuietOK DEF audioVars
      <3> QED
        BY <2>2, <3>1, <3>2 DEF IInv, Waiting
    <2>3. CASE /\ buffer # <<>> /\ buffer' = Tail(buffer)
               /\ written' = Append(written, [socket |-> sock[t], frame |-> Head(buffer)])
               /\ With(t, "flushing", sock[t]) /\ UNCHANGED <<lost, cut, tries, ahead>>
      <3>1. pc' = pc /\ sock' = sock
        BY <1>1, <2>1, <2>3 DEF With, Conn, ConnTypes
      <3>2. Conn'
        BY <1>1, <2>1, <2>3, <3>1 DEF Conn, ConnTypes, LockOK, InLock, Wires, OneConnection, Open, stopVars
      <3>3. Frames'
        BY <1>1, <2>1, <2>3, <3>1, PopOK DEF Frames, FrameTypes, Account
      <3>4. Waiting'
        BY <2>1, <3>1 DEF Waiting, Open
      <3> QED
        BY <3>2, <3>3, <3>4 DEF IInv
    <2>4. CASE /\ ~Open(sock[t]) /\ Retry(t) /\ cut' = TRUE
               /\ \/ UNCHANGED <<buffer, written, lost>>
                  \/ /\ buffer # <<>> /\ buffer' = Tail(buffer) /\ written' = written
                     /\ lost' = lost \cup {Head(buffer)}
      <3>1. ~Open(ws)
        BY <2>1, <2>4 DEF Open
      <3>2. Conn' /\ pc' \in {[pc EXCEPT ![t] = "connecting"], [pc EXCEPT ![t] = "idle"]}
        BY <1>1, <2>1, <2>4, <3>1, RetryOK
      <3>3. pc["sender"]' = "sending" => pc["sender"] = "sending"
        BY <1>1, <3>2, TasksOK
      <3>4. CASE UNCHANGED <<buffer, written, lost>>
        BY <1>1, <2>1, <2>4, <3>1, <3>2, <3>3, <3>4 DEF IInv, Frames, FrameTypes, Account, Known, Waiting, Open
      <3>5. CASE /\ buffer # <<>> /\ buffer' = Tail(buffer) /\ written' = written
                 /\ lost' = lost \cup {Head(buffer)}
        <4>1. Frames'
          BY <1>1, <2>1, <2>4, <3>3, <3>5, PopOK DEF Frames, FrameTypes, Account
        <4>2. Waiting'
          BY <2>1, <3>1 DEF Waiting, Open
        <4> QED
          BY <3>2, <4>1, <4>2 DEF IInv
      <3> QED
        BY <2>4, <3>4, <3>5
    <2> QED
      BY <1>6, <2>1, <2>2, <2>3, <2>4 DEF FlushOn, Flush, Open, None
  <1> QED
    BY <1>2, <1>3, <1>4, <1>5, <1>6 DEF Reconnects

\* A loop or the check takes the current socket.
LEMMA TakeOK ==
  ASSUME IInv, NEW t \in Tasks, NEW where \in {"receiving", "pinging", "sending"}, Take(t, where), t # "sender"
  PROVE  IInv'
  <1>1. /\ Conn /\ Frames /\ Waiting /\ pc \in [Tasks -> Places] /\ t \notin InLock /\ ws \in Sockets \cup {None}
        /\ With(t, where, ws) /\ pc' = [pc EXCEPT ![t] = where]
        /\ UNCHANGED <<phase, ws, socks, tries, ahead, hand, audioVars, stopVars, buffer, stopped>>
    BY DEF IInv, Conn, ConnTypes, Take, With, InLock, audioVars, stopVars
  <1>2. Conn' /\ SameFlushes
    BY <1>1, MoveOK
  <1>3. Frames'
    BY <1>1, TasksOK, QuietOK
  <1>4. Waiting'
    BY <1>1, <1>2, WaitsOK DEF SameFlushes, Open
  <1> QED
    BY <1>2, <1>3, <1>4 DEF IInv

\* Its call on the socket returns.
LEMMA IdleOK ==
  ASSUME IInv, NEW t \in Tasks, t \notin InLock, Go(t, "idle"),
         UNCHANGED <<phase, ws, socks, tries, ahead, hand, audioVars, stopVars>>
  PROVE  IInv'
  <1>1. /\ Conn /\ Frames /\ Waiting /\ pc \in [Tasks -> Places] /\ With(t, "idle", None)
        /\ pc' = [pc EXCEPT ![t] = "idle"] /\ buffer' = buffer /\ stopped' = stopped
    BY DEF IInv, Conn, ConnTypes, Go, With, audioVars, stopVars
  <1>2. Conn' /\ SameFlushes
    BY <1>1, MoveOK
  <1>3. Frames'
    BY <1>1, TasksOK, QuietOK
  <1>4. Waiting'
    BY <1>1, <1>2, WaitsOK DEF SameFlushes, Open
  <1> QED
    BY <1>2, <1>3, <1>4 DEF IInv

\* It raises, and the task drops the current socket.
LEMMA DropsOK ==
  ASSUME IInv, NEW t \in Tasks, t \notin InLock, Drop(t), UNCHANGED <<phase, tries, hand, audioVars, stopVars>>
  PROVE  IInv'
  <1>1. Conn /\ Frames
    BY DEF IInv
  <1>2. Conn' /\ ws' = None /\ (pc["sender"]' = "sending" => pc["sender"] = "sending")
    BY <1>1, DropOK
  <1>3. Frames'
    BY <1>1, <1>2, QuietOK
  <1>4. Waiting'
    BY <1>2 DEF Waiting, Open
  <1> QED
    BY <1>2, <1>3, <1>4 DEF IInv

LEMMA LoopsOK == ASSUME IInv, Receiver \/ KeepsAlive \/ HealthCheck PROVE IInv'
  <1>1. ASSUME NEW t \in Tasks, NEW where \in {"receiving", "sending"}, Returned(t, where) PROVE IInv'
    BY <1>1, IdleOK, DropsOK DEF Returned, InLock
  <1>2. CASE Receiver
    BY <1>1, <1>2, TasksOK, TakeOK DEF Receiver
  <1>3. CASE KeepsAlive
    BY <1>1, <1>3, TasksOK, TakeOK DEF KeepsAlive
  <1>4. CASE HealthCheck
    <2>1. CASE Take("health", "pinging")
      BY <2>1, TasksOK, TakeOK
    <2>2. CASE /\ pc["health"] = "idle" /\ Queue("health")
               /\ UNCHANGED <<phase, ws, socks, tries, hand, audioVars, stopVars>>
      <3>1. /\ Conn /\ Frames /\ Waiting /\ pc \in [Tasks -> Places] /\ "health" \notin InLock
            /\ pc' = [pc EXCEPT !["health"] = "locking"] /\ buffer' = buffer /\ stopped' = stopped
        BY <2>2 DEF IInv, Conn, ConnTypes, InLock, Queue, Go, With, audioVars, stopVars
      <3>2. Conn' /\ SameFlushes
        BY <2>2, <3>1, TasksOK, JoinOK
      <3>3. Frames'
        BY <2>2, <3>1, TasksOK, QuietOK
      <3>4. Waiting'
        BY <2>2, <3>1, <3>2, WaitsOK DEF SameFlushes, Open
      <3> QED
        BY <3>2, <3>3, <3>4 DEF IInv
    <2>3. CASE /\ pc["health"] = "pinging"
               /\ \/ Open(sock["health"]) /\ Go("health", "idle") /\ UNCHANGED <<ws, socks, ahead>>
                  \/ Drop("health")
               /\ UNCHANGED <<phase, tries, hand, audioVars, stopVars>>
      BY <2>3, TasksOK, IdleOK, DropsOK DEF InLock
    <2> QED
      BY <1>4, <2>1, <2>2, <2>3 DEF HealthCheck
  <1> QED
    BY <1>2, <1>3, <1>4

LEMMA SentOK == ASSUME IInv, Sent PROVE IInv'
  <1>1. /\ Conn /\ Frames /\ Waiting /\ pc \in [Tasks -> Places] /\ "sender" \in Tasks /\ "sender" \notin InLock
        /\ pc["sender"] = "sending" /\ hand' = None /\ 0 \in 0..MaxFrames
        /\ UNCHANGED <<phase, tries, given, written, cut, stopVars, stopped>>
    BY TasksOK, SttAssumption DEF IInv, Conn, ConnTypes, Sent, InLock, stopVars
  <1>2. CASE Go("sender", "idle") /\ UNCHANGED <<ws, socks, ahead, buffer, lost>>
    <2>1. With("sender", "idle", None) /\ pc' = [pc EXCEPT !["sender"] = "idle"]
      BY <1>2 DEF Go, With
    <2>2. Conn' /\ SameFlushes
      BY <1>1, <1>2, <2>1, MoveOK
    <2>3. Frames'
      BY <1>1, <1>2, <2>1 DEF Frames, FrameTypes, Account, Known, None
    <2>4. Waiting'
      BY <1>1, <1>2, <2>2, WaitsOK DEF SameFlushes, Open
    <2> QED
      BY <2>2, <2>3, <2>4 DEF IInv
  <1>3. CASE Keep(hand) /\ Drop("sender")
    <2>1. Conn' /\ ws' = None /\ pc["sender"]' # "sending"
      BY <1>1, <1>3, DropOK
    <2>2. hand \in 1..MaxFrames /\ FrameTypes
      BY <1>1, SttAssumption DEF Frames, FrameTypes, Account, None
    <2>3. /\ buffer' \in Seq(1..MaxFrames) /\ Len(buffer') <= BufferMax /\ lost' \subseteq 1..MaxFrames
          /\ \A g : Known(g) => Known(g)'
      BY <1>1, <1>3, <2>2, KeepOK
    <2>4. Frames'
      BY <1>1, <2>1, <2>3 DEF Frames, FrameTypes, Account, None
    <2>5. Waiting'
      BY <2>1 DEF Waiting, Open
    <2> QED
      BY <2>1, <2>4, <2>5 DEF IInv
  <1> QED
    BY <1>2, <1>3 DEF Sent

LEMMA SendOK == ASSUME IInv, Send PROVE IInv'
  <1>0. PICK f : f = given + 1
    OBVIOUS
  <1>1. /\ Conn /\ Frames /\ Waiting /\ pc \in [Tasks -> Places] /\ "sender" \in Tasks /\ "sender" \notin InLock
        /\ pc["sender"] = "idle" /\ given' = f /\ UNCHANGED <<phase, tries, cut, stopVars, stopped>>
    BY <1>0, TasksOK DEF IInv, Conn, ConnTypes, Send, InLock, stopVars
  <1>2. /\ f \in 1..MaxFrames /\ f \in 0..MaxFrames /\ f # None /\ FrameTypes
        /\ \A g \in 1..f : g = f \/ g \in 1..given
    BY <1>0, <1>1, SttAssumption DEF Send, Frames, FrameTypes, None
  <1>3. CASE stopped /\ lost' = lost \cup {f} /\ UNCHANGED <<ws, socks, pc, sock, ahead, hand, buffer, written>>
    <2>1. Conn' /\ Waiting'
      BY <1>1, <1>3 DEF Conn, ConnTypes, LockOK, InLock, Wires, OneConnection, Open, Waiting, stopVars
    <2>2. Frames'
      BY <1>1, <1>2, <1>3 DEF Frames, FrameTypes, Account, Known
    <2> QED
      BY <2>1, <2>2 DEF IInv
  <1>4. CASE /\ Keep(f) /\ UNCHANGED <<hand, written>>
             /\ \/ ws = None /\ Queue("sender") /\ UNCHANGED <<ws, socks>>
                \/ Drop("sender")
    <2>1. Conn' /\ ws' = None /\ pc["sender"]' # "sending"
      <3>1. CASE ws = None /\ Queue("sender") /\ UNCHANGED <<ws, socks>>
        <4>1. pc["sender"]' # "sending"
          BY <1>1, <3>1 DEF Queue, Go, With
        <4> QED
          BY <1>1, <3>1, <4>1, JoinOK
      <3>2. CASE Drop("sender")
        BY <1>1, <3>2, DropOK
      <3> QED
        BY <1>4, <3>1, <3>2
    <2>2. /\ buffer' \in Seq(1..MaxFrames) /\ Len(buffer') <= BufferMax /\ lost' \subseteq 1..MaxFrames
          /\ Known(f)' /\ \A g : Known(g) => Known(g)'
      <3> HIDE DEF Known
      <3>1. FrameTypes /\ f \in 1..MaxFrames /\ Keep(f) /\ written' = written
        BY <1>2, <1>4
      <3> QED
        BY <3>1, KeepOK
    <2>3. Frames'
      BY <1>1, <1>2, <1>4, <2>1, <2>2 DEF Frames, FrameTypes, Account
    <2>4. Waiting'
      BY <2>1 DEF Waiting, Open
    <2> QED
      BY <2>1, <2>3, <2>4 DEF IInv
  <1>5. CASE /\ Open(ws) /\ written' = Append(written, [socket |-> ws, frame |-> f])
             /\ With("sender", "sending", ws) /\ hand' = f /\ UNCHANGED <<ws, socks, ahead, buffer, lost>>
    <2>1. ws \in Sockets /\ pc' = [pc EXCEPT !["sender"] = "sending"]
      BY <1>1, <1>5 DEF Conn, ConnTypes, Open, With
    <2>2. Conn' /\ SameFlushes
      BY <1>1, <1>5, <2>1, MoveOK
    <2>3. Waiting'
      BY <1>1, <1>5, <2>2, WaitsOK DEF SameFlushes, Open
    <2> DEFINE w == [socket |-> ws, frame |-> f]
    <2>4. w \in [socket : Sockets, frame : 1..MaxFrames] /\ w.frame = f
      BY <1>2, <2>1
    <2> HIDE DEF w
    <2>5. /\ written' \in Seq([socket : Sockets, frame : 1..MaxFrames]) /\ Len(written) \in Nat
          /\ DOMAIN written = 1..Len(written) /\ DOMAIN written' = 1..(Len(written) + 1)
          /\ \A i \in 1..Len(written) : written'[i] = written[i]
          /\ written'[Len(written) + 1] = w
      BY <1>2, <1>5, <2>4 DEF FrameTypes, w
    <2>6. Len(written) + 1 \in DOMAIN written' /\ \A i \in DOMAIN written : i \in DOMAIN written'
      BY <2>5
    <2>7. Known(f)' /\ \A g : Known(g) => Known(g)'
      BY <1>5, <2>4, <2>5, <2>6 DEF Known
    <2>8. Frames'
      BY <1>1, <1>2, <1>5, <2>5, <2>7 DEF Frames, FrameTypes, Account
    <2> QED
      BY <2>2, <2>3, <2>8 DEF IInv
  <1> QED
    BY <1>0, <1>1, <1>3, <1>4, <1>5 DEF Send

LEMMA NetworkOK == ASSUME IInv, Claim \/ Die PROVE IInv'
  <1>1. CASE Claim
    BY <1>1 DEF Claim, IInv, Conn, ConnTypes, LockOK, InLock, Wires, OneConnection, Open, Frames,
                FrameTypes, Account, Known, Waiting, taskVars, audioVars, stopVars
  <1>2. CASE Die
    <2>1. PICK s \in Sockets : socks[s] = "open" /\ socks' = [socks EXCEPT ![s] = "dead"]
      BY <1>2 DEF Die
    <2>2. UNCHANGED <<phase, ws, pc, sock, tries, ahead, hand, buffer, given, written, lost, cut,
                      stopped, stopping, closes, late>>
      BY <1>2 DEF Die, taskVars, audioVars, stopVars
    <2>3. /\ socks' \in [Sockets -> {"none", "open", "dead", "closed"}]
          /\ \A r \in Sockets : /\ socks'[r] = "open" => socks[r] = "open"
                                /\ socks'[r] = "none" => socks[r] = "none"
      BY <2>1 DEF IInv, Conn, ConnTypes
    <2>4. Conn'
      <3>1. LockOK'
        BY <2>2 DEF IInv, Conn, ConnTypes, LockOK, InLock
      <3>2. Wires' /\ OneConnection'
        BY <2>2, <2>3 DEF IInv, Conn, ConnTypes, Wires, OneConnection, Open
      <3> QED
        BY <2>2, <2>3, <3>1, <3>2 DEF IInv, Conn, ConnTypes
    <2>5. Frames'
      BY <2>2 DEF IInv, Frames, FrameTypes, Account, Known
    <2>6. Waiting'
      BY <2>2, <2>3 DEF IInv, Conn, ConnTypes, Waiting, Open
    <2> QED
      BY <2>4, <2>5, <2>6 DEF IInv
  <1> QED
    BY <1>1, <1>2

\* What a cancel leaves of the tasks.
LEMMA CancelledOK ==
  ASSUME Conn, NEW ts, Cancel(ts)
  PROVE  /\ pc' \in [Tasks -> Places] /\ sock' \in [Tasks -> Sockets \cup {None}] /\ LockOK'
         /\ \A t \in Tasks : \/ t \in ts /\ pc'[t] = "gone"
                             \/ t \notin ts /\ pc'[t] = pc[t] /\ sock'[t] = sock[t]
  <1>1. LockOK'
    BY CancelOK DEF Conn, ConnTypes
  <1>2. "gone" \in Places
    BY DEF Places
  <1> QED
    BY <1>1, <1>2 DEF Conn, ConnTypes, Cancel

LEMMA StopOK == ASSUME IInv, Stop \/ StopCloses \/ CancelSender PROVE IInv'
  <1>1. Conn /\ Frames /\ "sender" \in Tasks
    BY TasksOK DEF IInv
  <1>2. CASE Stop
    <2>1. /\ ~stopped /\ stopped' = TRUE /\ closes' = ws /\ closes' \in Sockets \cup {None}
          /\ late' = \E t \in Tasks \ {"health"} : pc[t] \in {"connecting", "flushing"}
          /\ late' \in BOOLEAN
          /\ UNCHANGED <<phase, socks, tries, hand, audioVars>>
      BY <1>1, <1>2 DEF Stop, Conn, ConnTypes
    <2>2. PICK ts : /\ Cancel(ts) /\ "health" \in ts
                    /\ \/ stopping' = "closing" /\ ws' = ws
                       \/ stopping' = "done" /\ ws' = None /\ ~Open(ws)
      BY <1>2 DEF Stop, Cancelled
    <2>3. /\ pc' \in [Tasks -> Places] /\ sock' \in [Tasks -> Sockets \cup {None}] /\ LockOK'
          /\ \A t \in Tasks : \/ t \in ts /\ pc'[t] = "gone"
                              \/ t \notin ts /\ pc'[t] = pc[t] /\ sock'[t] = sock[t]
      BY <1>1, <2>2, CancelledOK
    <2>4. \A t \in Tasks : pc'[t] \in {"connecting", "flushing"} => late'
      BY <2>1, <2>2, <2>3
    <2>5. Wires'
      BY <1>1, <2>1, <2>2, <2>3, <2>4 DEF Conn, ConnTypes, Wires, Open
    <2>6. OneConnection'
      BY <1>1, <2>1, <2>2 DEF Conn, ConnTypes, OneConnection, Open
    <2>7. Conn'
      BY <1>1, <2>1, <2>2, <2>3, <2>5, <2>6 DEF Conn, ConnTypes
    <2>8. Frames' /\ Waiting'
      BY <1>1, <2>1, <2>3, QuietOK DEF Waiting
    <2> QED
      BY <2>7, <2>8 DEF IInv
  <1>3. CASE StopCloses
    <2>1. /\ stopping = "closing" /\ stopping' = "done" /\ socks' = Closed(closes) /\ ws' = None
          /\ Cancel(Cancelled)
          /\ UNCHANGED <<phase, tries, hand, audioVars, stopped, closes, late>>
      BY <1>3 DEF StopCloses
    <2>2. /\ pc' \in [Tasks -> Places] /\ sock' \in [Tasks -> Sockets \cup {None}] /\ LockOK'
          /\ \A t \in Tasks : \/ t \in Cancelled /\ pc'[t] = "gone"
                              \/ t \notin Cancelled /\ pc'[t] = pc[t] /\ sock'[t] = sock[t]
      BY <1>1, <2>1, CancelledOK
    <2>3. /\ socks' \in [Sockets -> {"none", "open", "dead", "closed"}]
          /\ \A s \in Sockets : socks'[s] = "open" => socks[s] = "open" /\ s # closes
      BY <1>1, <2>1 DEF Conn, ConnTypes, Closed
    <2>4. Wires'
      BY <1>1, <2>1, <2>2 DEF Conn, ConnTypes, Wires, Open
    <2>5. stopped /\ (~late => ws \in {closes, None})
      BY <1>1, <2>1 DEF Conn, Wires
    <2>6. OneConnection'
      BY <1>1, <2>1, <2>3, <2>5 DEF Conn, OneConnection, Open
    <2>7. Conn'
      BY <1>1, <2>1, <2>2, <2>3, <2>4, <2>6 DEF Conn, ConnTypes, None
    <2>8. Frames' /\ Waiting'
      BY <1>1, <2>1, <2>2, QuietOK DEF Waiting, Open
    <2> QED
      BY <2>7, <2>8 DEF IInv
  <1>4. CASE CancelSender
    <2>1. /\ stopping = "done" /\ Cancel({"sender"}) /\ hand' = None /\ 0 \in 0..MaxFrames
          /\ UNCHANGED <<phase, ws, socks, tries, audioVars, stopVars>>
      BY <1>4, SttAssumption DEF CancelSender
    <2>2. /\ pc' \in [Tasks -> Places] /\ sock' \in [Tasks -> Sockets \cup {None}] /\ LockOK'
          /\ \A t \in Tasks : \/ t \in {"sender"} /\ pc'[t] = "gone"
                              \/ t \notin {"sender"} /\ pc'[t] = pc[t] /\ sock'[t] = sock[t]
      BY <1>1, <2>1, CancelledOK
    <2>3. UNCHANGED <<stopped, stopping, closes, late>> /\ stopped
      BY <1>1, <2>1 DEF Conn, Wires, stopVars
    <2>4. Wires' /\ OneConnection'
      BY <1>1, <2>1, <2>2, <2>3 DEF Conn, ConnTypes, Wires, OneConnection, Open
    <2>5. Conn'
      BY <1>1, <2>1, <2>2, <2>3, <2>4 DEF Conn, ConnTypes
    <2>6. Frames' /\ Waiting'
      BY <1>1, <2>1, <2>2, <2>3 DEF Frames, FrameTypes, Account, Known, Waiting, audioVars, None
    <2> QED
      BY <2>5, <2>6 DEF IInv
  <1> QED
    BY <1>2, <1>3, <1>4

-----------------------------------------------------------------------------
(* The invariant, and what follows from it.                                 *)

LEMMA StepOK == IInv /\ [Next]_vars => IInv'
  <1> SUFFICES ASSUME IInv, [Next]_vars PROVE IInv'
    OBVIOUS
  <1>1. CASE UNCHANGED vars
    <2>1. UNCHANGED <<phase, ws, socks, pc, sock, tries, ahead, hand, buffer, given, written, lost, cut,
                      stopped, stopping, closes, late>>
      BY <1>1 DEF vars, taskVars, audioVars, stopVars
    <2>2. Conn'
      BY <2>1 DEF IInv, Conn, ConnTypes, LockOK, InLock, Wires, OneConnection, Open
    <2>3. Frames' /\ Waiting'
      BY <2>1 DEF IInv, Frames, FrameTypes, Account, Known, Waiting, Open
    <2> QED
      BY <2>2, <2>3 DEF IInv
  <1>2. CASE Next
    BY <1>2, SendOK, SentOK, LoopsOK, NetworkOK, StopOK, ReconnectsOK DEF Next
  <1> QED
    BY <1>1, <1>2

LEMMA Always == Spec => []IInv
  BY InitOK, StepOK, PTL DEF Spec

\* The variables keep their types and the lock its order in every behaviour.
THEOREM TypesHold == Spec => []TypeOK
  <1>1. IInv => TypeOK
    BY DEF IInv, Conn, ConnTypes, Frames, FrameTypes, TypeOK, Places
  <1> QED
    BY <1>1, Always, PTL

\* One connection is open at most, whichever tasks find it lost and connect
\* again, and none after stop(), but for the straggler the statement names.
THEOREM OneConnectionHolds == Spec => []OneConnection
  <1>1. IInv => OneConnection
    BY DEF IInv, Conn
  <1> QED
    BY <1>1, Always, PTL

\* No frame is forgotten, and none is held back from a connection that is up.
THEOREM NoFrameForgottenHolds == Spec => []NoFrameForgotten
  <1>1. IInv => NoFrameForgotten
    <2>1. Account => \A f \in 1..given : \/ f \in lost \/ (\E i \in DOMAIN buffer : buffer[i] = f)
                                         \/ \E i \in DOMAIN written : written[i].frame = f
      BY DEF Account, Known
    <2>2. Waiting => (~stopped /\ Open(ws) /\ InLock = {} => buffer = <<>>)
      BY DEF Waiting, InLock
    <2> QED
      BY <2>1, <2>2 DEF IInv, Frames, NoFrameForgotten
  <1> QED
    BY <1>1, Always, PTL

(***************************************************************************)
(* FramesInOrder.  The frames that were written come before those that      *)
(* wait, and while some wait the sender loop can write none: it waits for   *)
(* the lock, first in its queue, or the frame that waits is its only one.   *)
(***************************************************************************)

\* Before a call there is no audio, and once it has begun no health check; only
\* that check closes a connection, for the others are told of its loss in time.
Callers ==
    /\ phase = "warm" => given = 0
    /\ phase = "call" => pc["health"] \in {"idle", "gone"}
    /\ ~stopped => \A t \in Tasks : pc[t] = "closing" => t = "health"
    /\ \A t \in Tasks : pc[t] = "pinging" => t = "health"

\* Whoever waits on a socket while the connection is up waits on that one.
Told ==
    ~stopped /\ Open(ws) =>
        \A t \in Tasks : pc[t] \in {"sending", "receiving"} => sock[t] = ws

\* Sockets are used in order, and a flush is to the newest.
Newest ==
    /\ \A r, s \in Sockets : r < s /\ socks[r] = "none" => socks[s] = "none"
    /\ \A t \in Tasks, s \in Sockets : pc[t] = "flushing" /\ sock[t] < s => socks[s] = "none"

\* Callers, with what the waiting tasks are told.
LEMMA CallersStep == ASSUME IInv, Callers, Told, [Next]_vars PROVE Callers'
  <1> USE TasksOK DEF IInv, Conn, ConnTypes, Callers
  <1>1. CASE Send
    <2>1. CASE ~stopped /\ Drop("sender") /\ ws # None /\ ~Open(ws)
      BY <1>1, <2>1 DEF Send, Drop, Queue, Go, With, stopVars
    <2>2. CASE UNCHANGED pc \/ Queue("sender") \/ With("sender", "sending", ws)
      BY <1>1, <2>2 DEF Send, Queue, Go, With, stopVars
    <2> QED BY <1>1, <2>1, <2>2 DEF Send
  <1>2. CASE Sent
    BY <1>2 DEF Sent, Drop, Queue, Go, With, stopVars, Told
  <1>3. CASE Receiver \/ KeepsAlive
    BY <1>3 DEF Receiver, KeepsAlive, Take, Returned, Drop, Queue, Go, With, stopVars, Told, audioVars
  <1>4. CASE HealthCheck
    BY <1>4 DEF HealthCheck, Take, Drop, Queue, Go, With, stopVars, audioVars
  <1>5. CASE Claim
    BY <1>5 DEF Claim, taskVars, audioVars, stopVars
  <1>6. CASE Die \/ UNCHANGED vars
    BY <1>6 DEF Die, vars, taskVars, audioVars, stopVars
  <1>7. CASE Stop
    BY <1>7 DEF Stop, Cancel, audioVars
  <1>8. CASE StopCloses \/ CancelSender
    BY <1>8 DEF StopCloses, CancelSender, Cancel, audioVars, stopVars, Wires
  <1>9. ASSUME NEW t \in Tasks, Reconnects(t) PROVE Callers'
    <2> USE DEF Queue, Go, With, Release, Retry, audioVars, stopVars
    <2>1. CASE CloseDone(t)
      BY <2>1 DEF CloseDone
    <2>2. CASE Locked(t)
      BY <2>2 DEF Locked
    <2>3. CASE ConnectFails(t)
      BY <2>3 DEF ConnectFails
    <2>4. CASE Connects(t)
      BY <2>4 DEF Connects, Flush
    <2>5. CASE FlushOn(t)
      BY <2>5 DEF FlushOn, Flush
    <2> QED BY <1>9, <2>1, <2>2, <2>3, <2>4, <2>5 DEF Reconnects
  <1> QED BY <1>1, <1>2, <1>3, <1>4, <1>5, <1>6, <1>7, <1>8, <1>9 DEF Next

\* Told: a connection is made only when nobody waits on a lost socket.
LEMMA ToldStep == ASSUME IInv, Told, [Next]_vars PROVE Told'
  <1> USE TasksOK DEF IInv, Conn, ConnTypes, Told, Open
  <1>1. CASE Send
    BY <1>1 DEF Send, Drop, Queue, Go, With, stopVars
  <1>2. CASE Sent
    BY <1>2 DEF Sent, Drop, Queue, Go, With, stopVars
  <1>3. CASE Receiver \/ KeepsAlive
    BY <1>3 DEF Receiver, KeepsAlive, Take, Returned, Drop, Queue, Go, With, stopVars
  <1>4. CASE HealthCheck
    BY <1>4 DEF HealthCheck, Take, Drop, Queue, Go, With, stopVars
  <1>5. CASE Claim \/ UNCHANGED vars
    BY <1>5 DEF Claim, taskVars, stopVars, vars
  <1>6. CASE Die
    BY <1>6 DEF Die, taskVars, stopVars
  <1>7. CASE Stop \/ StopCloses \/ CancelSender
    BY <1>7 DEF Stop, StopCloses, CancelSender, Cancel, stopVars, Wires
  <1>9. ASSUME NEW t \in Tasks, Reconnects(t) PROVE Told'
    <2> USE DEF Queue, Go, With, Release, Retry, stopVars
    <2>1. CASE CloseDone(t)
      BY <2>1 DEF CloseDone
    <2>2. CASE Locked(t)
      BY <2>2 DEF Locked
    <2>3. CASE ConnectFails(t)
      BY <2>3 DEF ConnectFails
    <2>4. CASE Connects(t)
      BY <2>4 DEF Connects, Flush, AllTold, OneConnection, Wires
    <2>5. CASE FlushOn(t)
      BY <2>5 DEF FlushOn, Flush
    <2> QED BY <1>9, <2>1, <2>2, <2>3, <2>4, <2>5 DEF Reconnects
  <1> QED BY <1>1, <1>2, <1>3, <1>4, <1>5, <1>6, <1>7, <1>9 DEF Next

\* What is written is written to a socket that was opened.
Used == \A i \in DOMAIN written : socks[written[i].socket] # "none"

\* A step that opens no socket and begins no flush.
LEMMA SameSockets ==
  ASSUME Newest, \A s \in Sockets : socks'[s] = "none" <=> socks[s] = "none",
         \A t \in Tasks : pc'[t] = "flushing" => pc[t] = "flushing" /\ sock'[t] = sock[t]
  PROVE  Newest'
  <1>1. \A r, s \in Sockets : r < s /\ socks'[r] = "none" => socks'[s] = "none"
    BY DEF Newest
  <1>2. \A t \in Tasks, s \in Sockets : pc'[t] = "flushing" /\ sock'[t] < s => socks'[s] = "none"
    BY DEF Newest
  <1> QED BY <1>1, <1>2 DEF Newest

\* A socket that was opened is not opened again.
NoneReopens ==
    \A s \in Sockets : socks[s] # "none" => socks'[s] # "none" /\ (Open(s)' => Open(s))

\* A socket that was opened stays so, and a flush begins on the newest.
LEMMA NewestStep ==
  ASSUME IInv, Newest, [Next]_vars
  PROVE  Newest' /\ NoneReopens
  <1> USE TasksOK DEF IInv, Conn, ConnTypes, Newest, Open, NoneReopens
  <1>1. CASE /\ \A s \in Sockets : /\ socks'[s] = "none" <=> socks[s] = "none"
                                   /\ socks'[s] = "open" => socks[s] = "open"
             /\ \A t \in Tasks : pc'[t] = "flushing" => pc[t] = "flushing" /\ sock'[t] = sock[t]
    BY <1>1, SameSockets
  <1>2. ASSUME NEW t \in Tasks, Drop(t), t \notin InLock PROVE Newest' /\ NoneReopens
    BY <1>1, <1>2 DEF Drop, Queue, Go, With, Closed
  <1>3. CASE Send
    <2>1. CASE Drop("sender")
      BY <1>2, <1>3, <2>1 DEF Send, InLock
    <2>2. CASE socks' = socks /\ (UNCHANGED <<pc, sock>> \/ Queue("sender") \/ With("sender", "sending", ws))
      BY <1>1, <2>2 DEF Queue, Go, With
    <2> QED BY <1>3, <2>1, <2>2 DEF Send
  <1>4. CASE Sent \/ Receiver \/ KeepsAlive \/ HealthCheck
    <2>1. CASE \E t \in Tasks : Drop(t) /\ t \notin InLock
      BY <1>2, <2>1
    <2>2. CASE /\ socks' = socks
               /\ \E t \in Tasks, s \in Sockets \cup {None},
                    where \in {"idle", "sending", "receiving", "pinging", "locking"} :
                    With(t, where, s)
      BY <1>1, <2>2 DEF With
    <2> QED BY <1>4, <2>1, <2>2 DEF Sent, Receiver, KeepsAlive, HealthCheck, Take, Returned,
               Queue, Go, InLock
  <1>5. CASE Claim \/ UNCHANGED vars
    BY <1>1, <1>5 DEF Claim, taskVars, audioVars, vars
  <1>6. CASE Die
    BY <1>1, <1>6 DEF Die, taskVars, audioVars
  <1>7. ASSUME NEW ts, Cancel(ts), socks' = socks \/ socks' = Closed(closes) PROVE Newest' /\ NoneReopens
    BY <1>1, <1>7 DEF Cancel, Closed
  <1>8. CASE Stop \/ StopCloses \/ CancelSender
    BY <1>7, <1>8 DEF Stop, StopCloses, CancelSender
  <1>9. ASSUME NEW t \in Tasks, Reconnects(t) PROVE Newest' /\ NoneReopens
    <2>1. CASE socks' = socks /\ \E where \in {"idle", "locking", "connecting"} : Go(t, where)
      BY <1>1, <2>1 DEF Go, With
    <2>2. CASE CloseDone(t) \/ Locked(t) \/ ConnectFails(t)
      BY <2>1, <2>2 DEF CloseDone, Queue, Locked, Release, ConnectFails, Retry
    <2>3. CASE Connects(t)
      <3>1. PICK s \in Sockets : /\ socks[s] = "none" /\ socks' = [socks EXCEPT ![s] = "open"]
                                 /\ \A r \in 1..(s - 1) : socks[r] # "none"
                                 /\ With(t, "flushing", s) \/ With(t, "idle", None)
        BY <2>3 DEF Connects, Flush, Release, Go
      <3>2. \A u \in Tasks : pc'[u] = "flushing" => u = t /\ sock'[u] = s
        BY <2>3, <3>1, OneHolder DEF Connects, With
      <3>3. \A r \in Sockets : (s < r => socks[r] = "none") /\ (r < s => socks[r] # "none")
        BY <3>1 DEF Sockets
      <3> QED BY <3>1, <3>2, <3>3 DEF Sockets
    <2>4. CASE FlushOn(t)
      BY <1>1, <2>1, <2>4 DEF FlushOn, Flush, Release, Retry, With
    <2> QED BY <1>9, <2>2, <2>3, <2>4 DEF Reconnects
  <1> QED BY <1>3, <1>4, <1>5, <1>6, <1>8, <1>9 DEF Next

\* A frame leaves for a socket.
LEMMA WriteOK ==
  ASSUME FrameTypes, NEW s \in Sockets, NEW f \in 1..MaxFrames,
         written' = Append(written, [socket |-> s, frame |-> f])
  PROVE  /\ DOMAIN written' = DOMAIN written \cup {Len(written) + 1}
         /\ Len(written) \in Nat
         /\ \A i \in DOMAIN written : i \in 1..Len(written) /\ written'[i] = written[i]
         /\ written'[Len(written) + 1].socket = s /\ written'[Len(written) + 1].frame = f
  <1> DEFINE w == [socket |-> s, frame |-> f]
  <1>1. w \in [socket : Sockets, frame : 1..MaxFrames] /\ w.socket = s /\ w.frame = f
    OBVIOUS
  <1> HIDE DEF w
  <1>2. written \in Seq([socket : Sockets, frame : 1..MaxFrames]) /\ written' = Append(written, w)
    BY DEF FrameTypes, w
  <1> QED BY <1>1, <1>2

\* What a sequence holds.
LEMMA ElementsOK == ASSUME NEW R, NEW q \in Seq(R) PROVE \A i \in DOMAIN q : q[i] \in R
  OBVIOUS

\* What was written, by its types.
LEMMA WrittenOK ==
  ASSUME FrameTypes
  PROVE  \A i \in DOMAIN written : /\ written[i].socket \in Sockets
                                   /\ written[i].frame \in 1..MaxFrames
  <1>1. \A i \in DOMAIN written : written[i] \in [socket : Sockets, frame : 1..MaxFrames]
    BY ElementsOK DEF FrameTypes
  <1> QED BY <1>1

\* The oldest frame leaves the buffer.
LEMMA TailOK ==
  ASSUME FrameTypes, buffer # <<>>, buffer' = Tail(buffer)
  PROVE  /\ 1 \in DOMAIN buffer /\ Head(buffer) = buffer[1] /\ Head(buffer) \in 1..MaxFrames
         /\ \A i \in DOMAIN buffer' : /\ i \in Nat /\ i > 0 /\ i + 1 \in DOMAIN buffer
                                      /\ buffer'[i] = buffer[i + 1]
         /\ Len(buffer') = Len(buffer) - 1
  BY SttAssumption DEF FrameTypes

\* A frame joins it, and may push the oldest out.
LEMMA KeptOK ==
  ASSUME FrameTypes, NEW f \in 1..MaxFrames, Keep(f)
  PROVE  \E d \in {0, 1}, n \in Nat :
           /\ DOMAIN buffer' = 1..n /\ n > 0 /\ n = Len(buffer') /\ buffer'[n] = f
           /\ \A i \in 1..(n - 1) : i + d \in DOMAIN buffer /\ buffer'[i] = buffer[i + d]
           /\ buffer = <<>> => n = 1
  <1>1. BufferMax \in Nat /\ BufferMax > 0 /\ buffer \in Seq(1..MaxFrames) /\ Len(buffer) \in Nat
    BY SttAssumption DEF FrameTypes
  <1>2. CASE Len(buffer) < BufferMax
    <2>1. buffer' = Append(buffer, f)
      BY <1>2 DEF Keep, Buffered
    <2>2. /\ DOMAIN buffer' = 1..(Len(buffer) + 1) /\ Len(buffer') = Len(buffer) + 1
          /\ buffer'[Len(buffer) + 1] = f /\ Len(buffer) + 1 \in Nat
          /\ \A i \in 1..Len(buffer) : i + 0 \in DOMAIN buffer /\ buffer'[i] = buffer[i + 0]
          /\ buffer = <<>> => Len(buffer) + 1 = 1
      BY <1>1, <2>1
    <2> QED BY <1>1, <2>2
  <1>3. CASE ~(Len(buffer) < BufferMax)
    <2> DEFINE tl == Tail(buffer)
    <2>1. buffer' = Append(tl, f) /\ buffer # <<>>
      BY <1>1, <1>3 DEF Keep, Buffered
    <2>2. tl \in Seq(1..MaxFrames) /\ Len(tl) = Len(buffer) - 1
          /\ \A i \in 1..Len(tl) : tl[i] = buffer[i + 1] /\ i + 1 \in DOMAIN buffer
      BY <1>1, <2>1
    <2> HIDE DEF tl
    <2>3. /\ DOMAIN buffer' = 1..Len(buffer) /\ Len(buffer') = Len(buffer)
          /\ buffer'[Len(buffer)] = f /\ Len(buffer) > 0
          /\ \A i \in 1..(Len(buffer) - 1) : buffer'[i] = tl[i]
      BY <1>1, <2>1, <2>2
    <2> QED BY <1>1, <2>1, <2>2, <2>3
  <1> QED BY <1>2, <1>3

-----------------------------------------------------------------------------
(* The order of the frames.                                                 *)

\* A frame that was written and waits again was written to a socket that is gone.
Before(w, f) == w.frame < f \/ (w.frame = f /\ ~Open(w.socket))

\* Until a flush is cut off: what waits is in order and comes after what was
\* written, and the frame that is being sent is the last one and waits for none.
BufferOrder ==
    \A j \in DOMAIN buffer :
        buffer[j] <= given /\ \A i \in DOMAIN buffer : i < j => buffer[i] < buffer[j]
WrittenOrder ==
    \A i \in DOMAIN written :
        written[i].frame <= given /\ \A j \in DOMAIN buffer : Before(written[i], buffer[j])
HandOrder ==
    pc["sender"] = "sending" =>
        /\ buffer = <<>> /\ hand = given
        /\ \A i \in DOMAIN written :
             written[i].frame = given => written[i].socket = sock["sender"]
Ordered == ~cut => FramesInOrder /\ BufferOrder /\ WrittenOrder /\ HandOrder

\* What waits, by its types.
LEMMA BufferTypes ==
  ASSUME FrameTypes
  PROVE  given \in Nat /\ \A j \in DOMAIN buffer : j \in Nat /\ buffer[j] \in 1..MaxFrames
  <1>1. buffer \in Seq(1..MaxFrames)
    BY DEF FrameTypes
  <1>2. \A j \in DOMAIN buffer : buffer[j] \in 1..MaxFrames
    BY <1>1, ElementsOK
  <1> QED BY <1>1, <1>2 DEF FrameTypes

\* Neither written to nor kept; the sender loop may let go.
LEMMA OrderKept ==
  ASSUME Ordered, FrameTypes, FrameTypes', NoneReopens, Used, cut => cut',
         UNCHANGED <<buffer, written>>, given <= given',
         pc'["sender"] = "sending" => /\ pc["sender"] = "sending" /\ sock'["sender"] = sock["sender"]
                                      /\ UNCHANGED <<hand, given>>
  PROVE  Ordered'
  <1> SUFFICES ASSUME ~cut, ~cut' PROVE Ordered'
    BY DEF Ordered
  <1>1. given \in Nat /\ given' \in Nat /\ \A j \in DOMAIN buffer : buffer[j] \in 1..MaxFrames
    BY BufferTypes DEF FrameTypes
  <1>2. FramesInOrder'
    BY DEF Ordered, FramesInOrder
  <1>3. BufferOrder'
    BY <1>1 DEF Ordered, BufferOrder
  <1>4. WrittenOrder'
    BY <1>1, WrittenOK DEF Ordered, WrittenOrder, Before, NoneReopens, Used
  <1>5. HandOrder'
    BY DEF Ordered, HandOrder
  <1> QED BY <1>2, <1>3, <1>4, <1>5 DEF Ordered

\* The oldest frame that waits is written to the newest socket.
LEMMA OrderFlushed ==
  ASSUME Ordered, FrameTypes, FrameTypes', NoneReopens, Used, UNCHANGED <<cut, given>>,
         NEW s \in Sockets, buffer # <<>>, buffer' = Tail(buffer),
         written' = Append(written, [socket |-> s, frame |-> Head(buffer)]),
         \A i \in DOMAIN written : ~Open(written[i].socket) => written[i].socket < s,
         pc'["sender"] # "sending"
  PROVE  Ordered'
  <1> SUFFICES ASSUME ~cut PROVE Ordered'
    BY DEF Ordered
  <1> DEFINE f == Head(buffer)
             n == Len(written) + 1
  <1>1. /\ f = buffer[1] /\ 1 \in DOMAIN buffer /\ f \in 1..MaxFrames
        /\ \A j \in DOMAIN buffer' : j \in Nat /\ j > 0 /\ j + 1 \in DOMAIN buffer
                                     /\ buffer'[j] = buffer[j + 1]
    BY TailOK
  <1>2. /\ DOMAIN written' = DOMAIN written \cup {n} /\ n \in Nat
        /\ \A i \in DOMAIN written : i \in Nat /\ i < n /\ written'[i] = written[i]
        /\ written'[n].socket = s /\ written'[n].frame = f
    BY <1>1, WriteOK
  <1>3. \A j \in DOMAIN buffer : buffer[j] \in 1..MaxFrames
    BY BufferTypes
  <1>4. given \in Nat /\ s \in Nat
    BY DEF FrameTypes, Sockets
  <1> HIDE DEF f, n
  <1>5. FramesInOrder'
    <2>1. ASSUME NEW i \in DOMAIN written
          PROVE  written[i].frame < f \/ (written[i].frame = f /\ written[i].socket < s)
      BY <1>1, <2>1 DEF Ordered, WrittenOrder, Before
    <2> QED BY <1>2, <2>1 DEF Ordered, FramesInOrder
  <1>6. BufferOrder'
    BY <1>1, <1>3, <1>4 DEF Ordered, BufferOrder
  <1>7. WrittenOrder'
    <2>1. \A j \in DOMAIN buffer' : f < buffer'[j]
      BY <1>1 DEF Ordered, BufferOrder
    <2>2. f <= given
      BY <1>1 DEF Ordered, BufferOrder
    <2>3. ASSUME NEW i \in DOMAIN written, NEW j \in DOMAIN buffer'
          PROVE  written[i].frame < buffer'[j]
      <3>1. written[i].frame \in Nat /\ written[i].frame <= f
        BY <1>1, <2>3, WrittenOK DEF Ordered, WrittenOrder, Before
      <3>2. buffer'[j] \in Nat
        BY <1>1, <1>3
      <3> QED BY <1>1, <2>1, <3>1, <3>2
    <2> QED BY <1>2, <1>4, <2>1, <2>2, <2>3 DEF Ordered, WrittenOrder, Before
  <1> QED BY <1>5, <1>6, <1>7 DEF Ordered, HandOrder

\* A frame is kept that is newer than those that wait, and was written, if at
\* all, to a socket that is gone.
LEMMA OrderJoined ==
  ASSUME Ordered, FrameTypes, FrameTypes', NoneReopens, Used,
         UNCHANGED <<cut, written>>, given <= given',
         NEW f \in 1..MaxFrames, Keep(f), f <= given',
         ~cut => /\ \A j \in DOMAIN buffer : buffer[j] < f
                 /\ \A i \in DOMAIN written : Before(written[i], f),
         pc'["sender"] # "sending"
  PROVE  Ordered'
  <1> SUFFICES ASSUME ~cut PROVE Ordered'
    BY DEF Ordered
  <1>1. PICK d \in {0, 1}, n \in Nat :
           /\ DOMAIN buffer' = 1..n /\ n > 0 /\ buffer'[n] = f
           /\ \A i \in 1..(n - 1) : i + d \in DOMAIN buffer /\ buffer'[i] = buffer[i + d]
    BY KeptOK
  <1>2. /\ \A j \in DOMAIN buffer : buffer[j] \in 1..MaxFrames /\ j \in Nat
        /\ given \in Nat /\ given' \in Nat
    BY BufferTypes DEF FrameTypes
  <1>3. FramesInOrder'
    BY DEF Ordered, FramesInOrder
  <1>4. ASSUME NEW j \in 1..n, j # n
        PROVE  j \in 1..(n - 1) /\ j + d \in DOMAIN buffer /\ buffer'[j] = buffer[j + d]
    BY <1>1, <1>4
  <1>5. BufferOrder'
    <2>1. ASSUME NEW j \in 1..n PROVE buffer'[j] <= given'
      BY <1>1, <1>2, <1>4, <2>1 DEF Ordered, BufferOrder
    <2>2. ASSUME NEW j \in 1..n, NEW i \in 1..n, i < j PROVE buffer'[i] < buffer'[j]
      <3>1. i # n /\ buffer'[i] < f
        BY <1>4, <2>2
      <3>2. CASE j # n
        BY <1>2, <1>4, <2>2, <3>1, <3>2 DEF Ordered, BufferOrder
      <3> QED BY <1>1, <3>1, <3>2
    <2> QED BY <1>1, <2>1, <2>2 DEF BufferOrder
  <1>6. WrittenOrder'
    <2>1. ASSUME NEW i \in DOMAIN written PROVE written[i].frame <= given'
      BY <1>2, <2>1, WrittenOK DEF Ordered, WrittenOrder
    <2>2. ASSUME NEW i \in DOMAIN written, NEW j \in 1..n PROVE Before(written[i], buffer'[j])
      BY <1>1, <1>4, <2>2 DEF Ordered, WrittenOrder
    <2>3. \A i \in DOMAIN written, j \in 1..n :
             \/ written[i].frame < buffer'[j]
             \/ written[i].frame = buffer'[j] /\ ~Open(written[i].socket)'
      BY <2>2, WrittenOK DEF Before, NoneReopens, Used
    <2> QED BY <1>1, <2>1, <2>3 DEF WrittenOrder, Before
  <1> QED BY <1>3, <1>5, <1>6 DEF Ordered, HandOrder

\* The next frame is written at once: nothing waits.
LEMMA OrderSent ==
  ASSUME Ordered, FrameTypes, FrameTypes', NoneReopens, Used,
         UNCHANGED <<cut, buffer>>, ~cut => buffer = <<>>,
         NEW s \in Sockets, given' = given + 1, hand' = given + 1,
         written' = Append(written, [socket |-> s, frame |-> given + 1]), sock'["sender"] = s
  PROVE  Ordered'
  <1> SUFFICES ASSUME ~cut PROVE Ordered'
    BY DEF Ordered
  <1> DEFINE n == Len(written) + 1
  <1>1. given \in Nat /\ given + 1 \in 1..MaxFrames
    BY DEF FrameTypes
  <1>2. /\ DOMAIN written' = DOMAIN written \cup {n} /\ n \in Nat
        /\ \A i \in DOMAIN written : i \in Nat /\ i < n /\ written'[i] = written[i]
        /\ written'[n].socket = s /\ written'[n].frame = given + 1
    BY <1>1, WriteOK
  <1>3. \A i \in DOMAIN written : written[i].frame \in Nat /\ written[i].frame < given + 1
    BY <1>1, WrittenOK DEF Ordered, WrittenOrder
  <1> HIDE DEF n
  <1>4. FramesInOrder'
    BY <1>2, <1>3 DEF Ordered, FramesInOrder
  <1>5. BufferOrder' /\ WrittenOrder' /\ HandOrder'
    BY <1>1, <1>2, <1>3 DEF BufferOrder, WrittenOrder, HandOrder
  <1> QED BY <1>4, <1>5 DEF Ordered

\* While frames wait for a connection, with no flush under way: there is none;
\* the sender loop waits for the lock or, if it gave up, at most one frame waits
\* or nobody can connect before it; and if more do, it is the last in the queue
\* and nobody else can join.
Held == ~cut /\ ~stopped /\ buffer # <<>>
Flushing == \E t \in Tasks : pc[t] = "flushing"
NoWaiter == \A t \in Tasks : pc[t] \notin {"sending", "receiving", "pinging", "closing"}
Behind ==
    Held =>
      /\ pc["sender"] \in {"idle", "locking", "connecting", "flushing"}
      /\ ~Flushing => ws = None
      /\ pc["sender"] = "idle" => ~Flushing /\ NoWaiter /\ (Len(buffer) = 1 \/ InLock = {})
      /\ pc["sender"] \in {"locking", "connecting"} /\ ~Flushing /\ Len(buffer) > 1 =>
           NoWaiter /\ \A u \in InLock : u = "sender" \/ u \in ahead["sender"]

\* What was cut off stays so.
LEMMA CutStays == ASSUME [Next]_vars, cut PROVE cut'
  <1> USE DEF audioVars
  <1>1. CASE \E t \in Tasks : Reconnects(t)
    BY <1>1 DEF Reconnects, CloseDone, Locked, ConnectFails, Connects, FlushOn, Flush
  <1> QED BY <1>1 DEF Next, vars, Send, Sent, Receiver, KeepsAlive, HealthCheck, Take, Returned, Claim,
             Die, Stop, StopCloses, CancelSender

\* The order: a frame is kept, sent at once, flushed or left alone.
LEMMA OrderedStep ==
  ASSUME IInv, Callers, Told, Newest, Used, Behind, Ordered, [Next]_vars
  PROVE  Ordered'
  <1> SUFFICES ASSUME ~cut, ~cut' PROVE Ordered'
    BY CutStays DEF Ordered
  <1>1. /\ FrameTypes /\ FrameTypes' /\ Conn /\ "sender" \in Tasks /\ pc \in [Tasks -> Places]
        /\ given \in Nat /\ sock \in [Tasks -> Sockets \cup {None}]
    BY StepOK, TasksOK, BufferTypes DEF IInv, Frames, Conn, ConnTypes
  <1>2. NoneReopens /\ Used
    BY NewestStep
  <1>3. CASE UNCHANGED <<buffer, written, given, hand>> /\ UNCHANGED <<pc["sender"], sock["sender"]>>
    BY <1>1, <1>2, <1>3, OrderKept
  <1>4. CASE UNCHANGED <<buffer, written, given>> /\ pc'["sender"] # "sending"
    BY <1>1, <1>2, <1>4, OrderKept
  <1>5. ASSUME NEW t \in Tasks, Reconnects(t) PROVE Ordered'
    <2>1. CASE UNCHANGED <<buffer, written, given>>
      <3>1. pc'["sender"] = "sending" => /\ pc["sender"] = "sending" /\ sock'["sender"] = sock["sender"]
                                         /\ UNCHANGED <<hand, given>>
        BY <1>1, <1>5, <2>1 DEF Reconnects, CloseDone, Locked, Connects, ConnectFails, FlushOn, Flush,
           Queue, Release, Retry, Go, With
      <3> QED BY <1>1, <1>2, <2>1, <3>1, OrderKept
    <2>2. ASSUME NEW s \in Sockets, buffer # <<>>, buffer' = Tail(buffer), given' = given,
                 With(t, "flushing", s),
                 written' = Append(written, [socket |-> s, frame |-> Head(buffer)]), cut' = cut,
                 \/ socks[s] = "none"
                 \/ sock[t] = s /\ pc[t] = "flushing" /\ Open(s)
          PROVE  Ordered'
      <3>1. pc'["sender"] # "sending"
        BY <1>1, <2>2 DEF Ordered, HandOrder, With
      <3>2. \A i \in DOMAIN written : ~Open(written[i].socket) => written[i].socket < s
        <4> SUFFICES ASSUME NEW i \in DOMAIN written, ~Open(written[i].socket) PROVE written[i].socket < s
          OBVIOUS
        <4>1. written[i].socket \in Sockets /\ socks[written[i].socket] # "none"
          BY <1>1, WrittenOK DEF Used
        <4>2. written[i].socket # s
          BY <2>2, <4>1
        <4>3. ~(s < written[i].socket)
          BY <2>2, <4>1 DEF Newest
        <4> QED BY <4>1, <4>2, <4>3, SttAssumption DEF Sockets
      <3> QED BY <1>1, <1>2, <2>2, <3>1, <3>2, OrderFlushed
    <2>3. CASE Connects(t) /\ buffer # <<>>
      BY <2>2, <2>3 DEF Connects, Flush
    <2>4. CASE FlushOn(t) /\ buffer # <<>> /\ UNCHANGED cut
      <3>1. sock[t] \in Sockets
        BY <1>1, <2>4 DEF FlushOn, Conn, Wires
      <3>2. /\ socks[sock[t]] = "open" /\ buffer' = Tail(buffer) /\ given' = given
            /\ written' = Append(written, [socket |-> sock[t], frame |-> Head(buffer)])
            /\ With(t, "flushing", sock[t]) /\ pc[t] = "flushing"
        BY <2>4 DEF FlushOn, Flush
      <3>3. Open(sock[t]) /\ cut' = cut
        BY <2>4, <3>1, <3>2, SttAssumption DEF Open, None, Sockets
      <3> QED BY <2>2, <2>4, <3>1, <3>2, <3>3
    <2> QED BY <1>5, <2>1, <2>3, <2>4 DEF Reconnects, CloseDone, Locked, ConnectFails, Connects,
               FlushOn, Flush, audioVars
  <1>6. CASE Send
    <2>0. pc["sender"] = "idle" /\ given' = given + 1 /\ given + 1 \in 1..MaxFrames /\ UNCHANGED cut
      BY <1>1, <1>6 DEF Send, FrameTypes
    <2>1. CASE UNCHANGED <<buffer, written, pc>>
      BY <1>1, <1>2, <2>0, <2>1, OrderKept
    <2>2. CASE Keep(given + 1) /\ written' = written /\ (Queue("sender") \/ Drop("sender"))
      <3>1. pc'["sender"] # "sending"
        BY <1>1, <2>2 DEF Queue, Drop, Go, With
      <3>2. /\ \A j \in DOMAIN buffer : buffer[j] < given + 1
            /\ \A i \in DOMAIN written : Before(written[i], given + 1)
        BY <1>1, BufferTypes, WrittenOK DEF Ordered, BufferOrder, WrittenOrder, Before
      <3> QED BY <1>1, <1>2, <2>0, <2>2, <3>1, <3>2, OrderJoined
    <2>3. CASE /\ ~stopped /\ Open(ws) /\ hand' = given + 1
               /\ written' = Append(written, [socket |-> ws, frame |-> given + 1])
               /\ With("sender", "sending", ws) /\ UNCHANGED <<ws, socks, ahead, buffer, lost>>
      <3>1. ws \in Sockets /\ sock'["sender"] = ws
        BY <1>1, <2>3 DEF Conn, ConnTypes, Open, With
      <3>2. buffer = <<>>
        BY <2>0, <2>3 DEF Behind, Held, Open
      <3> QED BY <1>1, <1>2, <2>0, <2>3, <3>1, <3>2, OrderSent
    <2> QED BY <1>6, <2>1, <2>2, <2>3 DEF Send
  <1>7. CASE Sent
    <2>0. /\ pc["sender"] = "sending" /\ hand # None /\ hand = given /\ buffer = <<>>
          /\ UNCHANGED <<written, given, cut>>
      BY <1>7 DEF Sent, Ordered, HandOrder, IInv, Frames, Account
    <2>1. CASE Go("sender", "idle") /\ UNCHANGED buffer
      BY <1>1, <1>4, <2>0, <2>1 DEF Go, With
    <2>2. CASE ~Open(sock["sender"]) /\ Keep(hand) /\ Drop("sender")
      <3>1. hand \in 1..MaxFrames
        BY <1>1, <2>0 DEF FrameTypes, None
      <3>2. pc'["sender"] # "sending"
        BY <1>1, <2>2 DEF Queue, Drop, Go, With
      <3>3. \A i \in DOMAIN written : Before(written[i], hand)
        BY <1>1, <2>0, <2>2, WrittenOK DEF Ordered, WrittenOrder, HandOrder, Before
      <3>4. \A j \in DOMAIN buffer : buffer[j] < hand
        BY <2>0
      <3> QED BY <1>1, <1>2, <2>0, <2>2, <3>1, <3>2, <3>3, <3>4, OrderJoined
    <2> QED BY <1>7, <2>1, <2>2 DEF Sent
  <1>8. CASE Receiver \/ KeepsAlive \/ HealthCheck
    BY <1>1, <1>3, <1>8, TasksOK DEF Receiver, KeepsAlive, HealthCheck, Take, Returned, Drop,
       Queue, Go, With, audioVars
  <1>9. CASE Claim \/ Die \/ UNCHANGED vars
    BY <1>1, <1>3, <1>9, TasksOK DEF Claim, Die, vars, taskVars, audioVars
  <1>10. CASE Stop \/ StopCloses
    BY <1>1, <1>3, <1>4, <1>10, TasksOK, ZenonT(60) DEF Stop, StopCloses, Cancel, Cancelled, Owned, audioVars
  <1>11. CASE CancelSender
    BY <1>1, <1>4, <1>11 DEF CancelSender, Cancel, audioVars
  <1> QED BY <1>5, <1>6, <1>7, <1>8, <1>9, <1>10, <1>11 DEF Next

\* The oldest frame that waits.
LEMMA HeadOK == ASSUME FrameTypes, buffer # <<>> PROVE Head(buffer) \in 1..MaxFrames
  <1>1. buffer \in Seq(1..MaxFrames)
    BY DEF FrameTypes
  <1>2. 1 \in DOMAIN buffer /\ Head(buffer) = buffer[1]
    BY <1>1
  <1> QED BY <1>2, BufferTypes

\* Every step writes to sockets that were opened.
LEMMA UsedStep == ASSUME IInv, Newest, Used, [Next]_vars PROVE Used'
  <1>1. FrameTypes /\ Conn /\ NoneReopens
    BY NewestStep DEF IInv, Frames
  <1>2. CASE written' = written
    BY <1>1, <1>2, WrittenOK DEF Used, NoneReopens
  <1>3. ASSUME NEW s \in Sockets, NEW f \in 1..MaxFrames, socks'[s] # "none",
               written' = Append(written, [socket |-> s, frame |-> f])
        PROVE  Used'
    BY <1>1, <1>3, WrittenOK, WriteOK DEF Used, NoneReopens
  <1>4. ASSUME NEW t \in Tasks, Reconnects(t) PROVE Used'
    <2>1. CASE buffer = <<>>
      BY <1>2, <1>4, <2>1 DEF Reconnects, CloseDone, Locked, ConnectFails, Connects, FlushOn,
         Flush, audioVars
    <2>2. CASE buffer # <<>> /\ Connects(t)
      <3>1. PICK s \in Sockets : /\ socks' = [socks EXCEPT ![s] = "open"]
                                 /\ written' = Append(written, [socket |-> s, frame |-> Head(buffer)])
        BY <2>2 DEF Connects, Flush
      <3>2. Head(buffer) \in 1..MaxFrames
        BY <1>1, <2>2, HeadOK
      <3>3. socks'[s] # "none"
        BY <1>1, <3>1 DEF Conn, ConnTypes
      <3> QED BY <1>3, <3>1, <3>2, <3>3
    <2>3. CASE buffer # <<>> /\ FlushOn(t)
      <3>1. /\ sock[t] \in Sockets /\ Head(buffer) \in 1..MaxFrames /\ socks' = socks
            /\ \/ written' = written
               \/ /\ socks[sock[t]] # "none"
                  /\ written' = Append(written, [socket |-> sock[t], frame |-> Head(buffer)])
        BY <1>1, <2>3, HeadOK DEF FlushOn, Flush, Conn, ConnTypes, Wires
      <3> QED BY <1>2, <1>3, <3>1
    <2> QED BY <1>2, <1>4, <2>1, <2>2, <2>3 DEF Reconnects, CloseDone, Locked, ConnectFails, audioVars
  <1>5. CASE Send
    <2>1. CASE written' = written
      BY <1>2, <2>1
    <2>2. CASE Open(ws) /\ socks' = socks /\ written' = Append(written, [socket |-> ws, frame |-> given + 1])
      <3>1. given + 1 \in 1..MaxFrames
        BY <1>1, <1>5, BufferTypes, SttAssumption DEF Send
      <3>2. ws \in Sockets /\ socks'[ws] # "none"
        BY <1>1, <2>2 DEF Conn, ConnTypes, Open
      <3> QED BY <1>3, <2>2, <3>1, <3>2
    <2> QED BY <1>5, <2>1, <2>2 DEF Send
  <1> QED
    BY <1>2, <1>4, <1>5 DEF Next, vars, Sent, Receiver, KeepsAlive, HealthCheck, Take, Returned,
       Claim, Die, Stop, StopCloses, CancelSender, audioVars

\* stop() is called once.
LEMMA StopStays == ASSUME [Next]_vars, stopped PROVE stopped'
  <1> USE DEF stopVars
  <1>1. CASE \E t \in Tasks : Reconnects(t)
    BY <1>1 DEF Reconnects, CloseDone, Locked, ConnectFails, Connects, FlushOn
  <1> QED BY <1>1 DEF Next, vars, Send, Sent, Receiver, KeepsAlive, HealthCheck, Take, Returned, Claim,
             Die, Stop, StopCloses, CancelSender

\* The length of a sequence that is not empty,
LEMMA SomeOK == ASSUME NEW R, NEW q \in Seq(R), q # <<>> PROVE Len(q) = 1 \/ Len(q) > 1
  <1>1. Len(q) \in Nat \ {0}
    BY EmptySeq, Zenon
  <1>2. \A n \in Nat \ {0} : n = 1 \/ n > 1
    OBVIOUS
  <1> QED BY <1>1, <1>2, Zenon

\* and what follows its only element.
LEMMA OneOK == ASSUME NEW R, NEW q \in Seq(R), Len(q) = 1 PROVE Tail(q) = <<>>
  <1>1. q # <<>>
    BY EmptySeq
  <1>2. Tail(q) \in Seq(R) /\ Len(Tail(q)) = 0
    BY <1>1, HeadTailProperties
  <1> QED BY <1>2, EmptySeq

\* A task that takes the lock.
LEMMA BehindLocked ==
  ASSUME LockOK, pc \in [Tasks -> Places], Waiting, Behind, Held, Held', NEW t \in Tasks, Locked(t)
  PROVE  Behind'
  <1>1. /\ "sender" \in Tasks /\ UNCHANGED <<ws, buffer, socks>>
        /\ pc[t] = "locking" /\ t \in InLock /\ ahead[t] = {}
    BY TasksOK DEF Locked, audioVars, InLock
  <1>2. \A u \in Tasks : pc[u] = "flushing" => u \in InLock /\ ahead[u] = {}
    BY DEF LockOK, InLock
  <1>3. CASE Release(t)
    <2>1. NoNeed
      BY <1>1, <1>3 DEF Locked, Release, Go, With
    <2>2. PICK u \in Tasks : pc[u] = "flushing"
      BY <2>1 DEF NoNeed, Waiting, Held
    <2> QED BY <1>1, <1>2, <2>2 DEF LockOK
  <1>4. CASE Go(t, "connecting") /\ ahead' = ahead
    <2>1. pc' = [pc EXCEPT ![t] = "connecting"]
      BY <1>4 DEF Go, With
    <2>2. (Flushing' <=> Flushing) /\ (NoWaiter => NoWaiter') /\ InLock' = InLock
      BY <1>1, <2>1 DEF Flushing, NoWaiter, InLock
    <2>3. t = "sender" \/ pc'["sender"] = pc["sender"]
      BY <1>1, <2>1
    <2> QED BY <1>1, <1>4, <2>1, <2>2, <2>3 DEF Behind
  <1> QED BY <1>3, <1>4 DEF Locked

\* An attempt that fails.
LEMMA BehindFails ==
  ASSUME Conn, FrameTypes, Callers, phase = "call", Behind, Held, Held', NEW t \in Tasks,
         ConnectFails(t)
  PROVE  Behind'
  <1>1. /\ "sender" \in Tasks /\ UNCHANGED <<ws, buffer, socks>> /\ LockOK /\ pc \in [Tasks -> Places]
        /\ pc[t] = "connecting" /\ t \in InLock /\ ahead[t] = {}
    BY TasksOK DEF ConnectFails, audioVars, InLock, Conn, ConnTypes, LockOK
  <1>2. ~Flushing
    BY <1>1, OneHolder DEF Flushing
  <1>3. CASE Go(t, "connecting") /\ ahead' = ahead
    <2>1. pc' = pc
      BY <1>1, <1>3 DEF Go, With
    <2> QED BY <1>1, <1>3, <2>1 DEF Behind, Flushing, NoWaiter, InLock
  <1>4. CASE Release(t)
    <2>1. /\ pc' = [pc EXCEPT ![t] = "idle"] /\ pc' \in [Tasks -> Places]
          /\ \A u \in Tasks : ahead'[u] = ahead[u] \ {t}
      BY <1>1, <1>4 DEF Release, Go, With, Places
    <2>2. ~Flushing' /\ (NoWaiter => NoWaiter') /\ InLock' = InLock \ {t}
      BY <1>1, <1>2, <2>1 DEF Flushing, NoWaiter, InLock
    <2>3. CASE t # "sender"
      BY <1>1, <1>2, <2>1, <2>2, <2>3 DEF Behind
    <2>4. CASE t = "sender"
      <3>1. ws = None
        BY <1>2 DEF Behind
      <3>2. \A u \in Tasks : pc[u] \notin {"sending", "receiving"}
        BY <3>1 DEF ConnectFails, AllTold, OneConnection, Conn, Open, ConnTypes, Held
      <3>3. \A u \in Tasks : pc[u] = "closing" => u = "health"
        BY DEF Callers, Held
      <3>4. \A u \in Tasks : pc[u] = "pinging" => u = "health"
        BY DEF Callers
      <3>5. NoWaiter'
        BY <3>2, <3>3, <3>4, <2>2 DEF NoWaiter, Callers
      <3>6. Len(buffer) > 1 => InLock' = {}
        BY <1>1, <1>2, <2>2, <2>4 DEF Behind
      <3>7. Len(buffer) = 1 \/ Len(buffer) > 1
        BY SomeOK DEF Held, FrameTypes
      <3> QED BY <1>1, <2>1, <2>2, <2>4, <3>1, <3>5, <3>6, <3>7 DEF Behind
    <2> QED BY <2>3, <2>4
  <1> QED BY <1>3, <1>4 DEF ConnectFails, Retry

\* A connection is up: a task that finds frames flushes them.
LEMMA BehindConnects ==
  ASSUME Conn, FrameTypes, phase = "call", Behind, Held, Held', NEW t \in Tasks, Connects(t)
  PROVE  Behind'
  <1>1. /\ "sender" \in Tasks /\ LockOK /\ pc \in [Tasks -> Places]
        /\ pc[t] = "connecting" /\ t \in InLock /\ ahead[t] = {}
    BY TasksOK DEF Connects, InLock, Conn, ConnTypes, LockOK
  <1>2. pc' = [pc EXCEPT ![t] = "flushing"] /\ buffer' = Tail(buffer)
    BY DEF Connects, Flush, Held, With
  <1>3. t # "sender" => pc["sender"] # "idle"
    <2> SUFFICES ASSUME t # "sender", pc["sender"] = "idle" PROVE FALSE
      OBVIOUS
    <2>1. Len(buffer) = 1
      BY <1>1 DEF Behind
    <2>2. Tail(buffer) = <<>>
      BY <2>1, OneOK DEF FrameTypes
    <2> QED BY <1>2, <2>2 DEF Held
  <1> QED BY <1>1, <1>2, <1>3 DEF Behind, Flushing

\* A flush goes on.
LEMMA BehindFlushes ==
  ASSUME Conn, Behind, Held, Held', NEW t \in Tasks, FlushOn(t)
  PROVE  Behind'
  <1>1. /\ "sender" \in Tasks /\ pc \in [Tasks -> Places] /\ pc[t] = "flushing"
    BY TasksOK DEF FlushOn, Conn, ConnTypes
  <1>2. pc' = pc
    BY <1>1 DEF FlushOn, Flush, Held, With
  <1> QED BY <1>1, <1>2 DEF Behind, Flushing

\* A frame is kept; the sender loop joins those that wait for the lock, unless it
\* closes a connection first.
LEMMA BehindKeeps ==
  ASSUME Conn, Callers, FrameTypes, buffer # <<>> => Behind /\ Held, ~stopped, phase = "call",
         pc["sender"] \in {"idle", "sending"}, pc["sender"] = "sending" => buffer = <<>>,
         NEW f \in 1..MaxFrames, Keep(f), Queue("sender"), ws' = None
  PROVE  Behind'
  <1>1. "sender" \in Tasks /\ pc \in [Tasks -> Places]
        /\ pc' = [pc EXCEPT !["sender"] = "locking"] /\ ahead' = [ahead EXCEPT !["sender"] = InLock]
        /\ ahead \in [Tasks -> SUBSET InLock]
    BY TasksOK DEF Queue, Go, With, Conn, ConnTypes, LockOK
  <1>2. CASE buffer = <<>>
    <2>1. Len(buffer') = 1
      BY <1>2, KeptOK
    <2> QED BY <1>1, <1>2, <2>1 DEF Behind
  <1>3. (Flushing' <=> Flushing) /\ InLock' = InLock \cup {"sender"}
    BY <1>1 DEF Flushing, InLock
  <1>4. CASE buffer # <<>>
    <2>1. ~Flushing => NoWaiter'
      BY <1>1, <1>4 DEF Behind, NoWaiter
    <2> QED BY <1>1, <1>3, <1>4, <2>1 DEF Behind
  <1> QED BY <1>2, <1>4

\* send_audio.
LEMMA BehindSend ==
  ASSUME Conn, Callers, FrameTypes, buffer # <<>> => Behind /\ Held, Held', Send
  PROVE  Behind'
  <1>1. /\ "sender" \in Tasks /\ pc["sender"] = "idle" /\ phase = "call" /\ given + 1 \in 1..MaxFrames
    BY TasksOK, BufferTypes, SttAssumption DEF Send
  <1>2. ~stopped
    BY DEF Send, Held, stopVars
  <1>3. CASE ws = None
    <2>1. Keep(given + 1) /\ Queue("sender") /\ ws' = None
      BY <1>2, <1>3 DEF Send, Open
    <2> QED BY <1>1, <1>2, <2>1, BehindKeeps
  <1>4. CASE ws # None
    <2>1. buffer = <<>>
      BY <1>1, <1>4 DEF Behind
    <2>2. ~Open(ws)
      BY <1>2, <1>4, <2>1 DEF Send, Held, Open
    <2>3. Keep(given + 1) /\ Queue("sender") /\ ws' = None
      BY <1>2, <1>4, <2>2 DEF Send, Drop
    <2> QED BY <1>1, <1>2, <2>3, BehindKeeps
  <1> QED BY <1>3, <1>4

\* A send that fails.
LEMMA BehindSent ==
  ASSUME Conn, Callers, Told, Frames, Ordered, ~cut, phase = "call", Held', Sent
  PROVE  Behind'
  <1>1. "sender" \in Tasks /\ pc["sender"] = "sending" /\ buffer = <<>> /\ ~stopped /\ hand \in 1..MaxFrames
    BY TasksOK DEF Sent, Ordered, HandOrder, Held, stopVars, Frames, FrameTypes, Account, None
  <1>2. ~Open(sock["sender"]) /\ Keep(hand) /\ Drop("sender")
    BY <1>1 DEF Sent, Held
  <1>3. ~Open(ws)
    BY <1>1, <1>2 DEF Told
  <1>4. Queue("sender") /\ ws' = None
    BY <1>2, <1>3 DEF Drop
  <1> QED BY <1>1, <1>2, <1>4, BehindKeeps DEF Frames

\* The loops.
LEMMA BehindLoops ==
  ASSUME Conn, Behind, Held, Held', Receiver \/ KeepsAlive
  PROVE  Behind'
  <1>1. /\ "sender" \in Tasks /\ "receiver" \in Tasks /\ (KeepAlive => "keepalive" \in Tasks)
        /\ pc \in [Tasks -> Places] /\ LockOK /\ buffer' = buffer
    BY TasksOK DEF Conn, ConnTypes, Receiver, KeepsAlive, Take, Returned, audioVars
  <1>2. PICK t \in Tasks, where \in {"sending", "receiving"} :
             t # "sender" /\ (Take(t, where) \/ Returned(t, where))
    BY <1>1 DEF Receiver, KeepsAlive
  <1>3. CASE Take(t, where)
    <2>1. ws # None /\ pc[t] = "idle" /\ pc' = [pc EXCEPT ![t] = where]
      BY <1>3 DEF Take, With
    <2>2. Flushing
      BY <2>1 DEF Behind
    <2>3. Flushing' /\ pc'["sender"] = pc["sender"]
      BY <1>1, <1>2, <2>1, <2>2 DEF Flushing
    <2>4. pc["sender"] # "idle"
      BY <2>2 DEF Behind
    <2> QED BY <1>1, <2>3, <2>4 DEF Behind
  <1>4. CASE Returned(t, where)
    <2>1. ~NoWaiter /\ pc[t] = where
      BY <1>2, <1>4 DEF NoWaiter, Returned
    <2>2. pc["sender"] # "idle"
      BY <2>1 DEF Behind
    <2>3. /\ ws' = ws \/ ws' = None
          /\ \E w \in {"idle", "closing", "locking"} : pc' = [pc EXCEPT ![t] = w]
      BY <1>4 DEF Returned, Drop, Queue, Go, With
    <2>4. (Flushing' <=> Flushing) /\ pc'["sender"] = pc["sender"]
      BY <1>1, <1>2, <2>1, <2>3 DEF Flushing
    <2> QED BY <1>1, <2>1, <2>2, <2>3, <2>4 DEF Behind
  <1> QED BY <1>2, <1>3, <1>4
\* The sender loop waits while frames do.
LEMMA BehindStep ==
  ASSUME IInv, Callers, Told, Newest, Used, Behind, Ordered, [Next]_vars
  PROVE  Behind'
  <1> SUFFICES ASSUME Held' PROVE Behind'
    BY DEF Behind
  <1>1. /\ FrameTypes /\ FrameTypes' /\ Conn /\ "sender" \in Tasks /\ pc \in [Tasks -> Places] /\ LockOK
        /\ ~cut /\ ~cut' /\ ~stopped /\ ~stopped' /\ buffer' # <<>> /\ Waiting
        /\ phase \in {"warm", "call"}
    BY StepOK, TasksOK, CutStays, StopStays DEF IInv, Frames, Conn, ConnTypes, Held
  <1>2. phase = "warm" => buffer = <<>>
    <2>1. given = 0 => buffer = <<>>
      <3> SUFFICES ASSUME given = 0, buffer # <<>> PROVE FALSE
        OBVIOUS
      <3>1. 1 \in DOMAIN buffer
        BY <1>1 DEF FrameTypes
      <3> QED BY <1>1, <3>1, BufferTypes DEF Ordered, BufferOrder
    <2> QED BY <2>1 DEF Callers
  <1>3. buffer # <<>> => Held
    BY <1>1 DEF Held
  <1>4. ASSUME NEW t \in Tasks, Reconnects(t) PROVE Behind'
    <2>1. buffer # <<>> /\ Held /\ phase = "call"
      BY <1>1, <1>2, <1>3, <1>4 DEF Reconnects, CloseDone, Locked, ConnectFails, Connects, FlushOn,
         Flush, audioVars
    <2>2. CASE CloseDone(t)
      <3>1. pc[t] = "closing"
        BY <2>2 DEF CloseDone
      <3> QED BY <1>1, <1>2, <2>1, <3>1 DEF Callers, Conn, ConnTypes
    <2>3. CASE Locked(t)
      BY <1>1, <2>1, <2>3, BehindLocked
    <2>4. CASE ConnectFails(t)
      BY <1>1, <1>2, <2>1, <2>4, BehindFails
    <2>5. CASE Connects(t)
      BY <1>1, <1>2, <2>1, <2>5, BehindConnects
    <2>6. CASE FlushOn(t)
      BY <1>1, <2>1, <2>6, BehindFlushes
    <2> QED BY <1>4, <2>2, <2>3, <2>4, <2>5, <2>6 DEF Reconnects
  <1>5. CASE Send
    BY <1>1, <1>3, <1>5, BehindSend
  <1>6. CASE Sent
    <2>1. phase = "call"
      BY <1>1, <1>6 DEF Sent, Callers, Ordered, HandOrder, IInv, Frames, Account, None
    <2> QED BY <1>1, <1>6, <2>1, BehindSent DEF IInv
  <1>7. CASE Receiver \/ KeepsAlive
    <2>1. buffer' = buffer
      BY <1>7 DEF Receiver, KeepsAlive, Take, Returned, audioVars
    <2> QED BY <1>1, <1>3, <1>7, <2>1, BehindLoops
  <1>8. CASE HealthCheck \/ Claim
    BY <1>1, <1>2, <1>8 DEF HealthCheck, Take, Claim, audioVars
  <1>9. CASE Die \/ UNCHANGED vars
    BY <1>1, <1>3, <1>9 DEF Die, vars, taskVars, audioVars, Behind, Flushing, NoWaiter, InLock
  <1>10. CASE Stop \/ StopCloses \/ CancelSender
    BY <1>1, <1>10 DEF Stop, StopCloses, CancelSender, Conn, Wires
  <1> QED BY <1>4, <1>5, <1>6, <1>7, <1>8, <1>9, <1>10 DEF Next


(***************************************************************************)
(* The order, from Init on.                                                 *)
(***************************************************************************)
OrderIInv == IInv /\ Callers /\ Told /\ Newest /\ Used /\ Behind /\ Ordered

\* Nothing was given yet.
LEMMA OrderInitOK == Init => OrderIInv
  <1> SUFFICES ASSUME Init PROVE OrderIInv
    OBVIOUS
  <1>1. IInv
    BY InitOK
  <1>2. Callers /\ Told /\ Newest
    BY TasksOK, SttAssumption DEF Init, Callers, Told, Newest, Sockets
  <1>3. Used /\ Behind /\ Ordered
    BY TasksOK DEF Init, Used, Behind, Held, Ordered, FramesInOrder, BufferOrder, WrittenOrder, HandOrder
  <1> QED BY <1>1, <1>2, <1>3 DEF OrderIInv

\* All the parts together.
LEMMA OrderStepOK == OrderIInv /\ [Next]_vars => OrderIInv'
  BY StepOK, CallersStep, ToldStep, NewestStep, UsedStep, BehindStep, OrderedStep DEF OrderIInv

\* The recogniser hears the frames in the order they were spoken, each once per
\* connection, whichever task reconnects, until a flush is cut off.
THEOREM FramesInOrderHolds == Spec => []FramesInOrder
  <1>1. OrderIInv => FramesInOrder
    BY DEF OrderIInv, Ordered, FramesInOrder
  <1> QED BY OrderInitOK, OrderStepOK, <1>1, PTL DEF Spec
=============================================================================
