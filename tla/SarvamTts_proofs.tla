--------------------------- MODULE SarvamTts_proofs ---------------------------
(***************************************************************************)
(* Proofs about SarvamTts, for every value of its constants.                *)
(***************************************************************************)
EXTENDS SarvamTts, Integers, TLAPS

(***************************************************************************)
(* The inductive invariant.                                                 *)
(***************************************************************************)

\* A synthesis under way is of a sentence; the stop that has begun is known.
UnderWay ==
    /\ pc \notin {"idle", "failed", "gone"} => cur \in Reqs
    /\ stopping # "no" => stopped

\* The synthesis is on the current socket, unless another task has dropped it; while
\* it connects there is none, and after the stop it is late.
Current ==
    /\ pc \in {"connecting", "configuring"} => ws = None /\ (stopping = "done" => late)
    /\ pc \in {"sending", "receiving"} => ws \in {sock, None}
    /\ pc = "leaving" => ws \in broken \cup {None}

Empty(s) == work[s] = <<>> /\ pipe[s] = <<>>

\* Nothing is on a socket not yet made, nor on the one a request is about to be
\* written to.
Fresh ==
    /\ \A s \in Sockets : socks[s] = "none" => Empty(s) /\ s # ws /\ s # sock /\ s \notin broken
    /\ pc \in {"configuring", "sending"} /\ sock \notin broken => Empty(sock)

\* What is on the socket a synthesis reads answers its request, and nothing
\* follows what ends it.
Answering ==
    pc = "receiving" /\ sock \notin broken =>
        /\ Len(work[sock]) <= 1 /\ \A i \in DOMAIN work[sock] : work[sock][i].req = cur
        /\ \A i \in DOMAIN pipe[sock] : pipe[sock][i].of = cur
        /\ \A i \in DOMAIN pipe[sock] :
             pipe[sock][i].kind # "audio" => i = Len(pipe[sock]) /\ work[sock] = <<>>

IInv == TypeOK /\ UnderWay /\ Current /\ Fresh /\ Answering /\ OwnAudio /\ OneConnection

-----------------------------------------------------------------------------
LEMMA Basics ==
  /\ \A r \in Reqs : Message(r) \in Messages
  /\ None \notin Sockets /\ MaxReqs \in Nat /\ Chunks \in Nat /\ 1 \in Sockets
  BY TtsAssumption DEF Messages, Reqs, Sockets, None

LEMMA Element == ASSUME NEW S, NEW q \in Seq(S), NEW i \in DOMAIN q PROVE q[i] \in S
  OBVIOUS

Works == Seq([req : Reqs, left : 0..Chunks])
Pipes == Seq([kind : {"audio", "final", "error"}, of : Reqs])

LEMMA InitOK == Init => IInv
  <1> SUFFICES ASSUME Init PROVE IInv
    OBVIOUS
  <1> USE Basics
  <1>1. /\ work \in [Sockets -> Works] /\ pipe \in [Sockets -> Pipes]
        /\ \A s \in Sockets : Empty(s)
    BY DEF Init, Works, Pipes, Empty
  <1>2. /\ socks \in [Sockets -> {"none", "open", "dead", "closed"}] /\ cur \in 0..MaxReqs
        /\ \A s \in Sockets : socks[s] = IF s = 1 THEN "open" ELSE "none"
    BY DEF Init
  <1>3. TypeOK
    BY <1>1, <1>2 DEF Init, TypeOK, Works, Pipes
  <1>4. UnderWay /\ Current /\ Fresh /\ Answering
    BY <1>1, <1>2 DEF Init, UnderWay, Current, Fresh, Answering
  <1>5. OwnAudio /\ OneConnection
    BY <1>1, <1>2 DEF Init, OwnAudio, OneConnection, Empty, Open
  <1> QED
    BY <1>3, <1>4, <1>5 DEF IInv

-----------------------------------------------------------------------------
(* The service and the network.                                             *)

LEMMA AnswersOK == ASSUME IInv, NEW s \in Sockets, Answers(s) PROVE IInv'
  <1> USE Basics
  <1>1. /\ socks[s] = "open" /\ work[s] # <<>> /\ work \in [Sockets -> Works] /\ pipe \in [Sockets -> Pipes]
        /\ UNCHANGED <<ws, socks, synVars, linear, cancelled, invalid, ping, stopVars, voiced, broken>>
    BY DEF IInv, TypeOK, Answers, Open, Works, Pipes
  <1>0. work[s] \in Works /\ pipe[s] \in Pipes
    BY <1>1
  <1>2. /\ work[s] \in Works /\ pipe[s] \in Pipes /\ Len(work[s]) \in Nat /\ Len(work[s]) >= 1
        /\ Head(work[s]) = work[s][1] /\ work[s][1] \in [req : Reqs, left : 0..Chunks]
        /\ DOMAIN work[s] = 1..Len(work[s]) /\ 1 \in DOMAIN work[s]
        /\ DOMAIN pipe[s] = 1..Len(pipe[s]) /\ Len(pipe[s]) \in Nat
    <2>1. /\ Len(work[s]) \in Nat /\ Len(work[s]) >= 1 /\ DOMAIN work[s] = 1..Len(work[s])
          /\ Head(work[s]) = work[s][1]
      BY <1>0, <1>1 DEF Works
    <2>2. DOMAIN pipe[s] = 1..Len(pipe[s]) /\ Len(pipe[s]) \in Nat
      BY <1>0 DEF Pipes
    <2>3. 1 \in DOMAIN work[s]
      BY <2>1
    <2>4. work[s][1] \in [req : Reqs, left : 0..Chunks]
      BY <1>0, <2>3, Element DEF Works
    <2> QED
      BY <1>0, <2>1, <2>2, <2>3, <2>4
  <1>3. PICK kind \in {"audio", "final", "error"} :
          /\ Says(s, kind)
          /\ \/ /\ kind = "audio" /\ work[s][1].left > 0
                /\ work' = [work EXCEPT ![s] = <<OneLess(Head(@))>> \o Tail(@)]
             \/ kind # "audio" /\ work' = [work EXCEPT ![s] = Tail(@)]
    <2>1. CASE /\ Head(work[s]).left > 0 /\ Says(s, "audio")
               /\ work' = [work EXCEPT ![s] = <<OneLess(Head(@))>> \o Tail(@)]
      BY <1>2, <2>1
    <2>2. CASE Says(s, "final") /\ work' = [work EXCEPT ![s] = Tail(@)]
      BY <2>2
    <2>3. CASE Says(s, "error") /\ work' = [work EXCEPT ![s] = Tail(@)]
      BY <2>3
    <2> QED
      BY <2>1, <2>2, <2>3 DEF Answers
  <1> DEFINE p == [kind |-> kind, of |-> work[s][1].req]
  <1>4. p \in [kind : {"audio", "final", "error"}, of : Reqs] /\ p.kind = kind /\ p.of = work[s][1].req
    BY <1>2
  <1>5. pipe' = [pipe EXCEPT ![s] = Append(@, p)]
    BY <1>2, <1>3 DEF Says
  <1> HIDE DEF p
  <1>6. Append(pipe[s], p) \in Pipes /\ Len(Append(pipe[s], p)) = Len(pipe[s]) + 1
        /\ DOMAIN Append(pipe[s], p) = 1..(Len(pipe[s]) + 1)
        /\ \A i \in 1..Len(pipe[s]) : Append(pipe[s], p)[i] = pipe[s][i]
        /\ Append(pipe[s], p)[Len(pipe[s]) + 1] = p
    BY <1>2, <1>4 DEF Pipes
  <1>7. /\ pipe' \in [Sockets -> Pipes] /\ pipe'[s] = Append(pipe[s], p)
        /\ \A t \in Sockets \ {s} : pipe'[t] = pipe[t]
    BY <1>1, <1>5, <1>6
  <1>8. /\ work' \in [Sockets -> Works] /\ \A t \in Sockets \ {s} : work'[t] = work[t]
        /\ Len(work'[s]) <= Len(work[s]) /\ Len(work'[s]) \in Nat
        /\ DOMAIN work'[s] = 1..Len(work'[s])
        /\ kind = "audio" => Len(work'[s]) = Len(work[s]) /\ \A i \in DOMAIN work'[s] : work'[s][i].req = work[s][i].req
        /\ kind # "audio" => /\ Len(work'[s]) = Len(work[s]) - 1
                             /\ \A i \in DOMAIN work'[s] : i + 1 \in DOMAIN work[s] /\ work'[s][i] = work[s][i + 1]
    <2>1. CASE kind = "audio"
      <3> DEFINE w == OneLess(work[s][1])
      <3>0. work[s][1].left \in 0..Chunks /\ work[s][1].left - 1 \in 0..Chunks
        BY <1>2, <1>3, <2>1
      <3>1. w \in [req : Reqs, left : 0..Chunks] /\ w.req = work[s][1].req
        BY <1>2, <3>0 DEF OneLess
      <3>2. work' = [work EXCEPT ![s] = <<w>> \o Tail(@)]
        BY <1>2, <1>3, <2>1
      <3> HIDE DEF w
      <3>5. Tail(work[s]) \in Works /\ Len(Tail(work[s])) = Len(work[s]) - 1
            /\ \A i \in 1..(Len(work[s]) - 1) : Tail(work[s])[i] = work[s][i + 1]
        BY <1>1, <1>2 DEF Works
      <3>6. <<w>> \in Works /\ Len(<<w>>) = 1 /\ <<w>>[1] = w
        BY <3>1 DEF Works
      <3>3. <<w>> \o Tail(work[s]) \in Works /\ Len(<<w>> \o Tail(work[s])) = Len(work[s])
            /\ DOMAIN (<<w>> \o Tail(work[s])) = DOMAIN work[s]
            /\ \A i \in DOMAIN work[s] : (<<w>> \o Tail(work[s]))[i] = IF i = 1 THEN w ELSE work[s][i]
        BY <1>2, <3>1, <3>5, <3>6, SMTT(40) DEF Works
      <3>4. work'[s] = <<w>> \o Tail(work[s]) /\ work' \in [Sockets -> Works]
            /\ \A t \in Sockets \ {s} : work'[t] = work[t]
        BY <1>1, <3>2, <3>3
      <3> QED
        BY <1>2, <2>1, <3>1, <3>3, <3>4
    <2>2. CASE kind # "audio"
      <3>1. Tail(work[s]) \in Works /\ Len(Tail(work[s])) = Len(work[s]) - 1
            /\ DOMAIN Tail(work[s]) = 1..(Len(work[s]) - 1)
            /\ \A i \in 1..(Len(work[s]) - 1) : Tail(work[s])[i] = work[s][i + 1]
        BY <1>1, <1>2 DEF Works
      <3>2. work'[s] = Tail(work[s]) /\ work' \in [Sockets -> Works]
            /\ \A t \in Sockets \ {s} : work'[t] = work[t]
        BY <1>1, <1>3, <2>2, <3>1
      <3> QED
        BY <1>2, <2>2, <3>1, <3>2
    <2> QED
      BY <2>1, <2>2
  <1>9. TypeOK'
    BY <1>1, <1>7, <1>8, ZenonT(60) DEF IInv, TypeOK, Works, Pipes, synVars, stopVars
  <1>10. UnderWay' /\ Current' /\ OneConnection'
    BY <1>1 DEF IInv, UnderWay, Current, OneConnection, Open, synVars, stopVars
  <1>11. Fresh' /\ OwnAudio'
    BY <1>1, <1>7, <1>8 DEF IInv, TypeOK, Fresh, OwnAudio, Empty, synVars, stopVars
  <1>12. Answering'
    <2> SUFFICES ASSUME pc = "receiving", sock \notin broken, sock = s PROVE Answering'
      BY <1>1, <1>7, <1>8 DEF IInv, TypeOK, Answering, synVars
    <2>1. /\ Len(work[s]) = 1 /\ \A i \in DOMAIN work[s] : work[s][i].req = cur
          /\ \A i \in DOMAIN pipe[s] : pipe[s][i].of = cur /\ pipe[s][i].kind = "audio"
      BY <1>1, <1>2 DEF IInv, TypeOK, Answering
    <2>2. p.of = cur
      BY <1>2, <1>4, <2>1
    <2>3. \A i \in DOMAIN pipe'[s] : pipe'[s][i].of = cur /\ (pipe'[s][i].kind # "audio" => i = Len(pipe'[s]) /\ kind # "audio")
      BY <1>2, <1>4, <1>6, <1>7, <2>1, <2>2
    <2>4. Len(work'[s]) <= 1 /\ \A i \in DOMAIN work'[s] : work'[s][i].req = cur
      BY <1>2, <1>8, <2>1
    <2>5. kind # "audio" => work'[s] = <<>>
      BY <1>8, <2>1 DEF Works
    <2> QED
      BY <1>1, <2>3, <2>4, <2>5 DEF Answering, synVars
  <1> QED
    BY <1>9, <1>10, <1>11, <1>12 DEF IInv

LEMMA DieOK == ASSUME IInv, Die PROVE IInv'
  <1>1. socks' \in [Sockets -> {"none", "open", "dead", "closed"}]
        /\ \A s \in Sockets : socks'[s] = socks[s] \/ (socks[s] = "open" /\ socks'[s] = "dead")
    BY DEF IInv, TypeOK, Die
  <1>2. UNCHANGED <<ws, work, pipe, synVars, linear, cancelled, invalid, ping, stopVars, voiced, broken>>
    BY DEF Die
  <1>3. TypeOK'
    BY <1>1, <1>2, ZenonT(60) DEF IInv, TypeOK, synVars, stopVars
  <1> QED
    BY <1>1, <1>2, <1>3 DEF IInv, UnderWay, Current, Fresh, Answering, OwnAudio, OneConnection,
                            Empty, Open, synVars, stopVars
-----------------------------------------------------------------------------
(* The other tasks.                                                         *)

\* A connection is closed, and with it the current one, if any, given up.
LEMMA ClosedOK ==
  ASSUME TypeOK, NEW s \in Sockets
  PROVE  /\ Closed(s) \in [Sockets -> {"none", "open", "dead", "closed"}]
         /\ \A t \in Sockets : Closed(s)[t] = IF t = s /\ socks[t] = "open" THEN "closed" ELSE socks[t]
  BY DEF TypeOK, Closed

\* The current connection, if any, is closed: one that was open no longer is.
LEMMA DropOK ==
  ASSUME TypeOK, socks' = IF ws = None THEN socks ELSE Closed(ws)
  PROVE  /\ socks' \in [Sockets -> {"none", "open", "dead", "closed"}]
         /\ \A t \in Sockets : \/ socks'[t] = socks[t] /\ (t = ws => socks[t] # "open")
                               \/ t = ws /\ socks[t] = "open" /\ socks'[t] = "closed"
  <1>1. CASE ws = None
    BY <1>1, Basics DEF TypeOK
  <1>2. CASE ws # None
    BY <1>2, ClosedOK DEF TypeOK
  <1> QED
    BY <1>1, <1>2

LEMMA IdsOK == ASSUME IInv, Invalidate \/ Cancel PROVE IInv'
  <1>1. /\ UNCHANGED <<ws, socks, work, pipe, pc, next, cur, sock, first, linear, ping,
                       stopped, stopping, late, voiced, broken>>
        /\ cancelled' \subseteq invalid' /\ invalid' \subseteq Messages
    <2>1. CASE Invalidate
      <3>1. cur \in Reqs
        BY <2>1, Basics DEF IInv, TypeOK, Invalidate, Reqs
      <3> QED
        BY <2>1, <3>1, Basics DEF IInv, TypeOK, Invalidate, synVars, stopVars
    <2>2. CASE Cancel
      BY <2>2 DEF IInv, TypeOK, Cancel, synVars, stopVars
    <2> QED
      BY <2>1, <2>2
  <1>2. TypeOK'
    BY <1>1, ZenonT(60) DEF IInv, TypeOK
  <1>3. UnderWay' /\ Current' /\ OneConnection'
    BY <1>1 DEF IInv, UnderWay, Current, OneConnection, Open
  <1>4. Fresh' /\ Answering' /\ OwnAudio'
    BY <1>1 DEF IInv, Fresh, Answering, OwnAudio, Empty
  <1> QED
    BY <1>2, <1>3, <1>4 DEF IInv

LEMMA DropsOK == ASSUME IInv, KeepsAlive \/ StopCloses PROVE IInv'
  <1>1. UNCHANGED <<work, pipe, pc, next, cur, sock, first, linear, cancelled, invalid, stopped,
                    voiced, broken>> /\ ping' \in Sockets \cup {None}
    BY DEF IInv, TypeOK, KeepsAlive, StopCloses, synVars, stopVars
  <1>2. CASE ws' = ws /\ socks' = socks /\ KeepsAlive
    <2>1. stopping' = stopping /\ late' = late
      BY <1>2 DEF KeepsAlive, stopVars
    <2>2. TypeOK'
      BY <1>1, <1>2, <2>1, ZenonT(60) DEF IInv, TypeOK
    <2>3. UnderWay' /\ Current' /\ OneConnection'
      BY <1>1, <1>2, <2>1 DEF IInv, UnderWay, Current, OneConnection, Open
    <2>4. Fresh' /\ Answering' /\ OwnAudio'
      BY <1>1, <1>2 DEF IInv, Fresh, Answering, OwnAudio, Empty
    <2> QED
      BY <2>2, <2>3, <2>4 DEF IInv
  <1>3. CASE ws' = None /\ socks' = IF ws = None THEN socks ELSE Closed(ws)
    <2>1. /\ socks' \in [Sockets -> {"none", "open", "dead", "closed"}]
          /\ \A t \in Sockets : \/ socks'[t] = socks[t] /\ (t = ws => socks[t] # "open")
                                \/ t = ws /\ socks[t] = "open" /\ socks'[t] = "closed"
      BY <1>3, DropOK DEF IInv
    <2>2. /\ stopping' \in {"no", "cancelling", "done"} /\ late' \in BOOLEAN /\ (late => late')
          /\ (stopping' # "no" => stopped) /\ (stopping' = "done" /\ pc \in {"connecting", "configuring"} => late')
      <3>1. CASE KeepsAlive
        BY <3>1 DEF IInv, TypeOK, UnderWay, Current, KeepsAlive, stopVars
      <3>2. CASE StopCloses
        BY <3>2 DEF IInv, TypeOK, UnderWay, Current, StopCloses
      <3> QED
        BY <3>1, <3>2
    <2>3. TypeOK'
      BY <1>1, <1>3, <2>1, <2>2, Basics DEF IInv, TypeOK
    <2>4. UnderWay' /\ Current'
      BY <1>1, <1>3, <2>2 DEF IInv, UnderWay, Current
    <2>5. Fresh' /\ Answering' /\ OwnAudio'
      BY <1>1, <1>3, <2>1, Basics DEF IInv, Fresh, Answering, OwnAudio, Empty
    <2>6. OneConnection'
      BY <1>1, <1>3, <2>1, <2>2, Basics DEF IInv, OneConnection, Open
    <2> QED
      BY <2>3, <2>4, <2>5, <2>6 DEF IInv
  <1> QED
    BY <1>2, <1>3 DEF KeepsAlive, StopCloses

LEMMA StopOK == ASSUME IInv, Stop PROVE IInv'
  BY ZenonT(60) DEF IInv, TypeOK, UnderWay, Current, Fresh, Answering, OwnAudio, OneConnection, Empty, Open,
         Stop, synVars

-----------------------------------------------------------------------------
(* The ends of a synthesis.                                                 *)

\* The loop is over, or between two sentences, with its connections as they were.
LEMMA EndsOK ==
  ASSUME IInv, sock' = None, pc' \in {"idle", "failed", "gone"},
         cancelled' \subseteq cancelled, ws' \in {ws, None},
         pc' = "idle" /\ ~stopped /\ ws' # None /\ ws' \notin broken =>
            work'[ws'] = <<>> /\ pipe'[ws'] = <<>>,
         pc = "configuring" => ~Open(sock) \/ (stopping = "done" /\ socks' = socks),
         UNCHANGED <<next, cur, linear, invalid, ping, stopVars, broken>>, first' \in BOOLEAN,
         voiced' \subseteq [req : Reqs, of : Reqs, on : Sockets],
         \A v \in voiced' : v.req = v.of \/ v.on \in broken,
         work' \in [Sockets -> Works], pipe' \in [Sockets -> Pipes],
         \A s \in Sockets : socks[s] = "none" => work'[s] = <<>> /\ pipe'[s] = <<>>,
         \/ ws' = ws /\ socks' = socks
         \/ ws' = None /\ socks' = IF ws = None THEN socks ELSE Closed(ws)
  PROVE  IInv'
  <1> USE Basics
  <1>1. /\ socks' \in [Sockets -> {"none", "open", "dead", "closed"}]
        /\ \A t \in Sockets : socks'[t] = socks[t] \/ (socks[t] = "open" /\ socks'[t] = "closed")
        /\ ws' = None => (socks' = socks /\ ws = None) \/ \A t \in Sockets : t = ws => socks'[t] # "open"
    BY DropOK DEF IInv, TypeOK
  <1>2. TypeOK'
    BY <1>1 DEF IInv, TypeOK, Works, Pipes, stopVars
  <1>3. UnderWay' /\ Current' /\ Answering' /\ OwnAudio'
    BY DEF IInv, UnderWay, Current, Answering, OwnAudio, stopVars
  <1>4. Fresh'
    BY <1>1 DEF IInv, TypeOK, Fresh, Empty, stopVars
  <1>5. OneConnection'
    BY <1>1 DEF IInv, TypeOK, Current, OneConnection, Open, stopVars
  <1> QED
    BY <1>2, <1>3, <1>4, <1>5 DEF IInv
\* The synthesis suspends to connect, with nothing left current.
LEMMA ConnectingOK ==
  ASSUME IInv, pc' = "connecting", sock' = None, ws' = None, cur' \in Reqs,
         ~stopped \/ late', late' \in BOOLEAN, late => late', next' \in {"sending", "receiving"},
         cancelled' \subseteq cancelled, linear' \in BOOLEAN, first' \in BOOLEAN,
         UNCHANGED <<invalid, ping, stopped, stopping, broken>>,
         voiced' \subseteq [req : Reqs, of : Reqs, on : Sockets],
         \A v \in voiced' : v.req = v.of \/ v.on \in broken,
         work' \in [Sockets -> Works], pipe' \in [Sockets -> Pipes],
         \A s \in Sockets : socks[s] = "none" => work'[s] = <<>> /\ pipe'[s] = <<>>,
         pc # "configuring",
         \/ socks' = IF ws = None THEN socks ELSE Closed(ws)
         \/ ~Open(ws) /\ socks' = socks
  PROVE  IInv'
  <1> USE Basics
  <1>1. /\ socks' \in [Sockets -> {"none", "open", "dead", "closed"}]
        /\ \A t \in Sockets : socks'[t] = socks[t] \/ (socks[t] = "open" /\ socks'[t] = "closed")
        /\ \A t \in Sockets : t = ws => socks'[t] # "open"
    BY DropOK DEF IInv, TypeOK, Open
  <1>2. TypeOK'
    <2>1. cur' \in 0..MaxReqs /\ cancelled' \subseteq invalid' /\ invalid' \subseteq Messages
      BY DEF IInv, TypeOK, Reqs
    <2>2. /\ work' \in [Sockets -> Seq([req : Reqs, left : 0..Chunks])]
          /\ pipe' \in [Sockets -> Seq([kind : {"audio", "final", "error"}, of : Reqs])]
      BY DEF Works, Pipes
    <2> QED
      BY <1>1, <2>1, <2>2 DEF IInv, TypeOK
  <1>3. UnderWay' /\ Current' /\ Answering' /\ OwnAudio'
    BY DEF IInv, UnderWay, Current, Answering, OwnAudio
  <1>4. Fresh'
    BY <1>1 DEF IInv, TypeOK, Fresh, Empty
  <1>5. OneConnection'
    BY <1>1 DEF IInv, TypeOK, UnderWay, Current, OneConnection, Open
  <1> QED
    BY <1>2, <1>3, <1>4, <1>5 DEF IInv

LEMMA ConnectsOK == ASSUME IInv, Connects PROVE IInv'
  <1> USE Basics
  <1>1. PICK s \in Sockets :
          /\ socks[s] = "none" /\ socks' = [socks EXCEPT ![s] = "open"]
          /\ pc' = "configuring" /\ sock' = s
    BY DEF Connects, Goes
  <1>2. /\ pc = "connecting" /\ UNCHANGED <<ws, work, pipe, next, cur, first, linear, cancelled,
                                            invalid, ping, stopVars, voiced, broken>>
    BY DEF Connects
  <1>3. /\ socks' \in [Sockets -> {"none", "open", "dead", "closed"}]
        /\ \A t \in Sockets : IF t = s THEN socks'[t] = "open" ELSE socks'[t] = socks[t]
    BY <1>1 DEF IInv, TypeOK
  <1>4. TypeOK'
    BY <1>1, <1>2, <1>3 DEF IInv, TypeOK, stopVars
  <1>5. UnderWay' /\ Current' /\ Answering' /\ OwnAudio'
    BY <1>1, <1>2 DEF IInv, UnderWay, Current, Answering, OwnAudio, stopVars
  <1>6. Fresh'
    BY <1>1, <1>2, <1>3 DEF IInv, TypeOK, Current, Fresh, Empty
  <1>7. OneConnection'
    BY <1>1, <1>2, <1>3 DEF IInv, TypeOK, Current, OneConnection, Open, stopVars
  <1> QED
    BY <1>4, <1>5, <1>6, <1>7 DEF IInv

LEMMA ConfiguredOK == ASSUME IInv, Configured PROVE IInv'
  <1> USE Basics
  <1>1. /\ pc = "configuring" /\ Open(sock) /\ ws' = sock /\ pc' = next /\ sock' = sock
        /\ next \in {"sending", "receiving"} /\ sock \in Sockets /\ ws = None
        /\ UNCHANGED <<socks, work, pipe, next, cur, first, linear, cancelled, invalid, ping, stopVars,
                       voiced, broken>>
    BY DEF IInv, TypeOK, Current, Configured, Goes
  <1>2. TypeOK'
    BY <1>1 DEF IInv, TypeOK, stopVars
  <1>3. UnderWay' /\ Current' /\ OneConnection'
    BY <1>1 DEF IInv, UnderWay, Current, OneConnection, Open, stopVars
  <1>4. Fresh' /\ OwnAudio'
    BY <1>1 DEF IInv, Fresh, OwnAudio, Empty, Open, stopVars
  <1>5. Answering'
    BY <1>1 DEF IInv, Fresh, Answering, Empty
  <1> QED
    BY <1>2, <1>3, <1>4, <1>5 DEF IInv

\* What has not been made stays empty.
LEMMA Unmade == ASSUME IInv
                PROVE  \A s \in Sockets : socks[s] = "none" => work[s] = <<>> /\ pipe[s] = <<>>
  BY DEF IInv, Fresh, Empty

LEMMA FailsOK ==
  ASSUME IInv, ConnectFails \/ ReceiveFails \/ Timeout \/ Leaves \/ CancelLoop PROVE IInv'
  <1>0. /\ work \in [Sockets -> Works] /\ pipe \in [Sockets -> Pipes]
        /\ voiced \subseteq [req : Reqs, of : Reqs, on : Sockets] /\ first \in BOOLEAN
        /\ \A v \in voiced : v.req = v.of \/ v.on \in broken
    BY DEF IInv, TypeOK, OwnAudio, Works, Pipes
  <1>1. CASE ConnectFails
    <2>1. /\ sock' = None /\ pc' = "failed" /\ cancelled' \subseteq cancelled
          /\ UNCHANGED <<ws, socks, work, pipe, next, cur, first, linear, invalid, ping, stopVars, voiced,
                         broken>>
          /\ pc = "configuring" => ~Open(sock)
      BY <1>1 DEF ConnectFails, Raise, Over, Goes, stopVars
    <2> QED
      BY <1>0, <2>1, Unmade, EndsOK
  <1>2. CASE ReceiveFails
    BY <1>0, <1>2, Unmade, EndsOK DEF ReceiveFails, Raise, Over, Goes
  <1>3. CASE Timeout
    <2>1. /\ sock' = None /\ pc' = "failed" /\ cancelled' \subseteq cancelled
          /\ UNCHANGED <<ws, socks, work, pipe, next, cur, first, linear, invalid, ping, stopVars, voiced,
                         broken>>
          /\ pc = "receiving"
      BY <1>3 DEF Timeout, Raise, Over, Goes, stopVars
    <2> QED
      BY <1>0, <2>1, Unmade, EndsOK
  <1>4. CASE Leaves
    <2>1. /\ sock' = None /\ pc' = "idle" /\ cancelled' \subseteq cancelled
          /\ UNCHANGED <<ws, socks, work, pipe, next, cur, first, linear, invalid, ping, stopVars, voiced,
                         broken>>
          /\ pc = "leaving" /\ ws \in broken \cup {None}
      BY <1>4 DEF Leaves, Ends, Over, Goes, stopVars, IInv, Current
    <2> QED
      BY <1>0, <2>1, Unmade, EndsOK
  <1>5. CASE CancelLoop
    <2>1. /\ sock' = None /\ pc' = "gone" /\ cancelled' \subseteq cancelled
          /\ UNCHANGED <<ws, socks, work, pipe, next, cur, first, linear, invalid, ping, stopVars, voiced,
                         broken>>
          /\ stopping = "done"
      BY <1>5 DEF CancelLoop, Goes, stopVars
    <2> QED
      BY <1>0, <2>1, Unmade, EndsOK
  <1> QED
    BY <1>1, <1>2, <1>3, <1>4, <1>5
-----------------------------------------------------------------------------
(* synthesize()                                                             *)

\* What a synthesis may find on its socket: answers to its request up to its end.
AnswersCur(w, q) ==
    /\ Len(w) <= 1 /\ \A i \in DOMAIN w : w[i].req = cur
    /\ \A i \in DOMAIN q : q[i].of = cur /\ (q[i].kind # "audio" => i = Len(q) /\ w = <<>>)

LEMMA ReadOnOK ==
  ASSUME IInv, pc \in {"sending", "receiving"}, ReadOn, cancelled' \subseteq cancelled,
         UNCHANGED <<socks, cur, linear, invalid, ping, stopVars, broken>>, first' \in BOOLEAN,
         voiced' \subseteq [req : Reqs, of : Reqs, on : Sockets],
         \A v \in voiced' : v.req = v.of \/ v.on \in broken,
         work' \in [Sockets -> Works], pipe' \in [Sockets -> Pipes],
         \A s \in Sockets : socks[s] = "none" => work'[s] = <<>> /\ pipe'[s] = <<>>,
         sock \notin broken => AnswersCur(work'[sock], pipe'[sock])
  PROVE  IInv'
  <1> USE Basics
  <1>0. sock \in Sockets /\ cur \in Reqs /\ ws \in {sock, None} /\ next \in {"sending", "receiving"}
        /\ late \in BOOLEAN /\ linear \in BOOLEAN
    BY DEF IInv, TypeOK, UnderWay, Current
  <1>1. CASE stopped
    <2>1. sock' = None /\ pc' = "idle" /\ ws' = ws /\ next' = next
      BY <1>1 DEF ReadOn, Ends, Over, Goes
    <2> QED
      BY <1>1, <2>1, EndsOK
  <1>2. CASE ~stopped /\ ~Open(ws)
    <2>1. sock' = None /\ pc' = "connecting" /\ ws' = None /\ next' = "receiving"
      BY <1>2 DEF ReadOn, Ensure, Goes
    <2>2. cur' \in Reqs /\ late' = late /\ stopped' = stopped /\ stopping' = stopping /\ linear' = linear
          /\ UNCHANGED <<invalid, ping, broken>> /\ socks' = socks
      BY <1>0 DEF stopVars
    <2> QED
      BY <1>0, <1>2, <2>1, <2>2, ConnectingOK
  <1>3. CASE ~stopped /\ Open(ws)
    <2>1. sock' = sock /\ pc' = "receiving" /\ ws' = ws /\ next' = "receiving" /\ ws = sock
      BY <1>0, <1>3 DEF ReadOn, Ensure, Goes, Open
    <2>2. TypeOK'
      BY <1>0, <2>1 DEF IInv, TypeOK, Works, Pipes, stopVars
    <2>3. UnderWay' /\ Current' /\ OneConnection'
      BY <1>0, <2>1 DEF IInv, UnderWay, Current, OneConnection, Open, stopVars
    <2>4. Fresh' /\ OwnAudio'
      BY <1>0, <2>1 DEF IInv, TypeOK, Fresh, OwnAudio, Empty, stopVars
    <2>5. Answering'
      BY <1>0, <2>1 DEF Answering, AnswersCur
    <2> QED
      BY <2>2, <2>3, <2>4, <2>5 DEF IInv
  <1> QED
    BY <1>1, <1>2, <1>3

LEMMA BeginOK == ASSUME IInv, Begin PROVE IInv'
  <1> USE Basics
  <1>0. /\ pc = "idle" /\ cur' = cur + 1 /\ cur' \in Reqs /\ cur \in Nat /\ sock = None
        /\ UNCHANGED <<socks, work, pipe, linear, cancelled, invalid, ping, stopVars, voiced, broken>>
    BY DEF IInv, TypeOK, Begin, Reqs
  <1>5. cur' \in 0..MaxReqs
    BY <1>0 DEF Reqs
  <1>1. CASE UNCHANGED <<ws, pc, next, sock, first>>
    <2>1. TypeOK'
      BY <1>0, <1>1, <1>5 DEF IInv, TypeOK, stopVars
    <2> QED
      BY <1>0, <1>1, <2>1 DEF IInv, UnderWay, Current, Fresh, Answering, OwnAudio, OneConnection,
                              Empty, Open, stopVars
  <1>2. CASE ~stopped /\ Ensure("sending") /\ first' = FALSE
    <2>1. CASE Open(ws)
      <3>1. pc' = "sending" /\ sock' = ws /\ ws' = ws /\ next' = "sending" /\ ws \in Sockets
        BY <1>2, <2>1 DEF Ensure, Goes, Open, IInv, TypeOK
      <3>2. TypeOK'
        BY <1>0, <1>2, <1>5, <3>1 DEF IInv, TypeOK, stopVars
      <3>3. UnderWay' /\ Current' /\ OneConnection'
        BY <1>0, <3>1 DEF IInv, UnderWay, Current, OneConnection, Open, stopVars
      <3>4. Fresh' /\ Answering' /\ OwnAudio'
        BY <1>0, <1>2, <3>1 DEF IInv, Fresh, Answering, OwnAudio, Empty, stopVars
      <3> QED
        BY <3>2, <3>3, <3>4 DEF IInv
    <2>2. CASE ~Open(ws)
      <3>1. pc' = "connecting" /\ sock' = None /\ ws' = None /\ next' = "sending"
        BY <1>2, <2>2 DEF Ensure, Goes
      <3>2. /\ work' \in [Sockets -> Works] /\ pipe' \in [Sockets -> Pipes]
            /\ voiced' \subseteq [req : Reqs, of : Reqs, on : Sockets] /\ late' \in BOOLEAN
            /\ \A v \in voiced' : v.req = v.of \/ v.on \in broken
            /\ linear' \in BOOLEAN /\ late' = late /\ stopped' = stopped /\ stopping' = stopping
        BY <1>0 DEF IInv, TypeOK, OwnAudio, Works, Pipes, stopVars
      <3>3. \A s \in Sockets : socks[s] = "none" => work'[s] = <<>> /\ pipe'[s] = <<>>
        BY <1>0, Unmade
      <3>4. UNCHANGED <<invalid, ping, broken>> /\ socks' = socks /\ cancelled' = cancelled
        BY <1>0
      <3> QED
        BY <1>0, <1>2, <2>2, <3>1, <3>2, <3>3, <3>4, ConnectingOK
    <2> QED
      BY <2>1, <2>2
  <1> QED
    BY <1>1, <1>2 DEF Begin

LEMMA SendsOK == ASSUME IInv, Sends PROVE IInv'
  <1> USE Basics
  <1>0. /\ pc = "sending" /\ sock \in Sockets /\ cur \in Reqs
        /\ UNCHANGED <<socks, pipe, cur, first, linear, invalid, ping, stopVars, voiced, broken>>
        /\ work \in [Sockets -> Works] /\ pipe \in [Sockets -> Pipes] /\ first \in BOOLEAN
        /\ voiced \subseteq [req : Reqs, of : Reqs, on : Sockets]
        /\ \A v \in voiced : v.req = v.of \/ v.on \in broken
    BY DEF IInv, TypeOK, UnderWay, OwnAudio, Works, Pipes, Sends
  <1>1. CASE ~Open(sock)
    <2>1. /\ pc' = "failed" /\ sock' = None /\ cancelled' \subseteq cancelled
          /\ ws' = ws /\ next' = next /\ work' = work
      BY <1>1 DEF Sends, Raise, Over, Goes
    <2> QED
      BY <1>0, <2>1, Unmade, EndsOK
  <1>2. CASE Open(sock)
    <2> DEFINE w == [req |-> cur, left |-> Chunks]
    <2>1. w \in [req : Reqs, left : 0..Chunks] /\ w.req = cur
      BY <1>0
    <2>2. ReadOn /\ work' = [work EXCEPT ![sock] = Append(@, w)]
      BY <1>2 DEF Sends
    <2> HIDE DEF w
    <2>3. Append(work[sock], w) \in Works
      <3>1. work[sock] \in Works
        BY <1>0
      <3> QED
        BY <2>1, <3>1 DEF Works
    <2>4. /\ work' \in [Sockets -> Works] /\ work'[sock] = Append(work[sock], w)
          /\ \A t \in Sockets \ {sock} : work'[t] = work[t]
      BY <1>0, <2>2, <2>3
    <2>5. \A s \in Sockets : socks[s] = "none" => work'[s] = <<>> /\ pipe'[s] = <<>>
      BY <1>0, <1>2, <2>4, Unmade DEF Open
    <2>6. ASSUME sock \notin broken PROVE AnswersCur(work'[sock], pipe'[sock])
      <3>1. work[sock] = <<>> /\ pipe'[sock] = <<>>
        BY <1>0, <2>6 DEF IInv, Fresh, Empty
      <3>2. work'[sock] = <<w>>
        BY <2>1, <2>4, <3>1
      <3>3. Len(<<w>>) <= 1 /\ \A i \in DOMAIN <<w>> : <<w>>[i] = w
        OBVIOUS
      <3>4. DOMAIN pipe'[sock] = {}
        BY <3>1
      <3> QED
        BY <2>1, <3>2, <3>3, <3>4 DEF AnswersCur
    <2>7. cancelled' \subseteq cancelled
      BY <2>2 DEF ReadOn, Ends, Over
    <2> QED
      BY <1>0, <2>2, <2>4, <2>5, <2>6, <2>7, ReadOnOK
  <1> QED
    BY <1>1, <1>2

LEMMA ReceivesOK == ASSUME IInv, Receives PROVE IInv'
  <1> USE Basics
  <1> DEFINE p == Head(pipe[sock])
  <1>0. /\ pc = "receiving" /\ sock \in Sockets /\ cur \in Reqs /\ pipe[sock] # <<>>
        /\ UNCHANGED <<work, cur, invalid, ping, stopped, stopping>>
        /\ pipe' = [pipe EXCEPT ![sock] = Tail(@)]
        /\ work \in [Sockets -> Works] /\ pipe \in [Sockets -> Pipes] /\ first \in BOOLEAN
        /\ linear \in BOOLEAN /\ late \in BOOLEAN /\ ws \in {sock, None}
        /\ voiced \subseteq [req : Reqs, of : Reqs, on : Sockets]
        /\ \A v \in voiced : v.req = v.of \/ v.on \in broken
        /\ invalid \subseteq Messages /\ cancelled \subseteq invalid /\ broken \subseteq Sockets
    BY DEF IInv, TypeOK, UnderWay, Current, OwnAudio, Works, Pipes, Receives
  <1>1. pipe[sock] \in Pipes /\ work[sock] \in Works
    BY <1>0
  <1>2. /\ Len(pipe[sock]) \in Nat /\ Len(pipe[sock]) >= 1 /\ DOMAIN pipe[sock] = 1..Len(pipe[sock])
        /\ p = pipe[sock][1] /\ Tail(pipe[sock]) \in Pipes
        /\ Len(Tail(pipe[sock])) = Len(pipe[sock]) - 1
        /\ DOMAIN Tail(pipe[sock]) = 1..(Len(pipe[sock]) - 1)
        /\ \A i \in 1..(Len(pipe[sock]) - 1) : Tail(pipe[sock])[i] = pipe[sock][i + 1]
    BY <1>0, <1>1 DEF Pipes
  <1>3. p \in [kind : {"audio", "final", "error"}, of : Reqs]
    <2>1. 1 \in DOMAIN pipe[sock]
      BY <1>2
    <2>2. pipe[sock][1] \in [kind : {"audio", "final", "error"}, of : Reqs]
      BY <1>1, <2>1, Element DEF Pipes
    <2> QED
      BY <1>2, <2>2
  <1> HIDE DEF p
  <1>4. /\ pipe' \in [Sockets -> Pipes] /\ pipe'[sock] = Tail(pipe[sock])
        /\ \A t \in Sockets \ {sock} : pipe'[t] = pipe[t]
    BY <1>0, <1>2
  <1>5. \A s \in Sockets : socks[s] = "none" => work'[s] = <<>> /\ pipe'[s] = <<>>
    BY <1>0, <1>4, Unmade
  <1>6. sock \notin broken => /\ p.of = cur /\ AnswersCur(work[sock], pipe[sock])
                              /\ p.kind # "audio" => work[sock] = <<>> /\ pipe'[sock] = <<>>
    <2>1. SUFFICES ASSUME sock \notin broken
                   PROVE  /\ p.of = cur /\ AnswersCur(work[sock], pipe[sock])
                          /\ p.kind # "audio" => work[sock] = <<>> /\ pipe'[sock] = <<>>
      OBVIOUS
    <2>2. AnswersCur(work[sock], pipe[sock])
      BY <1>0, <2>1 DEF IInv, Answering, AnswersCur
    <2>5. 1 \in DOMAIN pipe[sock] /\ p = pipe[sock][1]
      BY <1>2
    <2>3. p.of = cur /\ (p.kind # "audio" => Len(pipe[sock]) = 1 /\ work[sock] = <<>>)
      BY <2>2, <2>5 DEF AnswersCur
    <2>4. Len(pipe[sock]) = 1 => Tail(pipe[sock]) = <<>>
      BY <1>2 DEF Pipes
    <2> QED
      BY <1>4, <2>2, <2>3, <2>4
  <1>7. sock \notin broken => AnswersCur(work[sock], pipe'[sock])
    <2>1. SUFFICES ASSUME sock \notin broken PROVE AnswersCur(work[sock], pipe'[sock])
      OBVIOUS
    <2>2. AnswersCur(work[sock], pipe[sock])
      BY <1>6, <2>1
    <2>3. ASSUME NEW i \in DOMAIN pipe'[sock]
          PROVE  /\ pipe'[sock][i].of = cur
                 /\ pipe'[sock][i].kind # "audio" => i = Len(pipe'[sock]) /\ work[sock] = <<>>
      <3>1. i \in 1..(Len(pipe[sock]) - 1) /\ i + 1 \in DOMAIN pipe[sock] /\ pipe'[sock][i] = pipe[sock][i + 1]
            /\ Len(pipe'[sock]) = Len(pipe[sock]) - 1
        BY <1>2, <1>4
      <3>2. /\ pipe[sock][i + 1].of = cur
            /\ pipe[sock][i + 1].kind # "audio" => i + 1 = Len(pipe[sock]) /\ work[sock] = <<>>
        BY <2>2, <3>1 DEF AnswersCur
      <3> QED
        BY <1>2, <3>1, <3>2
    <2> QED
      BY <2>2, <2>3 DEF AnswersCur
  <1>8. CASE p.kind = "audio" /\ Audio(p)
    <2>0. UNCHANGED <<linear, socks, late>> /\ UNCHANGED stopVars
      BY <1>0, <1>8 DEF Audio, stopVars
    <2>1. CASE Message(cur) \in cancelled
      <3>1. ReadOn /\ UNCHANGED <<first, voiced, broken>>
        BY <1>8, <2>1 DEF Audio
      <3>2. cancelled' \subseteq cancelled
        BY <3>1 DEF ReadOn, Ends, Over
      <3> QED
        BY <1>0, <1>4, <1>5, <1>7, <2>0, <3>1, <3>2, ReadOnOK
    <2>2. CASE Message(cur) \in invalid \ cancelled
      <3>1. /\ pc' = "leaving" /\ sock' = None /\ broken' = broken \cup {sock} /\ first' = TRUE
            /\ cancelled' = cancelled \cup {Message(cur)} /\ UNCHANGED <<ws, next, voiced>>
        BY <1>8, <2>2 DEF Audio, Goes
      <3>2. TypeOK'
        BY <1>0, <1>4, <2>0, <2>2, <3>1 DEF IInv, TypeOK, Works, Pipes, stopVars
      <3>3. UnderWay' /\ Current' /\ OneConnection'
        BY <1>0, <2>0, <3>1 DEF IInv, UnderWay, Current, OneConnection, Open, stopVars
      <3>4. Fresh' /\ Answering' /\ OwnAudio'
        BY <1>0, <1>5, <2>0, <3>1 DEF IInv, Fresh, Answering, OwnAudio, Empty, stopVars
      <3> QED
        BY <3>2, <3>3, <3>4 DEF IInv
    <2>3. CASE Message(cur) \notin invalid \cup cancelled
      <3>1. ReadOn /\ Passed(p) /\ UNCHANGED broken
        BY <1>8, <2>3 DEF Audio
      <3>2. /\ cancelled' \subseteq cancelled /\ first' \in BOOLEAN
            /\ voiced' = voiced \cup {[req |-> cur, of |-> p.of, on |-> sock]}
        BY <3>1 DEF ReadOn, Ends, Over, Passed
      <3>3. /\ voiced' \subseteq [req : Reqs, of : Reqs, on : Sockets]
            /\ \A v \in voiced' : v.req = v.of \/ v.on \in broken
        BY <1>0, <1>3, <1>6, <3>2
      <3> QED
        BY <1>0, <1>4, <1>5, <1>7, <2>0, <3>1, <3>2, <3>3, ReadOnOK
    <2> QED
      BY <1>0, <2>1, <2>2, <2>3
  <1>9. CASE p.kind = "error" /\ Error
    <2>0. /\ UNCHANGED <<first, voiced, broken>> /\ first' \in BOOLEAN
          /\ voiced' \subseteq [req : Reqs, of : Reqs, on : Sockets]
          /\ \A v \in voiced' : v.req = v.of \/ v.on \in broken
          /\ work' \in [Sockets -> Works]
      BY <1>0, <1>9 DEF Error
    <2>1. CASE Raise /\ UNCHANGED <<linear, ws, next, socks, late>>
      <3>1. pc' = "failed" /\ sock' = None /\ cancelled' \subseteq cancelled
            /\ UNCHANGED stopVars /\ UNCHANGED <<linear, ws, next, socks>>
        BY <1>0, <2>1 DEF Raise, Over, Goes, stopVars
      <3> QED
        BY <1>0, <1>4, <1>5, <2>0, <3>1, EndsOK
    <2>2. CASE linear' = TRUE /\ Fallback /\ late' = (late \/ stopped) /\ UNCHANGED cancelled
      <3>1. /\ pc' = "connecting" /\ sock' = None /\ ws' = None /\ next' = "sending"
            /\ socks' = IF ws = None THEN socks ELSE Closed(ws)
            /\ late' \in BOOLEAN /\ (late => late') /\ (~stopped \/ late')
        BY <1>0, <2>2 DEF Fallback, Goes, IInv, TypeOK
      <3> QED
        BY <1>0, <1>4, <1>5, <2>0, <2>2, <3>1, ConnectingOK
    <2> QED
      BY <1>9, <2>1, <2>2 DEF Error
  <1>10. CASE p.kind = "final" /\ Final
    <2>1. pc' = "idle" /\ sock' = None /\ cancelled' \subseteq cancelled
          /\ UNCHANGED stopVars /\ UNCHANGED <<ws, next, first, voiced, broken, linear, socks>>
      BY <1>0, <1>10 DEF Final, Ends, Over, Goes, stopVars
    <2>2. ws \notin broken /\ ws # None => work'[ws] = <<>> /\ pipe'[ws] = <<>>
      BY <1>0, <1>6, <1>10
    <2> QED
      BY <1>0, <1>4, <1>5, <2>1, <2>2, EndsOK
  <1> QED
    BY <1>3, <1>8, <1>9, <1>10 DEF Receives, p

-----------------------------------------------------------------------------
LEMMA StutterOK == ASSUME IInv, UNCHANGED vars PROVE IInv'
  <1>1. TypeOK'
    BY ZenonT(60) DEF IInv, TypeOK, vars, synVars, stopVars
  <1> QED
    BY <1>1 DEF IInv, UnderWay, Current, Fresh, Answering, OwnAudio, OneConnection, Empty, Open,
                vars, synVars, stopVars

LEMMA StepOK == ASSUME IInv, [Next]_vars PROVE IInv'
  BY AnswersOK, DieOK, IdsOK, DropsOK, StopOK, ConnectsOK, ConfiguredOK, FailsOK, BeginOK, SendsOK,
     ReceivesOK, StutterOK DEF Next, Synthesis, AnswersSome

LEMMA IInvHolds == Spec => []IInv
  BY InitOK, StepOK, PTL DEF Spec

\* The variables have their types, and a synthesis has a socket exactly while it
\* writes or reads.
THEOREM TypesHold == Spec => []TypeOK
  BY IInvHolds, PTL DEF IInv

\* What is passed on for a sentence was made of it, unless the tts loop left a
\* synthesis half-way on that socket: for any number of sentences, payloads,
\* reconnections and cancellations, although no payload names its request.
THEOREM OwnAudioHolds == Spec => []OwnAudio
  BY IInvHolds, PTL DEF IInv

\* There is at most one open connection, and none after the stop, unless the loop
\* was connecting when the stop came or fell back to the other codec after it.
THEOREM OneConnectionHolds == Spec => []OneConnection
  BY IInvHolds, PTL DEF IInv
=============================================================================
