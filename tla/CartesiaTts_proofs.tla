-------------------------- MODULE CartesiaTts_proofs --------------------------
(***************************************************************************)
(* Proofs about CartesiaTts, for every value of its constants.              *)
(***************************************************************************)
EXTENDS CartesiaTts, Integers, TLAPS

(***************************************************************************)
(* The inductive invariant.                                                 *)
(***************************************************************************)

\* A synthesis under way is of a sentence, and its message has its context.
UnderWay ==
    /\ pc \in {"sending", "receiving", "leaving"} => cur \in Reqs
    /\ pc \in {"sending", "receiving"} => Message(cur) \in contexts
    /\ pc = "leaving" => Message(cur) \in invalid

\* The service has yet to answer r, or the answer has yet to be received.
Pending(r) == (\E w \in work : w.req = r) \/ (\E i \in DOMAIN pipe : pipe[i].of = r)

\* Nothing is pending of a sentence not yet sent, nor of another sentence of the
\* message being synthesized; and of a message whose earlier sentence was left
\* with something pending, no sentence is taken up any more.
Leftovers ==
    \A r \in Reqs : Pending(r) =>
        /\ r <= cur
        /\ pc = "sending" => r # cur
        /\ pc \in {"sending", "receiving"} /\ Message(r) = Message(cur) => r = cur
        /\ stopped \/ pc \in {"failed", "gone"} \/ Message(r) \in invalid
             \/ (r = cur /\ pc = "receiving")

\* Answers name the context they belong to, unless they are errors, and nothing
\* of a sentence follows its end.
Answered ==
    /\ \A v, w \in work : v.req = w.req => v = w
    /\ \A i \in DOMAIN pipe : pipe[i].kind # "error" => pipe[i].context = Message(pipe[i].of)
    /\ \A i \in DOMAIN pipe : pipe[i].kind \in {"last", "done"} =>
         /\ \A w \in work : w.req # pipe[i].of
         /\ \A j \in DOMAIN pipe : j > i => pipe[j].of # pipe[i].of

IInv == TypeOK /\ UnderWay /\ Leftovers /\ Answered /\ OwnAudio /\ CancelIsHeeded

-----------------------------------------------------------------------------
(* The contexts.                                                            *)

\* The message of a sentence is one of the messages, and never the NoContext.
LEMMA MessageOK == ASSUME NEW r \in Reqs PROVE Message(r) \in Messages /\ Message(r) # NoContext
  <1>1. Message(r) \in Messages
    BY DEF Messages
  <1>2. /\ r \in Nat /\ r >= 1 /\ r <= MaxReqs /\ r - 1 \in Nat
        /\ PerMessage \in Nat /\ PerMessage >= 1 /\ MaxReqs \in Nat
    BY TtsAssumption DEF Reqs
  <1>3. (r - 1) \div PerMessage <= r - 1
    BY <1>2, Z3
  <1>4. (r - 1) \div PerMessage \in Int
    BY <1>2
  <1>5. Message(r) # NoContext
    BY <1>2, <1>3, <1>4 DEF Message, NoContext
  <1> QED
    BY <1>1, <1>5

-----------------------------------------------------------------------------
(* One lemma per action, or group of actions that leave the same alone.     *)

LEMMA InitOK == Init => IInv
  <1> SUFFICES ASSUME Init PROVE IInv
    OBVIOUS
  <1>1. cur \in 0..MaxReqs /\ pipe \in Seq([kind : {"chunk", "last", "done", "error"}, of : Reqs,
                                           context : Messages \cup {NoContext}])
    BY TtsAssumption DEF Init
  <1>3. TypeOK
    BY <1>1 DEF Init, TypeOK
  <1>2. UnderWay /\ Leftovers /\ Answered /\ OwnAudio /\ CancelIsHeeded
    BY DEF Init, UnderWay, Leftovers, Pending, Answered, OwnAudio, CancelIsHeeded
  <1> QED
    BY <1>3, <1>2 DEF IInv

\* What is pending is pending still, or there is less of it.
LEMMA LessPending ==
  ASSUME pipe' = pipe, work' \subseteq work, Answered, NEW r
  PROVE  Answered' /\ (Pending(r)' => Pending(r))
  BY DEF Answered, Pending

LEMMA LoopOK == ASSUME IInv, Lose \/ ReceiveFails \/ Timeout \/ Leaves \/ CancelLoop PROVE IInv'
  <1>1. TypeOK'
    BY DEF IInv, TypeOK, Lose, ReceiveFails, Timeout, Fails, Leaves, CancelLoop, svcVars, idVars
  <1>2. UnderWay' /\ OwnAudio' /\ CancelIsHeeded'
    BY DEF IInv, UnderWay, OwnAudio, CancelIsHeeded, Lose, ReceiveFails, Timeout, Fails, Leaves,
           CancelLoop, svcVars, idVars, Message
  <1>3. pipe' = pipe /\ work' = work /\ cur' = cur /\ invalid' = invalid /\ stopped' = stopped
    BY DEF Lose, ReceiveFails, Timeout, Fails, Leaves, CancelLoop, svcVars, idVars
  <1>4. Answered' /\ \A r : Pending(r)' => Pending(r)
    BY <1>3, LessPending DEF IInv
  <1>5. pc' = pc \/ pc' \in {"failed", "gone"} \/ (pc = "leaving" /\ pc' = "idle")
    BY DEF Lose, ReceiveFails, Timeout, Fails, Leaves, CancelLoop
  <1>6. Leftovers'
    BY <1>3, <1>4, <1>5 DEF IInv, Leftovers, Message
  <1> QED
    BY <1>1, <1>2, <1>4, <1>6 DEF IInv

LEMMA OthersOK == ASSUME IInv, Invalidate \/ Cancel \/ Tell \/ Stop PROVE IInv'
  <1>1. TypeOK'
    <2>1. CASE Invalidate
      <3>1. Message(cur) \in Messages
        BY <2>1, MessageOK DEF IInv, TypeOK, Invalidate, Reqs
      <3> QED
        BY <2>1, <3>1 DEF IInv, TypeOK, Invalidate, svcVars, idVars
    <2>2. CASE Cancel
      BY <2>2 DEF IInv, TypeOK, Cancel, svcVars
    <2>3. CASE Tell
      BY <2>3 DEF IInv, TypeOK, Tell
    <2>4. CASE Stop
      BY <2>4 DEF IInv, TypeOK, Stop, idVars
    <2> QED
      BY <2>1, <2>2, <2>3, <2>4
  <1>2. /\ pipe' = pipe /\ work' \subseteq work /\ cur' = cur /\ pc' = pc
        /\ contexts' = contexts /\ voiced' = voiced
        /\ invalid \subseteq invalid' /\ (stopped => stopped')
    BY DEF Invalidate, Cancel, Tell, Stop, svcVars, idVars
  <1>3. UnderWay' /\ OwnAudio'
    BY <1>2 DEF IInv, UnderWay, OwnAudio, Message
  <1>4. CancelIsHeeded'
    BY <1>2 DEF IInv, UnderWay, CancelIsHeeded, Invalidate, Cancel, Tell, Stop, idVars, Message
  <1>5. Answered' /\ \A r : Pending(r)' => Pending(r)
    BY <1>2, LessPending DEF IInv
  <1>6. Leftovers'
    BY <1>2, <1>5 DEF IInv, Leftovers, Message
  <1> QED
    BY <1>1, <1>3, <1>4, <1>5, <1>6 DEF IInv

LEMMA BeginOK == ASSUME IInv, Begin PROVE IInv'
  <1>1. /\ cur \in Nat /\ cur' = cur + 1 /\ cur' \in Reqs /\ pc = "idle" /\ MaxReqs \in Nat
        /\ work' = work /\ pipe' = pipe /\ wire' = wire /\ cancelled' = cancelled
        /\ ignored' = ignored /\ telling' = telling /\ invalid' = invalid
        /\ stopped' = stopped /\ voiced' = voiced
    BY TtsAssumption DEF IInv, TypeOK, Begin, svcVars, Reqs
  <1>2. Message(cur') \in Messages
    BY <1>1, MessageOK
  <1>3. \/ pc' = "idle" /\ first' = first /\ contexts' = contexts
        \/ pc' = "failed" /\ first' = first /\ contexts' = contexts
        \/ /\ pc' = "sending" /\ first' = FALSE /\ contexts' = contexts \cup {Message(cur')}
           /\ Message(cur') \notin invalid /\ ~stopped
    BY <1>1 DEF Begin, MapContext
  <1>4. TypeOK'
    <2>1. pc' \in {"idle", "failed", "sending"}
      BY <1>1, <1>3
    <2>3. first' \in BOOLEAN
      BY <1>3 DEF IInv, TypeOK
    <2>4. cur' \in 0..MaxReqs
      BY <1>1 DEF Reqs
    <2>2. contexts' \subseteq Messages
      BY <1>2, <1>3 DEF IInv, TypeOK
    <2> QED
      BY <1>1, <2>1, <2>2, <2>3, <2>4 DEF IInv, TypeOK
  <1>5. UnderWay' /\ OwnAudio'
    BY <1>1, <1>3 DEF IInv, UnderWay, OwnAudio, Message
  <1>6. CancelIsHeeded'
    BY <1>1, <1>3 DEF IInv, TypeOK, CancelIsHeeded, Message
  <1>7. Answered' /\ \A r : Pending(r)' => Pending(r)
    BY <1>1, LessPending DEF IInv
  <1>8. Leftovers'
    <2> SUFFICES ASSUME NEW r \in Reqs, Pending(r)
                 PROVE  /\ r <= cur' /\ (pc' = "sending" => r # cur')
                        /\ pc' = "sending" => Message(r) # Message(cur)'
                        /\ pc' # "receiving"
                        /\ stopped \/ pc' = "failed" \/ Message(r) \in invalid
      BY <1>1, <1>7 DEF Leftovers, Message
    <2>1. r <= cur /\ r \in Nat
      BY DEF IInv, Leftovers, Reqs
    <2>2. stopped \/ Message(r) \in invalid
      BY <1>1 DEF IInv, Leftovers
    <2>3. pc' = "sending" => Message(r) # Message(cur)'
      BY <2>2, <1>3 DEF Message
    <2> QED
      BY <1>1, <1>3, <2>1, <2>2, <2>3
  <1> QED
    BY <1>4, <1>5, <1>6, <1>7, <1>8 DEF IInv

LEMMA SendsOK == ASSUME IInv, Sends PROVE IInv'
  <1>1. /\ pc = "sending" /\ cur \in Reqs /\ cur \in Nat /\ cur' = cur /\ pipe' = pipe
        /\ voiced' = voiced /\ invalid' = invalid /\ stopped' = stopped /\ wire' = wire
        /\ first' = first /\ cancelled' = cancelled /\ ignored' = ignored /\ telling' = telling
    BY DEF IInv, UnderWay, Sends, Reqs
  <1>2. \/ pc' = "failed" /\ work' = work /\ contexts' = contexts
        \/ /\ work' = work \cup {[req |-> cur, left |-> Chunks]}
           /\ \/ stopped /\ pc' = "idle" /\ contexts' = contexts \ {Message(cur)}
              \/ ~stopped /\ pc' = "receiving" /\ contexts' = contexts
    BY DEF Sends, ReadOn, Ends
  <1>3. [req |-> cur, left |-> Chunks] \in [req : Reqs, left : 0..Chunks]
    BY <1>1, TtsAssumption
  <1>4. TypeOK'
    BY <1>1, <1>2, <1>3 DEF IInv, TypeOK
  <1>5. UnderWay' /\ OwnAudio' /\ CancelIsHeeded'
    BY <1>1, <1>2 DEF IInv, UnderWay, OwnAudio, CancelIsHeeded, Message
  <1>6. ~Pending(cur)
    BY <1>1 DEF IInv, Leftovers
  <1>7. \A r : Pending(r)' => Pending(r) \/ (r = cur /\ (pc' # "receiving" => pc' = "failed" \/ stopped))
    BY <1>1, <1>2 DEF Pending
  <1>8. Answered'
    BY <1>1, <1>2, <1>6 DEF IInv, Answered, Pending, Message
  <1>9. Leftovers'
    <2> SUFFICES ASSUME NEW r \in Reqs, Pending(r)'
                 PROVE  /\ r <= cur
                        /\ pc' = "receiving" /\ Message(r) = Message(cur) => r = cur
                        /\ stopped \/ pc' = "failed" \/ Message(r) \in invalid
                              \/ (r = cur /\ pc' = "receiving")
      BY <1>1, <1>2 DEF Leftovers, Message
    <2> QED
      BY <1>1, <1>2, <1>7 DEF IInv, Leftovers
  <1> QED
    BY <1>4, <1>5, <1>8, <1>9 DEF IInv

\* One more answer at the end of the pipe: what the invariant asks of it.
LEMMA SaysOK ==
  ASSUME IInv, NEW w \in work, NEW kind \in {"chunk", "last", "done", "error"},
         NEW ctx \in Messages \cup {NoContext}, Says(w, kind, ctx),
         kind # "error" => ctx = Message(w.req),
         \/ /\ kind = "chunk" /\ w.left > 0
            /\ work' = (work \ {w}) \cup {[w EXCEPT !.left = @ - 1]}
         \/ work' = work \ {w}
  PROVE  /\ pipe' \in Seq([kind : {"chunk", "last", "done", "error"}, of : Reqs,
                           context : Messages \cup {NoContext}])
         /\ work' \subseteq [req : Reqs, left : 0..Chunks]
         /\ Answered'
         /\ \A r : Pending(r)' => Pending(r)
  <1> DEFINE p == [kind |-> kind, of |-> w.req, context |-> ctx]
             v == [w EXCEPT !.left = @ - 1]
  <1>1. w \in [req : Reqs, left : 0..Chunks] /\ Chunks \in Nat
    BY TtsAssumption DEF IInv, TypeOK
  <1>2. p \in [kind : {"chunk", "last", "done", "error"}, of : Reqs, context : Messages \cup {NoContext}]
    BY <1>1
  <1>3. pipe' \in Seq([kind : {"chunk", "last", "done", "error"}, of : Reqs,
                      context : Messages \cup {NoContext}])
    BY <1>2 DEF IInv, TypeOK, Says
  <1>4. /\ Len(pipe) \in Nat /\ DOMAIN pipe = 1..Len(pipe) /\ DOMAIN pipe' = 1..(Len(pipe) + 1)
        /\ \A i \in DOMAIN pipe : pipe'[i] = pipe[i]
        /\ pipe'[Len(pipe) + 1] = p
    BY <1>2 DEF IInv, TypeOK, Says
  <1>5. w.left > 0 => v \in [req : Reqs, left : 0..Chunks] /\ v.req = w.req
    BY <1>1
  <1>6. work' \subseteq [req : Reqs, left : 0..Chunks]
    BY <1>5 DEF IInv, TypeOK
  <1>7. \A u \in work' : \E x \in work : x.req = u.req /\ (u = x \/ (x = w /\ u = v /\ kind = "chunk"))
    <2> SUFFICES ASSUME NEW u \in work'
                 PROVE  \E x \in work : x.req = u.req /\ (u = x \/ (x = w /\ u = v /\ kind = "chunk"))
      OBVIOUS
    <2>1. CASE u \in work
      BY <2>1
    <2>2. CASE u \notin work
      <3>1. u = v /\ kind = "chunk" /\ u.req = w.req
        BY <2>2, <1>5
      <3> QED
        BY <3>1
    <2> QED
      BY <2>1, <2>2
  <1>8. Answered'
    <2>1. ASSUME NEW x \in work', NEW y \in work', x.req = y.req PROVE x = y
      BY <1>5, <2>1 DEF IInv, Answered
    <2>2. \A i \in DOMAIN pipe' : pipe'[i].kind # "error" => pipe'[i].context = Message(pipe'[i].of)
      BY <1>4 DEF IInv, Answered
    <2>3. ASSUME NEW i \in DOMAIN pipe', pipe'[i].kind \in {"last", "done"}
          PROVE  /\ \A u \in work' : u.req # pipe'[i].of
                 /\ \A j \in DOMAIN pipe' : j > i => pipe'[j].of # pipe'[i].of
      <3>1. CASE i \in DOMAIN pipe
        BY <3>1, <2>3, <1>4, <1>7 DEF IInv, Answered
      <3>2. CASE i = Len(pipe) + 1
        BY <3>2, <2>3, <1>4, <1>7 DEF IInv, Answered
      <3> QED
        BY <1>4, <3>1, <3>2
    <2> QED
      BY <2>1, <2>2, <2>3 DEF Answered, Message
  <1>9. \A r : Pending(r)' => Pending(r)
    BY <1>4, <1>7 DEF Pending
  <1> QED
    BY <1>3, <1>6, <1>8, <1>9

LEMMA AnswersOK == ASSUME IInv, Answers PROVE IInv'
  <1>1. /\ wire' = wire /\ pc' = pc /\ cur' = cur /\ first' = first /\ contexts' = contexts
        /\ cancelled' = cancelled /\ ignored' = ignored /\ telling' = telling
        /\ invalid' = invalid /\ stopped' = stopped /\ voiced' = voiced
    BY DEF Answers, idVars
  <1>2. PICK w \in work :
          LET own == Message(w.req) IN
            \/ /\ w.left > 0 /\ Says(w, "chunk", own)
               /\ work' = (work \ {w}) \cup {[w EXCEPT !.left = @ - 1]}
            \/ /\ \/ Says(w, "done", own)
                  \/ w.left > 0 /\ Says(w, "last", own)
                  \/ \E ctx \in {own, NoContext} : Says(w, "error", ctx)
               /\ work' = work \ {w}
    BY DEF Answers
  <1>3. Message(w.req) \in Messages
    BY MessageOK DEF IInv, TypeOK
  <1>4. /\ pipe' \in Seq([kind : {"chunk", "last", "done", "error"}, of : Reqs,
                         context : Messages \cup {NoContext}])
        /\ work' \subseteq [req : Reqs, left : 0..Chunks]
        /\ Answered'
        /\ \A r : Pending(r)' => Pending(r)
    BY <1>2, <1>3, SaysOK
  <1>5. TypeOK'
    BY <1>1, <1>4 DEF IInv, TypeOK
  <1>6. UnderWay' /\ OwnAudio' /\ CancelIsHeeded'
    BY <1>1 DEF IInv, UnderWay, OwnAudio, CancelIsHeeded, Message
  <1>7. Leftovers'
    BY <1>1, <1>4 DEF IInv, Leftovers, Message
  <1> QED
    BY <1>4, <1>5, <1>6, <1>7 DEF IInv

LEMMA ReceivesOK == ASSUME IInv, Receives PROVE IInv'
  <1> DEFINE p == Head(pipe)
  <1>1. /\ pc = "receiving" /\ cur \in Reqs /\ pipe # <<>> /\ pipe' = Tail(pipe)
        /\ wire' = wire /\ work' = work /\ cur' = cur /\ invalid' = invalid /\ stopped' = stopped
        /\ Message(cur) \in contexts
    BY DEF IInv, UnderWay, Receives
  <1>2. /\ p \in [kind : {"chunk", "last", "done", "error"}, of : Reqs, context : Messages \cup {NoContext}]
        /\ 1 \in DOMAIN pipe /\ pipe[1] = p
        /\ pipe' \in Seq([kind : {"chunk", "last", "done", "error"}, of : Reqs,
                          context : Messages \cup {NoContext}])
        /\ \A i \in DOMAIN pipe' : i \in Nat /\ i >= 1 /\ i + 1 \in DOMAIN pipe /\ pipe'[i] = pipe[i + 1]
    <2> DEFINE P == [kind : {"chunk", "last", "done", "error"}, of : Reqs,
                     context : Messages \cup {NoContext}]
    <2>1. pipe \in Seq(P)
      BY DEF IInv, TypeOK
    <2> HIDE DEF P
    <2>2. p \in P /\ pipe' \in Seq(P) /\ 1 \in DOMAIN pipe /\ pipe[1] = p
      BY <1>1, <2>1
    <2>3. \A i \in DOMAIN pipe' : i \in Nat /\ i >= 1 /\ i + 1 \in DOMAIN pipe /\ pipe'[i] = pipe[i + 1]
      BY <1>1, <2>1
    <2> QED
      BY <2>2, <2>3 DEF P
  <1>3. Pending(p.of) /\ \A r : Pending(r)' => Pending(r)
    BY <1>1, <1>2 DEF Pending
  <1>4. Answered'
    <2>1. \A i \in DOMAIN pipe' : pipe'[i].kind # "error" => pipe'[i].context = Message(pipe'[i].of)
      BY <1>2 DEF IInv, Answered
    <2>2. ASSUME NEW i \in DOMAIN pipe', pipe'[i].kind \in {"last", "done"}
          PROVE  /\ \A u \in work : u.req # pipe'[i].of
                 /\ \A j \in DOMAIN pipe' : j > i => pipe'[j].of # pipe'[i].of
      BY <1>2, <2>2, SMTT(40) DEF IInv, Answered
    <2> QED
      BY <1>1, <2>1, <2>2 DEF IInv, Answered, Message
  \* What is not foreign is of the sentence being synthesized.
  <1>5. p.kind # "error" /\ ~Foreign(p) => p.of = cur
    BY <1>1, <1>2, <1>3, MessageOK DEF IInv, Answered, Foreign, Leftovers
  <1>6. p.kind \in {"last", "done"} => \A r : Pending(r)' => r # p.of
    BY <1>1, <1>2 DEF IInv, Answered, Pending
  <1>7. \/ /\ pc' = "receiving" /\ contexts' = contexts
        \/ /\ pc' = "idle" /\ contexts' = contexts \ {Message(cur)} /\ (stopped \/ \A r : Pending(r)' => r # cur)
        \/ /\ pc' = "leaving" /\ contexts' = contexts /\ Message(cur) \in invalid
        \/ /\ pc' = "failed" /\ contexts' = contexts
    BY <1>2, <1>5, <1>6 DEF Receives, Chunk, After, ReadOn, Ends
  <1>8. /\ \/ cancelled' = cancelled /\ ignored' = ignored /\ telling' = telling
           \/ /\ cancelled' = cancelled \cup {Message(cur)} /\ ignored' = ignored \cup {Message(cur)}
              /\ telling' = telling \cup {Message(cur)} /\ Message(cur) \in invalid
        /\ first' \in BOOLEAN
        /\ voiced' = voiced \/ voiced' = voiced \cup {[req |-> cur, of |-> cur]}
    BY <1>1, <1>2, <1>5 DEF IInv, TypeOK, Receives, Chunk
  <1>9. TypeOK'
    <2>1. pc' \in {"idle", "receiving", "leaving", "failed"} /\ contexts' \subseteq Messages
      BY <1>7 DEF IInv, TypeOK
    <2>2. telling' \subseteq ignored' /\ ignored' \subseteq cancelled' /\ cancelled' \subseteq invalid
      BY <1>8 DEF IInv, TypeOK
    <2>3. voiced' \subseteq [req : Reqs, of : Reqs]
      BY <1>1, <1>8 DEF IInv, TypeOK
    <2> QED
      BY <1>1, <1>2, <1>8, <2>1, <2>2, <2>3 DEF IInv, TypeOK
  <1>10. UnderWay' /\ CancelIsHeeded' /\ OwnAudio'
    BY <1>1, <1>7, <1>8 DEF IInv, UnderWay, CancelIsHeeded, OwnAudio, Message
  <1>11. Leftovers'
    <2> SUFFICES ASSUME NEW r \in Reqs, Pending(r)'
                 PROVE  /\ r <= cur
                        /\ pc' = "receiving" /\ Message(r) = Message(cur) => r = cur
                        /\ stopped \/ pc' = "failed" \/ Message(r) \in invalid
                              \/ (r = cur /\ pc' = "receiving")
      BY <1>1, <1>7 DEF Leftovers, Message
    <2>1. /\ r <= cur /\ (Message(r) = Message(cur) => r = cur)
          /\ stopped \/ Message(r) \in invalid \/ r = cur
      BY <1>1, <1>3 DEF IInv, Leftovers
    <2> QED
      BY <1>7, <2>1
  <1> QED
    BY <1>4, <1>9, <1>10, <1>11 DEF IInv

-----------------------------------------------------------------------------
(* The invariant, and what follows from it.                                 *)

LEMMA StepOK == IInv /\ [Next]_vars => IInv'
  <1> SUFFICES ASSUME IInv, [Next]_vars PROVE IInv'
    OBVIOUS
  <1>1. CASE UNCHANGED vars
    BY <1>1 DEF vars, svcVars, idVars, IInv, TypeOK, UnderWay, Leftovers, Pending, Answered,
                OwnAudio, CancelIsHeeded, Message
  <1>2. CASE Next
    BY <1>2, LoopOK, OthersOK, BeginOK, SendsOK, AnswersOK, ReceivesOK DEF Next, Synthesis
  <1> QED
    BY <1>1, <1>2

LEMMA Always == Spec => []IInv
  BY InitOK, StepOK, PTL DEF Spec

\* The variables keep their types in every behaviour.
THEOREM TypesHold == Spec => []TypeOK
  <1>1. IInv => TypeOK
    BY DEF IInv
  <1> QED
    BY <1>1, Always, PTL

\* Audio is never passed on for another sentence than it was made of, however
\* many messages, sentences and payloads are under way and however messages are
\* cut: no sentence of a message is taken up while a payload of an earlier one
\* is still to come.
THEOREM OwnAudioHolds == Spec => []OwnAudio
  <1>1. IInv => OwnAudio
    BY DEF IInv
  <1> QED
    BY <1>1, Always, PTL

\* A cancel() of the message being synthesized finds its context and makes the
\* synthesis ignore it, whenever it comes.
THEOREM CancelIsHeededHolds == Spec => []CancelIsHeeded
  <1>1. IInv => CancelIsHeeded
    BY DEF IInv
  <1> QED
    BY <1>1, Always, PTL
=============================================================================
