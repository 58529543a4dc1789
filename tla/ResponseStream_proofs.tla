------------------------ MODULE ResponseStream_proofs ------------------------
(***************************************************************************)
(* Proofs about ResponseStream, for every value of its constants.           *)
(***************************************************************************)
EXTENDS ResponseStream, Integers, TLAPS

(***************************************************************************)
(* The inductive invariant.                                                 *)
(***************************************************************************)

\* What stream_response has yielded, against what the model has made.
Counts ==
    /\ pc \in {"new", "asking", "waiting"} => made = heard
    /\ pc = "arrived" => made = heard + 1 /\ hand.n = made
    /\ after = 0 \/ (after = 1 /\ pc = "over")

\* A chunk is awaited by the loop, or by nobody; a task that left the response
\* has cancelled it, and it takes none that awaits a chunk along.
Awaited ==
    /\ pulling => pc \in {"waiting", "over"}
    /\ task = "left" => cancelled /\ ~pulling
    /\ task \in {"ended", "cancelled"} => pc = "over"
    /\ NothingPullsOnAfterwards

\* The task ends on the marker, with nothing behind it.
Ending ==
    /\ task = "ended" => buffer = <<>> /\ queue = <<>>
    /\ endSent => task = "ended"

\* The tokens of a response that is read, or was read to the end, are numbered
\* through what is spoken, buffered and queued, and none is missing.
Tally ==
    /\ task \in {"reading", "ended"} =>
         /\ Len(spoken) + Len(buffer) + Len(queue) = heard + (IF EofDue THEN 1 ELSE 0)
         /\ \A i \in DOMAIN spoken : spoken[i].n = i
         /\ \A i \in DOMAIN buffer : buffer[i].n = Len(spoken) + i
         /\ \A i \in DOMAIN queue : queue[i] = Eof \/ queue[i].n = Len(spoken) + Len(buffer) + i
    /\ endSent => pc = "over" /\ Len(spoken) = heard

IInv == TypeOK /\ Counts /\ Awaited /\ Ending /\ Tally

-----------------------------------------------------------------------------
(* Tokens and the queue.                                                    *)

LEMMA TokenOK == ASSUME NEW t \in Tokens PROVE t # Eof /\ t.n \in 1..MaxTokens /\ MaxTokens \in Nat
  BY StreamAssumption DEF Tokens, Eof

\* The tokens on the way, by their numbers: those of some text from the n-th on.
Numbered(text, n) == \A i \in DOMAIN text : text[i] = Eof \/ text[i].n = n + i

\* While the task reads, the three sequences are numbered through.
LEMMA Facts ==
  ASSUME IInv
  PROVE  /\ queue \in Seq(Tokens \cup {Eof}) /\ buffer \in Seq(Tokens) /\ spoken \in Seq(Tokens)
         /\ Len(queue) \in Nat /\ Len(buffer) \in Nat /\ Len(spoken) \in Nat
         /\ made \in Nat /\ heard \in Nat /\ heard <= made /\ made <= MaxTokens /\ MaxTokens \in Nat
         /\ task \in {"reading", "ended"} =>
              /\ Len(spoken) + Len(buffer) + Len(queue) = heard + (IF EofDue THEN 1 ELSE 0)
              /\ Numbered(spoken, 0) /\ Numbered(buffer, Len(spoken))
              /\ Numbered(queue, Len(spoken) + Len(buffer))
  <1>1. /\ queue \in Seq(Tokens \cup {Eof}) /\ buffer \in Seq(Tokens) /\ spoken \in Seq(Tokens)
        /\ made \in 0..MaxTokens /\ heard \in 0..made /\ MaxTokens \in Nat
    BY StreamAssumption DEF IInv, TypeOK
  <1>2. task \in {"reading", "ended"} =>
          Numbered(spoken, 0) /\ Numbered(buffer, Len(spoken)) /\ Numbered(queue, Len(spoken) + Len(buffer))
    BY <1>1 DEF IInv, Tally, Numbered
  <1>3. task \in {"reading", "ended"} =>
          Len(spoken) + Len(buffer) + Len(queue) = heard + (IF EofDue THEN 1 ELSE 0)
    BY DEF IInv, Tally
  <1> QED
    BY <1>1, <1>2, <1>3

LEMMA InitOK == Init => IInv
  <1> SUFFICES ASSUME Init PROVE IInv
    OBVIOUS
  <1>1. /\ made \in 0..MaxTokens /\ heard \in 0..made /\ queue \in Seq(Tokens \cup {Eof})
        /\ buffer \in Seq(Tokens) /\ spoken \in Seq(Tokens) /\ after \in Nat
    BY StreamAssumption DEF Init
  <1>5. /\ pc \in {"new", "asking", "waiting", "arrived", "over"} /\ hand \in Tokens \cup {Eof}
        /\ task \in {"reading", "closing", "ended", "left", "cancelled"}
    BY DEF Init
  <1>6. /\ pulling \in BOOLEAN /\ cancelled \in BOOLEAN /\ stopped \in BOOLEAN /\ failed \in BOOLEAN
        /\ valid \in BOOLEAN /\ endSent \in BOOLEAN
    BY DEF Init
  <1>7. (hand # Eof) <=> (pc = "arrived")
    BY DEF Init
  <1>8. \A i \in DOMAIN queue : queue[i] = Eof => i = Len(queue) /\ pc = "over"
    BY DEF Init
  <1>2. TypeOK
    BY <1>1, <1>5, <1>6, <1>7, <1>8 DEF TypeOK
  <1>3. Counts /\ Awaited /\ Ending
    BY DEF Init, Counts, Awaited, Ending, NothingPullsOnAfterwards
  <1>4. Tally
    BY DEF Init, Tally, EofDue
  <1> QED
    BY <1>2, <1>3, <1>4 DEF IInv

\* The end of the stream, whoever brings it about: the marker joins the queue.
LEMMA OverOK ==
  ASSUME IInv, pc # "over", Over, UNCHANGED <<buffer, spoken, task, endSent, heard, made>>
  PROVE  /\ queue' \in Seq(Tokens \cup {Eof})
         /\ \A i \in DOMAIN queue' : queue'[i] = Eof => i = Len(queue')
         /\ Tally' /\ Ending'
  <1>1. queue' \in Seq(Tokens \cup {Eof}) /\ Len(queue') = Len(queue) + 1 /\ queue'[Len(queue) + 1] = Eof
        /\ \A i \in 1..Len(queue) : queue'[i] = queue[i]
        /\ DOMAIN queue' = 1..(Len(queue) + 1) /\ DOMAIN queue = 1..Len(queue)
    BY Facts DEF Over
  <1>2. \A i \in 1..Len(queue) : queue[i] # Eof
    BY <1>1 DEF IInv, TypeOK
  <1>3. task # "ended"
    BY DEF IInv, Awaited
  <1>4. Ending'
    BY <1>3 DEF IInv, Ending
  <1>5. ASSUME task = "reading"
        PROVE  Len(spoken) + Len(buffer) + Len(queue') = heard + 1 /\ EofDue'
    <2>1. Len(spoken) + Len(buffer) + Len(queue) = heard
      BY <1>5, Facts DEF EofDue
    <2> QED
      BY <1>1, <1>5, <2>1, Facts DEF EofDue, Over
  <1>6. task = "reading" => Numbered(queue, Len(spoken) + Len(buffer))
    BY Facts
  <1>7. task = "reading" => \A i \in DOMAIN queue' : queue'[i] = Eof \/ queue'[i].n = Len(spoken) + Len(buffer) + i
    BY <1>1, <1>6 DEF Numbered
  <1>8. Tally'
    BY <1>3, <1>5, <1>7 DEF IInv, Tally, Ending
  <1> QED
    BY <1>1, <1>2, <1>4, <1>8

-----------------------------------------------------------------------------
(* stream_response and the producer.                                        *)

\* A step that ends the stream, and leaves the task alone.
LEMMA EndsOK ==
  ASSUME IInv, pc # "over", Over, UNCHANGED <<taskVars, valid, made, cancelled, stopped>>,
         heard' = heard, after' = after,
         pulling' \in BOOLEAN, failed' \in BOOLEAN, hand' = Eof,
         pulling' => pulling /\ (pc = "waiting" => task = "closing")
  PROVE  IInv'
  <1>1. /\ queue' \in Seq(Tokens \cup {Eof})
        /\ \A i \in DOMAIN queue' : queue'[i] = Eof => i = Len(queue')
        /\ Tally' /\ Ending'
    BY OverOK DEF taskVars
  <1>2. pc' = "over"
    BY DEF Over
  <1>3. TypeOK'
    BY <1>1, <1>2 DEF IInv, TypeOK, taskVars
  <1>4. Counts'
    BY <1>2 DEF IInv, Counts
  <1>5. Awaited'
    BY <1>2 DEF IInv, Awaited, NothingPullsOnAfterwards, taskVars
  <1> QED
    BY <1>1, <1>3, <1>4, <1>5 DEF IInv

\* A step that leaves the queue and the task alone and goes on with the stream.
LEMMA GoesOnOK ==
  ASSUME IInv, pc # "over", pc' # "over", UNCHANGED <<queue, taskVars, valid, heard, cancelled, stopped, after, failed>>,
         pc' \in {"asking", "waiting", "arrived"}, pulling' \in BOOLEAN, made' \in heard..MaxTokens,
         hand' \in Tokens \cup {Eof}, (hand' # Eof) <=> (pc' = "arrived"),
         pc' \in {"asking", "waiting"} => made' = heard,
         pc' = "arrived" => made' = heard + 1 /\ hand'.n = made',
         pulling' => pc' = "waiting" /\ task # "left"
  PROVE  IInv'
  <1>1. TypeOK'
    <2>1. heard \in 0..made' /\ made' \in 0..MaxTokens
      BY Facts
    <2> QED
      BY <2>1 DEF IInv, TypeOK, taskVars
  <1>2. Counts' /\ Awaited' /\ Ending'
    BY DEF IInv, Counts, Awaited, Ending, NothingPullsOnAfterwards, taskVars
  <1>3. Tally'
    BY DEF IInv, Tally, EofDue, taskVars, Ending
  <1> QED
    BY <1>1, <1>2, <1>3 DEF IInv

LEMMA ReadOnOK ==
  ASSUME IInv, pc = "asking", ReadOn, UNCHANGED <<hand, made, heard, cancelled, stopped, failed, after, taskVars, valid>>
  PROVE  IInv'
  <1>1. /\ hand = Eof /\ made = heard /\ made \in heard..MaxTokens /\ pulling = FALSE
        /\ pulling \in BOOLEAN /\ failed \in BOOLEAN
    BY Facts DEF IInv, TypeOK, Counts, Awaited
  <1>2. CASE Wanted
    <2>1. /\ pc' = "waiting" /\ pulling' = TRUE /\ queue' = queue /\ task # "left"
      BY <1>2 DEF IInv, ReadOn, Wanted, Awaited
    <2> QED
      BY <1>1, <2>1, GoesOnOK
  <1>3. CASE ~Wanted
    <2>1. Over /\ pulling' = pulling
      BY <1>3 DEF ReadOn
    <2> QED
      BY <1>1, <2>1, EndsOK
  <1> QED
    BY <1>2, <1>3

LEMMA ChunkOK == ASSUME IInv, Chunk PROVE IInv'
  <1>1. /\ made' = made + 1 /\ made' \in 0..MaxTokens /\ pulling' = FALSE /\ heard \in 0..made'
        /\ UNCHANGED <<heard, cancelled, stopped, failed, after, queue, taskVars, valid>>
        /\ pc \in {"waiting", "over"}
    BY Facts DEF IInv, Awaited, Chunk
  <1>2. CASE pc = "waiting"
    <2>1. PICK m \in Marks : hand' = [n |-> made', mark |-> m]
      BY <1>2 DEF Chunk
    <2>2. hand' \in Tokens /\ hand' # Eof /\ hand'.n = made'
      BY <1>1, <2>1, Facts, TokenOK DEF Tokens
    <2>3. pc' = "arrived" /\ made' = heard + 1
      BY <1>1, <1>2 DEF Chunk, IInv, Counts
    <2>4. made' \in heard..MaxTokens
      BY <1>1, <2>3, Facts
    <2> QED
      BY <1>1, <1>2, <2>2, <2>3, <2>4, GoesOnOK
  <1>3. CASE pc = "over"
    <2>1. pc' = pc /\ hand' = hand
      BY <1>3 DEF Chunk
    <2>2. TypeOK'
      BY <1>1, <2>1 DEF IInv, TypeOK, taskVars
    <2>3. Counts' /\ Awaited' /\ Ending'
      BY <1>1, <1>3, <2>1 DEF IInv, Counts, Awaited, Ending, NothingPullsOnAfterwards, taskVars
    <2>4. Tally'
      BY <1>1, <2>1 DEF IInv, Tally, EofDue, taskVars
    <2> QED
      BY <2>2, <2>3, <2>4 DEF IInv
  <1> QED
    BY <1>1, <1>2, <1>3

LEMMA ResumesOK == ASSUME IInv, Resumes PROVE IInv'
  <1>1. /\ pc = "arrived" /\ hand' = Eof /\ made' = made /\ cancelled' = cancelled /\ stopped' = stopped
        /\ failed' = failed /\ valid' = valid /\ buffer' = buffer /\ spoken' = spoken
        /\ task' = task /\ endSent' = endSent
    BY DEF Resumes, taskVars
  <1>2. /\ hand \in Tokens /\ hand.n = heard + 1 /\ made = heard + 1 /\ hand # Eof
        /\ pulling = FALSE /\ after = 0 /\ task # "ended" /\ (task = "left" => cancelled)
        /\ failed \in BOOLEAN /\ cancelled \in BOOLEAN
    BY <1>1 DEF IInv, TypeOK, Counts, Awaited
  <1>3. \A i \in DOMAIN queue : queue[i] # Eof
    BY <1>1 DEF IInv, TypeOK
  <1>4. Ending' /\ endSent = FALSE
    BY <1>1, <1>2 DEF IInv, TypeOK, Ending
  <1>5. CASE cancelled /\ Over /\ UNCHANGED <<heard, after, pulling>>
    BY <1>1, <1>2, <1>5, EndsOK DEF taskVars
  <1>6. CASE /\ heard' = hand.n /\ Wanted /\ after' = (IF cancelled THEN after + 1 ELSE after)
             /\ pc' = "waiting" /\ pulling' = TRUE /\ queue' = Append(queue, hand)
    <2>1. after' = 0 /\ task # "left"
      BY <1>2, <1>6 DEF Wanted
    <2>2. /\ queue' \in Seq(Tokens \cup {Eof}) /\ DOMAIN queue = 1..Len(queue)
          /\ DOMAIN queue' = 1..(Len(queue) + 1) /\ Len(queue') = Len(queue) + 1
          /\ \A i \in 1..Len(queue) : queue'[i] = queue[i]
          /\ queue'[Len(queue) + 1] = hand
      BY <1>2, <1>6, Facts
    <2>3. \A i \in DOMAIN queue' : queue'[i] # Eof
      BY <1>2, <1>3, <2>2
    <2>4. heard' = heard + 1 /\ heard' \in 0..made' /\ made' \in 0..MaxTokens
      BY <1>1, <1>2, <1>6, Facts
    <2>5. TypeOK'
      BY <1>1, <1>6, <2>1, <2>2, <2>3, <2>4 DEF IInv, TypeOK
    <2>6. Counts' /\ Awaited'
      BY <1>1, <1>2, <1>6, <2>1, <2>4 DEF IInv, Counts, Awaited, NothingPullsOnAfterwards
    <2>7. ASSUME task = "reading"
          PROVE  /\ Len(spoken) + Len(buffer) + Len(queue') = heard'
                 /\ \A i \in DOMAIN queue' : queue'[i].n = Len(spoken) + Len(buffer) + i
      <3>1. Len(spoken) + Len(buffer) + Len(queue) = heard /\ Numbered(queue, Len(spoken) + Len(buffer))
        BY <1>1, <2>7, Facts DEF EofDue
      <3>2. Len(spoken) + Len(buffer) + Len(queue') = heard'
        BY <2>2, <2>4, <3>1, Facts
      <3>3. ASSUME NEW i \in DOMAIN queue' PROVE queue'[i].n = Len(spoken) + Len(buffer) + i
        <4>1. CASE i \in 1..Len(queue)
          BY <4>1, <1>3, <2>2, <3>1 DEF Numbered
        <4>2. CASE i = Len(queue) + 1
          BY <4>2, <1>2, <2>2, <3>1, Facts
        <4> QED
          BY <4>1, <4>2, <2>2, Facts
      <3> QED
        BY <3>2, <3>3
    <2>8. Tally'
      BY <1>1, <1>2, <1>4, <1>6, <2>7 DEF IInv, Tally, EofDue
    <2> QED
      BY <1>4, <2>5, <2>6, <2>8 DEF IInv
  <1>7. CASE /\ heard' = hand.n /\ after' = (IF cancelled THEN after + 1 ELSE after)
             /\ pc' = "over" /\ queue' = queue \o <<hand, Eof>> /\ pulling' = pulling
    <2>1. after' \in {0, 1}
      BY <1>2, <1>7
    <2>2. /\ queue' \in Seq(Tokens \cup {Eof}) /\ DOMAIN queue = 1..Len(queue)
          /\ DOMAIN queue' = 1..(Len(queue) + 2) /\ Len(queue') = Len(queue) + 2
          /\ \A i \in 1..Len(queue) : queue'[i] = queue[i]
          /\ queue'[Len(queue) + 1] = hand /\ queue'[Len(queue) + 2] = Eof
      BY <1>2, <1>7, Facts
    <2>3. \A i \in DOMAIN queue' : queue'[i] = Eof => i = Len(queue')
      BY <1>2, <1>3, <2>2, Facts
    <2>4. heard' = heard + 1 /\ heard' \in 0..made' /\ made' \in 0..MaxTokens
      BY <1>1, <1>2, <1>7, Facts
    <2>5. TypeOK'
      BY <1>1, <1>2, <1>7, <2>1, <2>2, <2>3, <2>4 DEF IInv, TypeOK
    <2>6. Counts' /\ Awaited'
      BY <1>1, <1>2, <1>7, <2>1, <2>4 DEF IInv, Counts, Awaited, NothingPullsOnAfterwards
    <2>7. ASSUME task = "reading"
          PROVE  /\ Len(spoken) + Len(buffer) + Len(queue') = heard' + 1
                 /\ \A i \in DOMAIN queue' : queue'[i] = Eof \/ queue'[i].n = Len(spoken) + Len(buffer) + i
      <3>1. Len(spoken) + Len(buffer) + Len(queue) = heard /\ Numbered(queue, Len(spoken) + Len(buffer))
        BY <1>1, <2>7, Facts DEF EofDue
      <3>2. Len(spoken) + Len(buffer) + Len(queue') = heard' + 1
        BY <2>2, <2>4, <3>1, Facts
      <3>3. ASSUME NEW i \in DOMAIN queue' PROVE queue'[i] = Eof \/ queue'[i].n = Len(spoken) + Len(buffer) + i
        <4>1. CASE i \in 1..Len(queue)
          BY <4>1, <1>3, <2>2, <3>1 DEF Numbered
        <4>2. CASE i = Len(queue) + 1
          BY <4>2, <1>2, <2>2, <3>1, Facts
        <4>3. CASE i = Len(queue) + 2
          BY <4>3, <2>2
        <4>4. i \in 1..(Len(queue) + 2) /\ Len(queue) \in Nat
          BY <2>2, Facts
        <4> QED
          BY <4>1, <4>2, <4>3, <4>4
      <3> QED
        BY <3>2, <3>3
    <2>8. Tally'
      BY <1>1, <1>2, <1>4, <1>7, <2>7 DEF IInv, Tally, EofDue
    <2> QED
      BY <1>4, <2>5, <2>6, <2>8 DEF IInv
  <1> QED
    BY <1>5, <1>6, <1>7 DEF Resumes

LEMMA ProducerOK ==
  ASSUME IInv, Begin \/ Answered \/ Chunk \/ Resumes \/ StreamEnds \/ Fails \/ ProducerCancelled
  PROVE  IInv'
  <1>1. pulling \in BOOLEAN /\ failed \in BOOLEAN
    BY DEF IInv, TypeOK
  <1>2. CASE Begin
    <2>1. /\ pc = "new" /\ hand = Eof /\ made = heard /\ made \in heard..MaxTokens /\ ~pulling
          /\ UNCHANGED <<pulling, hand, made, heard, cancelled, stopped, failed, after, taskVars, valid>>
      BY <1>2, Facts DEF IInv, TypeOK, Counts, Awaited, Begin
    <2>2. CASE stopped
      BY <1>1, <1>2, <2>1, <2>2, EndsOK DEF Begin
    <2>3. CASE ~stopped
      <3>1. pc' = "asking" /\ queue' = queue
        BY <1>2, <2>3 DEF Begin
      <3> QED
        BY <1>1, <2>1, <3>1, GoesOnOK
    <2> QED
      BY <2>2, <2>3
  <1>3. CASE Answered
    BY <1>3, ReadOnOK DEF Answered
  <1>4. CASE StreamEnds
    <2>1. hand = Eof
      BY <1>4 DEF IInv, TypeOK, StreamEnds
    <2> QED
      BY <1>1, <1>4, <2>1, EndsOK DEF StreamEnds
  <1>5. CASE Fails
    <2>1. hand = Eof
      BY <1>5 DEF IInv, TypeOK, Fails
    <2> QED
      BY <1>1, <1>5, <2>1, EndsOK DEF Fails
  <1>6. CASE ProducerCancelled
    <2>1. pulling => task = "closing"
      BY <1>6 DEF IInv, Awaited, ProducerCancelled
    <2> QED
      BY <1>1, <1>6, <2>1, EndsOK DEF ProducerCancelled
  <1> QED
    BY <1>2, <1>3, <1>4, <1>5, <1>6, ChunkOK, ResumesOK

-----------------------------------------------------------------------------
(* The aggregator and the response task.                                    *)

LEMMA MovesUp ==
  ASSUME NEW s \in Nat, NEW b \in Nat, NEW t \in Nat, NEW r \in Nat, NEW i \in Nat, t + r = b + 1
  PROVE  s + t + r + i = s + b + 1 + i
  OBVIOUS

\* A text is emitted: numbered on from what is spoken, with the rest and the
\* queue numbered on from it.
LEMMA EmitOK ==
  ASSUME IInv, task = "reading",
         NEW text \in Seq(Tokens), NEW rest \in Seq(Tokens), NEW eof \in BOOLEAN,
         Emit(text, rest, eof), UNCHANGED <<pc, hand, made, heard, stopped, failed, after, valid>>,
         queue' \in Seq(Tokens \cup {Eof}),
         \A i \in DOMAIN queue' : queue'[i] = Eof => i = Len(queue') /\ pc = "over",
         Numbered(text, Len(spoken)), Numbered(rest, Len(spoken) + Len(text)),
         \A i \in DOMAIN queue' : queue'[i] = Eof \/ queue'[i].n = Len(spoken) + Len(text) + Len(rest) + i,
         Len(spoken) + Len(text) + Len(rest) + Len(queue') = heard + (IF pc = "over" /\ ~eof THEN 1 ELSE 0),
         eof => pc = "over" /\ rest = <<>> /\ queue' = <<>>
  PROVE  IInv'
  <1>1. endSent = FALSE /\ valid \in BOOLEAN /\ pulling \in BOOLEAN /\ cancelled \in BOOLEAN
    BY DEF IInv, TypeOK, Ending
  <1>2. ~(pc = "over" /\ pulling)
    BY DEF IInv, Awaited, NothingPullsOnAfterwards
  <1>3. Counts'
    BY DEF IInv, Counts
  <1>4. CASE /\ task' = "left" /\ cancelled' = TRUE /\ UNCHANGED <<spoken, endSent>>
             /\ pulling' = (pulling /\ pc \notin {"asking", "waiting", "arrived"}) /\ buffer' = rest
    <2>1. pulling' = FALSE
      BY <1>2, <1>4 DEF IInv, Awaited
    <2>2. TypeOK'
      BY <1>1, <1>4, <2>1 DEF IInv, TypeOK
    <2>3. Awaited' /\ Ending'
      BY <1>1, <1>4, <2>1 DEF Awaited, Ending, NothingPullsOnAfterwards
    <2>4. Tally'
      BY <1>1, <1>4 DEF Tally
    <2> QED
      BY <1>3, <2>2, <2>3, <2>4 DEF IInv
  <1>5. CASE /\ spoken' = spoken \o text /\ buffer' = rest
             /\ IF eof THEN task' = "ended" /\ endSent' = valid ELSE UNCHANGED <<task, endSent>>
             /\ UNCHANGED <<cancelled, pulling>>
    <2>1. /\ spoken' \in Seq(Tokens) /\ DOMAIN spoken = 1..Len(spoken) /\ DOMAIN text = 1..Len(text)
          /\ DOMAIN spoken' = 1..(Len(spoken) + Len(text)) /\ Len(spoken') = Len(spoken) + Len(text)
          /\ \A i \in 1..Len(spoken) : spoken'[i] = spoken[i]
          /\ \A i \in 1..Len(text) : spoken'[Len(spoken) + i] = text[i]
          /\ Len(text) \in Nat /\ Len(spoken) \in Nat
      BY <1>5, Facts
    <2>2. Numbered(spoken, 0) /\ \A i \in DOMAIN spoken : spoken[i] \in Tokens
      BY Facts
    <2>3. ASSUME NEW i \in DOMAIN spoken' PROVE spoken'[i].n = i
      <3>1. CASE i \in 1..Len(spoken)
        BY <3>1, <2>1, <2>2, TokenOK DEF Numbered
      <3>2. CASE i \notin 1..Len(spoken)
        <4>1. i - Len(spoken) \in 1..Len(text) /\ i = Len(spoken) + (i - Len(spoken))
          BY <3>2, <2>1
        <4>2. spoken'[i] = text[i - Len(spoken)] /\ text[i - Len(spoken)] \in Tokens
          BY <4>1, <2>1
        <4> QED
          BY <4>1, <4>2, <2>1, TokenOK DEF Numbered
      <3> QED
        BY <3>1, <3>2
    <2>4. \A i \in DOMAIN rest : rest[i] \in Tokens /\ rest[i].n = Len(spoken') + i
      BY <2>1, TokenOK DEF Numbered
    <2>5. task' \in {"reading", "ended"} /\ (task' = "ended" <=> eof) /\ endSent' \in BOOLEAN
          /\ (endSent' => task' = "ended")
      BY <1>1, <1>5
    <2>6. TypeOK'
      BY <1>5, <2>1, <2>5 DEF IInv, TypeOK
    <2>7. Awaited' /\ Ending'
      BY <1>2, <1>5, <2>5 DEF IInv, Awaited, Ending, NothingPullsOnAfterwards
    <2>8. Tally'
      <3>1. Len(rest) \in Nat /\ Len(queue') \in Nat /\ heard \in Nat
        BY Facts
      <3>2. EofDue' <=> (pc = "over" /\ ~eof)
        BY <2>5 DEF EofDue
      <3>3. Len(spoken') + Len(buffer') + Len(queue') = heard' + (IF EofDue' THEN 1 ELSE 0)
        BY <1>5, <2>1, <3>1, <3>2
      <3>4. endSent' => pc' = "over" /\ Len(spoken') = heard'
        BY <1>5, <2>1, <2>5, <3>1
      <3>5. \A i \in DOMAIN queue' : queue'[i] = Eof \/ queue'[i].n = Len(spoken') + Len(buffer') + i
        BY <1>5, <2>1
      <3> QED
        BY <1>5, <2>3, <2>4, <3>3, <3>4, <3>5 DEF Tally
    <2> QED
      BY <1>3, <2>6, <2>7, <2>8 DEF IInv
  <1> QED
    BY <1>4, <1>5 DEF Emit

LEMMA ReadsOK == ASSUME IInv, Reads PROVE IInv'
  <1> DEFINE t == Head(queue)
  <1>1. /\ task = "reading" /\ queue # <<>> /\ queue' = Tail(queue)
        /\ UNCHANGED <<pc, hand, made, heard, stopped, failed, after, valid>>
        /\ IF t = Eof THEN Emit(buffer, <<>>, TRUE) ELSE Add(t)
    BY DEF Reads
  <1>2. /\ t \in Tokens \cup {Eof} /\ queue[1] = t /\ Len(queue) >= 1 /\ 1 \in DOMAIN queue
        /\ queue' \in Seq(Tokens \cup {Eof}) /\ Len(queue') = Len(queue) - 1 /\ DOMAIN queue = 1..Len(queue)
        /\ \A i \in DOMAIN queue' : i \in Nat /\ i + 1 \in DOMAIN queue /\ queue'[i] = queue[i + 1]
    BY <1>1, Facts
  <1>3. /\ Len(spoken) + Len(buffer) + Len(queue) = heard + (IF pc = "over" THEN 1 ELSE 0)
        /\ Numbered(buffer, Len(spoken)) /\ Numbered(queue, Len(spoken) + Len(buffer))
    BY <1>1, Facts DEF EofDue
  <1>4. \A i \in DOMAIN queue' : queue'[i] = Eof => i = Len(queue') /\ pc = "over"
    BY <1>2, Facts DEF IInv, TypeOK
  <1>5. /\ Len(buffer) \in Nat /\ Len(spoken) \in Nat /\ Len(queue) \in Nat /\ heard \in Nat
        /\ buffer \in Seq(Tokens)
    BY Facts
  <1>10. Len(queue') \in Nat /\ Len(queue') = Len(queue) - 1
    BY <1>2, <1>5
  <1>11. Len(spoken) + Len(buffer) + 1 + Len(queue') = heard + (IF pc = "over" THEN 1 ELSE 0)
    BY <1>3, <1>5, <1>10
  <1>6. ASSUME NEW i \in DOMAIN queue'
        PROVE  queue'[i] = Eof \/ queue'[i].n = Len(spoken) + Len(buffer) + 1 + i
    <2>1. i \in Nat /\ i + 1 \in DOMAIN queue /\ queue'[i] = queue[i + 1]
      BY <1>2
    <2>2. queue[i + 1] = Eof \/ queue[i + 1].n = Len(spoken) + Len(buffer) + (i + 1)
      BY <1>3, <2>1 DEF Numbered
    <2> QED
      BY <1>5, <2>1, <2>2
  <1>7. Numbered(<<>>, Len(spoken)) /\ \A n : Numbered(<<>>, n)
    BY DEF Numbered
  <1>8. CASE t = Eof
    <2>1. Len(queue) = 1 /\ pc = "over"
      BY <1>2, <1>8 DEF IInv, TypeOK
    <2>2. queue' = <<>>
      BY <1>2, <2>1
    <2>3. Emit(buffer, <<>>, TRUE)
      BY <1>1, <1>8
    <2>5. <<>> \in Seq(Tokens) /\ Len(<<>>) = 0
      OBVIOUS
    <2>4. Len(spoken) + Len(buffer) + Len(<<>>) + Len(queue')
            = heard + (IF pc = "over" /\ ~TRUE THEN 1 ELSE 0)
      BY <1>5, <1>10, <1>11, <2>1, <2>5
    <2>6. /\ \A i \in DOMAIN queue' : queue'[i] = Eof => i = Len(queue') /\ pc = "over"
          /\ \A i \in DOMAIN queue' : \/ queue'[i] = Eof
                                      \/ queue'[i].n = Len(spoken) + Len(buffer) + Len(<<>>) + i
      BY <2>2
    <2>7. Numbered(<<>>, Len(spoken) + Len(buffer)) /\ Numbered(buffer, Len(spoken))
      BY <1>3 DEF Numbered
    <2> HIDE DEF t
    <2> QED
      BY <1>1, <1>2, <1>5, <2>1, <2>2, <2>3, <2>4, <2>5, <2>6, <2>7, EmitOK
  <1>9. CASE t # Eof
    <2> DEFINE whole == Append(buffer, t)
    <2>1. t \in Tokens /\ Add(t) /\ t.n = Len(spoken) + Len(buffer) + 1
      BY <1>1, <1>2, <1>3, <1>5, <1>9 DEF Numbered
    <2>2. /\ whole \in Seq(Tokens) /\ Len(whole) = Len(buffer) + 1 /\ DOMAIN whole = 1..(Len(buffer) + 1)
          /\ \A i \in 1..Len(buffer) : whole[i] = buffer[i]
          /\ whole[Len(buffer) + 1] = t /\ DOMAIN buffer = 1..Len(buffer)
      BY <1>5, <2>1
    <2>3. \A i \in DOMAIN whole : whole[i] \in Tokens /\ whole[i].n = Len(spoken) + i
      <3> SUFFICES ASSUME NEW i \in DOMAIN whole PROVE whole[i] \in Tokens /\ whole[i].n = Len(spoken) + i
        OBVIOUS
      <3>1. CASE i \in 1..Len(buffer)
        BY <3>1, <1>3, <1>5, <2>2, TokenOK DEF Numbered
      <3>2. CASE i = Len(buffer) + 1
        BY <3>2, <1>5, <2>1, <2>2
      <3> QED
        BY <3>1, <3>2, <2>2, <1>5
    <2> HIDE DEF whole
    <2>4. ASSUME NEW text \in Seq(Tokens), NEW rest \in Seq(Tokens), Emit(text, rest, FALSE),
                 Len(text) + Len(rest) = Len(whole),
                 Numbered(text, Len(spoken)), Numbered(rest, Len(spoken) + Len(text))
          PROVE  IInv'
      <3>1. Len(text) \in Nat /\ Len(rest) \in Nat /\ Len(text) + Len(rest) = Len(buffer) + 1
        BY <2>2, <2>4
      <3>2. Len(spoken) + Len(text) + Len(rest) + Len(queue') = heard + (IF pc = "over" THEN 1 ELSE 0)
        <4>1. PICK a \in Nat, b \in Nat, c \in Nat, d \in Nat, q \in Nat :
                 /\ a = Len(spoken) /\ b = Len(text) /\ c = Len(rest) /\ d = Len(buffer)
                 /\ q = Len(queue')
          BY <1>5, <1>10, <3>1
        <4>2. b + c = d + 1 /\ a + d + 1 + q = heard + (IF pc = "over" THEN 1 ELSE 0)
          BY <1>11, <3>1, <4>1
        <4>3. a + b + c + q = a + d + 1 + q
          BY <4>2, MovesUp
        <4> QED
          BY <4>1, <4>2, <4>3
      <3>3. \A i \in DOMAIN queue' : queue'[i] = Eof \/ queue'[i].n = Len(spoken) + Len(text) + Len(rest) + i
        <4> SUFFICES ASSUME NEW i \in DOMAIN queue'
                     PROVE  queue'[i] = Eof \/ queue'[i].n = Len(spoken) + Len(text) + Len(rest) + i
          OBVIOUS
        <4>1. i \in Nat /\ (queue'[i] = Eof \/ queue'[i].n = Len(spoken) + Len(buffer) + 1 + i)
          BY <1>2, <1>6
        <4>2. Len(spoken) + Len(text) + Len(rest) + i = Len(spoken) + Len(buffer) + 1 + i
          <5>1. PICK a \in Nat, b \in Nat, c \in Nat, d \in Nat :
                   a = Len(spoken) /\ b = Len(text) /\ c = Len(rest) /\ d = Len(buffer)
            BY <1>5, <3>1
          <5>2. b + c = d + 1
            BY <3>1, <5>1
          <5>3. a + b + c + i = a + d + 1 + i
            BY <4>1, <5>2, MovesUp
          <5> QED
            BY <5>1, <5>3
        <4> QED
          BY <4>1, <4>2
      <3> QED
        BY <1>1, <1>2, <1>4, <2>4, <3>2, <3>3, EmitOK
    <2>5. Len(<<>>) = 0 /\ <<>> \in Seq(Tokens) /\ Len(whole) \in Nat
      BY <2>2, <1>5
    <2>6. Numbered(whole, Len(spoken))
      BY <2>3 DEF Numbered
    <2>10. Len(whole) + Len(<<>>) = Len(whole) /\ Len(<<>>) + Len(whole) = Len(whole)
           /\ Len(spoken) + Len(<<>>) = Len(spoken) /\ whole \in Seq(Tokens)
      BY <1>5, <2>2, <2>5
    <2>7. CASE Emit(whole, <<>>, FALSE)
      BY <1>7, <2>4, <2>5, <2>6, <2>7, <2>10
    <2>8. CASE Emit(<<>>, whole, FALSE)
      <3>1. Numbered(whole, Len(spoken) + Len(<<>>))
        BY <2>6, <2>10
      <3> QED
        BY <1>7, <2>4, <2>5, <2>8, <2>10, <3>1
    <2>9. CASE \E k \in 1..Len(whole) : Emit(SubSeq(whole, 1, k), Split(whole, k), FALSE)
      <3>1. PICK k \in 1..Len(whole) : Emit(SubSeq(whole, 1, k), SubSeq(whole, k + 1, Len(whole)), FALSE)
        BY <2>9 DEF Split
      <3> DEFINE text == SubSeq(whole, 1, k)
                 rest == SubSeq(whole, k + 1, Len(whole))
      <3>2. /\ text \in Seq(Tokens) /\ Len(text) = k /\ DOMAIN text = 1..k
            /\ \A i \in 1..k : i \in DOMAIN whole /\ text[i] = whole[i]
        BY <2>2, <2>5
      <3>3. /\ rest \in Seq(Tokens) /\ Len(rest) = Len(whole) - k /\ DOMAIN rest = 1..(Len(whole) - k)
            /\ \A i \in 1..(Len(whole) - k) : k + i \in DOMAIN whole /\ rest[i] = whole[k + i]
        BY <2>2, <2>5
      <3> HIDE DEF text, rest
      <3>4. Numbered(text, Len(spoken))
        BY <2>3, <3>2 DEF Numbered
      <3>5. Numbered(rest, Len(spoken) + Len(text))
        <4> SUFFICES ASSUME NEW i \in 1..(Len(whole) - k)
                     PROVE  rest[i].n = Len(spoken) + Len(text) + i
          BY <3>3 DEF Numbered
        <4>1. rest[i].n = Len(spoken) + (k + i)
          BY <2>3, <3>3
        <4> QED
          BY <1>5, <2>5, <3>2, <4>1
      <3>6. Len(text) + Len(rest) = Len(whole)
        BY <2>5, <3>2, <3>3
      <3>7. Emit(text, rest, FALSE)
        BY <3>1 DEF text, rest
      <3> QED
        BY <2>4, <3>2, <3>3, <3>4, <3>5, <3>6, <3>7
    <2> QED
      BY <2>1, <2>7, <2>8, <2>9 DEF Add, whole
  <1> QED
    BY <1>8, <1>9

LEMMA FlushOK == ASSUME IInv, FlushDue PROVE IInv'
  <1>1. /\ task = "reading" /\ Emit(buffer, <<>>, FALSE) /\ queue' = queue
        /\ UNCHANGED <<pc, hand, made, heard, stopped, failed, after, valid>>
    BY DEF FlushDue
  <1>2. /\ Len(buffer) \in Nat /\ Len(spoken) \in Nat /\ Len(queue) \in Nat /\ heard \in Nat
        /\ buffer \in Seq(Tokens) /\ queue \in Seq(Tokens \cup {Eof})
    BY Facts
  <1>3. <<>> \in Seq(Tokens) /\ Len(<<>>) = 0
    OBVIOUS
  <1>4. Numbered(buffer, Len(spoken)) /\ Numbered(<<>>, Len(spoken) + Len(buffer))
    BY <1>1, Facts DEF Numbered
  <1>5. Len(spoken) + Len(buffer) + Len(<<>>) + Len(queue')
          = heard + (IF pc = "over" /\ ~FALSE THEN 1 ELSE 0)
    BY <1>1, <1>2, <1>3, Facts DEF EofDue
  <1>6. \A i \in DOMAIN queue' : queue'[i] = Eof => i = Len(queue') /\ pc = "over"
    BY <1>1 DEF IInv, TypeOK
  <1>7. \A i \in DOMAIN queue' : queue'[i] = Eof \/ queue'[i].n = Len(spoken) + Len(buffer) + i
    BY <1>1, Facts DEF Numbered
  <1>8. Len(spoken) + Len(buffer) + Len(<<>>) = Len(spoken) + Len(buffer)
    BY <1>2, <1>3
  <1>9. queue' \in Seq(Tokens \cup {Eof})
    BY <1>1, <1>2
  <1> QED
    BY <1>1, <1>2, <1>3, <1>4, <1>5, <1>6, <1>7, <1>8, <1>9, EmitOK, ZenonT(60)

LEMMA TaskOK == ASSUME IInv, Closes \/ Invalidate \/ Cancel \/ Stop \/ CancelTask PROVE IInv'
  <1>1. /\ UNCHANGED <<pc, hand, made, heard, failed, after, queue, buffer, spoken, endSent>>
        /\ cancelled => cancelled'
        /\ task' = task \/ (task = "closing" /\ task' = "cancelled" /\ pc = "over")
                        \/ (task = "reading" /\ task' = "closing")
        /\ pulling' => pulling
    <2>1. CASE Closes
      BY <2>1 DEF Closes
    <2>2. CASE Invalidate \/ CancelTask
      BY <2>2 DEF Invalidate, CancelTask, streamVars, taskVars
    <2>3. CASE Cancel
      BY <2>3 DEF Cancel, CancelChunk, taskVars
    <2>4. CASE Stop
      BY <2>4 DEF Stop, CancelChunk, taskVars
    <2> QED
      BY <2>1, <2>2, <2>3, <2>4
  <1>2. /\ pulling' \in BOOLEAN /\ cancelled' \in BOOLEAN /\ stopped' \in BOOLEAN /\ valid' \in BOOLEAN
    BY DEF IInv, TypeOK, Closes, Invalidate, Cancel, CancelChunk, Stop, CancelTask, streamVars, taskVars
  <1>3. TypeOK'
    BY <1>1, <1>2 DEF IInv, TypeOK
  <1>4. Counts' /\ Ending'
    BY <1>1 DEF IInv, Counts, Ending
  <1>5. Awaited'
    BY <1>1 DEF IInv, Awaited, NothingPullsOnAfterwards
  <1>6. Tally'
    BY <1>1 DEF IInv, Tally, EofDue
  <1> QED
    BY <1>3, <1>4, <1>5, <1>6 DEF IInv

-----------------------------------------------------------------------------
(* The invariant, and what follows from it.                                 *)

LEMMA StepOK == IInv /\ [Next]_vars => IInv'
  <1> SUFFICES ASSUME IInv, [Next]_vars PROVE IInv'
    OBVIOUS
  <1>1. CASE UNCHANGED vars
    <2>1. UNCHANGED <<pc, pulling, hand, made, heard, cancelled, stopped, failed, after, queue,
                      buffer, task, spoken, endSent, valid>>
      BY <1>1 DEF vars, streamVars, taskVars
    <2> QED
      BY <2>1 DEF IInv, TypeOK, Counts, Awaited, Ending, NothingPullsOnAfterwards,
                  Tally, EofDue
  <1>2. CASE Next
    BY <1>2, ProducerOK, ReadsOK, FlushOK, TaskOK DEF Next, Producer, Response, CancelSeen, Timeout
  <1> QED
    BY <1>1, <1>2

LEMMA Always == Spec => []IInv
  BY InitOK, StepOK, PTL DEF Spec

\* The variables keep their types in every behaviour.
THEOREM TypesHold == Spec => []TypeOK
  <1>1. IInv => TypeOK
    BY DEF IInv
  <1> QED
    BY <1>1, Always, PTL

\* Every token yielded is spoken, buffered or queued, once and in order, however
\* long the response, wherever the aggregator cuts it and whoever interferes;
\* and the end is announced behind all of them, but for the last text of a stream
\* that failed.
THEOREM NothingLostHolds == Spec => []NothingLostOnTheWay
  <1>1. IInv => NothingLostOnTheWay
    <2> SUFFICES ASSUME IInv PROVE NothingLostOnTheWay
      OBVIOUS
    <2>1. task \in {"reading", "ended"} => OnTheWay = heard
      BY Facts DEF OnTheWay
    <2> QED
      BY <2>1 DEF IInv, Tally, NothingLostOnTheWay
  <1> QED
    BY <1>1, Always, PTL

\* After the cancel at most the one token that had arrived is yielded.
THEOREM CancelStopsHolds == Spec => []CancelStopsTheStream
  <1>1. IInv => CancelStopsTheStream
    BY DEF IInv, Counts, CancelStopsTheStream
  <1> QED
    BY <1>1, Always, PTL

\* No chunk is awaited for a response that is over, unless its task was cancelled.
THEOREM NothingPullsOnHolds == Spec => []NothingPullsOnAfterwards
  <1>1. IInv => NothingPullsOnAfterwards
    BY DEF IInv, Awaited
  <1> QED
    BY <1>1, Always, PTL
=============================================================================
