--------------------------- MODULE ResponseStream ---------------------------
(***************************************************************************)
(* One response on its way from the model to the speech queue: LiteLLM's    *)
(* stream_response with the task that awaits its next chunk, the producer   *)
(* task of aggregate_token_stream that drives it, the aggregator, and the   *)
(* response task of the session (_run_llm_response), while other tasks      *)
(* invalidate the sequence, cancel the response or the task, or stop the    *)
(* provider.                                                                *)
(*                                                                          *)
(* Lengths are counted in tokens; a token is known by its number and by the *)
(* mark it ends with.  What sanitize_for_speech rewrites, and text that is  *)
(* nothing but blanks, are left out.                                        *)
(***************************************************************************)
EXTENDS Naturals, Sequences

CONSTANTS
    MaxTokens, \* bound: tokens of the response
    MinLen,    \* llm_sentence_min_chars
    MaxLen     \* llm_sentence_max_chars

ASSUME StreamAssumption ==
    MaxTokens \in Nat /\ MinLen \in Nat \ {0} /\ MaxLen \in Nat \ {0} /\ MinLen <= MaxLen

Marks == {"none", "pause", "stop"} \* PAUSE_MARKERS, SENTENCE_ENDINGS
Tokens == [n : 1..MaxTokens, mark : Marks]
Eof == [n |-> 0, mark |-> "none"] \* the None of the producer

VARIABLES
    pc,        \* stream_response: "new", "asking", "waiting", "arrived" or "over"
    pulling,   \* next_chunk_task is pending
    hand,      \* the chunk it has brought
    made,      \* tokens the model has made
    heard,     \* tokens stream_response has yielded
    cancelled, \* the id is in cancelled_response_ids
    stopped,   \* _stopped
    failed,    \* history: the stream ended in an error
    after,     \* history: tokens yielded after the cancel
    queue,     \* from the producer task to the aggregator
    buffer,    \* _buffer of the aggregator
    task,      \* the response task: "reading", "closing", "ended", "left" or "cancelled"
    valid,     \* the sequence is valid
    spoken,    \* tokens put in tts_request
    endSent    \* llm_response_end is put

streamVars == <<pc, pulling, hand, made, heard, cancelled, stopped, failed, after>>
taskVars   == <<buffer, task, spoken, endSent>>
vars == <<streamVars, queue, taskVars, valid>>

Init ==
    /\ pc = "new" /\ pulling = FALSE /\ hand = Eof /\ made = 0 /\ heard = 0
    /\ cancelled = FALSE /\ stopped = FALSE /\ failed = FALSE /\ after = 0
    /\ queue = <<>> /\ buffer = <<>> /\ task = "reading" /\ valid = TRUE
    /\ spoken = <<>> /\ endSent = FALSE

-----------------------------------------------------------------------------
(* stream_response, run by the producer task.                               *)

\* Its finally, and then that of the producer.
Over == pc' = "over" /\ queue' = Append(queue, Eof)

\* Mutant: the loop does not look at cancelled_response_ids.
Wanted_Ignored == ~stopped

Wanted == ~stopped /\ ~cancelled

\* On to the next chunk, with a task that awaits it.
ReadOn ==
    IF Wanted THEN pc' = "waiting" /\ pulling' = TRUE /\ UNCHANGED queue
              ELSE Over /\ UNCHANGED pulling

Begin ==
    /\ pc = "new"
    /\ IF stopped THEN Over ELSE pc' = "asking" /\ UNCHANGED queue
    /\ UNCHANGED <<pulling, hand, made, heard, cancelled, stopped, failed, after, taskVars, valid>>

\* The completion call has returned its stream.
Answered ==
    /\ pc = "asking" /\ ReadOn
    /\ UNCHANGED <<hand, made, heard, cancelled, stopped, failed, after, taskVars, valid>>

\* The model makes a token, also for a task nobody waits for any more.
Chunk ==
    /\ pulling /\ made < MaxTokens /\ made' = made + 1 /\ pulling' = FALSE
    /\ IF pc = "waiting" THEN pc' = "arrived" /\ \E m \in Marks : hand' = [n |-> made', mark |-> m]
                         ELSE UNCHANGED <<pc, hand>>
    /\ UNCHANGED <<heard, cancelled, stopped, failed, after, queue, taskVars, valid>>

\* stream_response has its chunk.  A cancel in between is seen if the task that
\* waits for it has run by then.
Resumes ==
    /\ pc = "arrived" /\ hand' = Eof
    /\ \/ /\ heard' = hand.n /\ after' = (IF cancelled THEN after + 1 ELSE after)
          /\ IF Wanted THEN pc' = "waiting" /\ pulling' = TRUE /\ queue' = Append(queue, hand)
                       ELSE pc' = "over" /\ queue' = queue \o <<hand, Eof>> /\ UNCHANGED pulling
       \/ cancelled /\ Over /\ UNCHANGED <<heard, after, pulling>>
    /\ UNCHANGED <<made, cancelled, stopped, failed, taskVars, valid>>

\* The stream ends, or the wait for the next chunk is cancelled.
StreamEnds ==
    /\ pc = "waiting" /\ Over /\ pulling' = FALSE
    /\ UNCHANGED <<hand, made, heard, cancelled, stopped, failed, after, taskVars, valid>>
CancelSeen == cancelled /\ StreamEnds

\* The request or the stream fails, which is recorded and raised; the producer's
\* finally then ends the queue like any other, and nobody asks the producer.
Fails ==
    /\ pc \in {"asking", "waiting"} /\ Over /\ pulling' = FALSE /\ failed' = TRUE
    /\ UNCHANGED <<hand, made, heard, cancelled, stopped, after, taskVars, valid>>

\* Mutant: no timeout while the model is silent.
Timeout_Never == FALSE /\ UNCHANGED vars

\* Mutant: the task that awaits the chunk is not cancelled.
Timeout_LeavesChunk ==
    /\ pc \in {"asking", "waiting"} /\ Over /\ failed' = TRUE
    /\ UNCHANGED <<pulling, hand, made, heard, cancelled, stopped, after, taskVars, valid>>

\* Of the request, the first token and the whole response: one is always due.
Timeout == Fails

-----------------------------------------------------------------------------
(* The aggregator and the response task.                                    *)

\* A text for the caller.  If the sequence is no longer valid the response is
\* cancelled and the generators are left where they are.
Emit(text, rest, eof) ==
    IF text # <<>> /\ ~valid
    THEN /\ task' = "left" /\ cancelled' = TRUE /\ UNCHANGED <<spoken, endSent>>
         /\ pulling' = (pulling /\ pc \notin {"asking", "waiting", "arrived"}) /\ buffer' = rest
    ELSE /\ spoken' = spoken \o text /\ buffer' = rest
         /\ IF eof THEN task' = "ended" /\ endSent' = valid ELSE UNCHANGED <<task, endSent>>
         /\ UNCHANGED <<cancelled, pulling>>

\* Mutant: what follows the last word boundary is not kept.
Split_DropsRest(text, k) == <<>>

\* _flush_at_word_boundary, after the k-th token.
Split(text, k) == SubSeq(text, k + 1, Len(text))

\* SentenceAggregator.add.
Add(t) ==
    LET text == Append(buffer, t) IN
    CASE t.mark = "stop" -> Emit(text, <<>>, FALSE)
      [] t.mark # "stop" /\ Len(text) >= MaxLen ->
           \E k \in 1..Len(text) : Emit(SubSeq(text, 1, k), Split(text, k), FALSE)
      [] t.mark = "pause" /\ Len(text) \in MinLen..(MaxLen - 1) -> Emit(text, <<>>, FALSE)
      [] OTHER -> Emit(<<>>, text, FALSE)

Reads ==
    /\ task = "reading" /\ queue # <<>> /\ queue' = Tail(queue)
    /\ IF Head(queue) = Eof THEN Emit(buffer, <<>>, TRUE) ELSE Add(Head(queue))
    /\ UNCHANGED <<pc, hand, made, heard, stopped, failed, after, valid>>

\* The flush that is due timeout_ms after the first token of the buffer.
FlushDue ==
    /\ task = "reading" /\ buffer # <<>> /\ Emit(buffer, <<>>, FALSE)
    /\ UNCHANGED <<pc, hand, made, heard, stopped, failed, after, queue, valid>>

\* The finally of an aggregator that is closed, by the task that is cancelled or
\* as it is finalised after the task left it, cancels the producer.  A chunk that
\* is being awaited goes on being awaited.
ProducerCancelled ==
    /\ task \in {"closing", "left"} /\ pc # "over" /\ Over /\ hand' = Eof
    /\ UNCHANGED <<pulling, made, heard, cancelled, stopped, failed, after, taskVars, valid>>

\* The response task then cancels the response, of which the provider no longer
\* knows.
Closes ==
    /\ task = "closing" /\ pc = "over" /\ task' = "cancelled" /\ cancelled' = TRUE
    /\ UNCHANGED <<pc, pulling, hand, made, heard, stopped, failed, after, queue, buffer, spoken, endSent, valid>>

-----------------------------------------------------------------------------
(* The other tasks.                                                         *)

Invalidate ==
    /\ valid /\ valid' = FALSE /\ UNCHANGED <<streamVars, queue, taskVars>>

\* cancel(): of a response the provider knows the pending chunk is cancelled.
CancelChunk == pulling' = (pulling /\ pc \in {"new", "over"})

Cancel ==
    /\ ~valid /\ ~cancelled /\ cancelled' = TRUE /\ CancelChunk
    /\ UNCHANGED <<pc, hand, made, heard, stopped, failed, after, queue, taskVars, valid>>

\* stop(): cancels the responses it knows.
Stop ==
    /\ ~stopped /\ stopped' = TRUE /\ CancelChunk
    /\ cancelled' = (cancelled \/ pc \notin {"new", "over"})
    /\ UNCHANGED <<pc, hand, made, heard, failed, after, queue, taskVars, valid>>

\* A barge-in, a late transcript, a hangup or the shutdown cancels the task.
CancelTask ==
    /\ ~valid \/ stopped
    /\ task = "reading" /\ task' = "closing"
    /\ UNCHANGED <<streamVars, queue, buffer, spoken, endSent, valid>>

-----------------------------------------------------------------------------
Producer == Begin \/ Resumes \/ CancelSeen \/ Timeout \/ ProducerCancelled
Response == Reads \/ FlushDue \/ Closes
Next ==
    \/ Answered \/ Chunk \/ StreamEnds \/ Fails \/ Producer \/ Response
    \/ Invalidate \/ Cancel \/ Stop \/ CancelTask

Spec == Init /\ [][Next]_vars

\* asyncio runs what can run and timeouts fire; nothing is assumed of the model.
FairSpec == Spec /\ WF_vars(Producer) /\ WF_vars(Response)

-----------------------------------------------------------------------------
(* Properties.                                                              *)

\* The variables have their types; nothing is in hand but while it has arrived,
\* and the marker is the last the producer puts, once.
TypeOK ==
    /\ pc \in {"new", "asking", "waiting", "arrived", "over"}
    /\ hand \in Tokens \cup {Eof} /\ made \in 0..MaxTokens /\ heard \in 0..made
    /\ pulling \in BOOLEAN /\ cancelled \in BOOLEAN /\ stopped \in BOOLEAN /\ failed \in BOOLEAN
    /\ valid \in BOOLEAN /\ endSent \in BOOLEAN /\ after \in Nat
    /\ queue \in Seq(Tokens \cup {Eof}) /\ buffer \in Seq(Tokens) /\ spoken \in Seq(Tokens)
    /\ task \in {"reading", "closing", "ended", "left", "cancelled"}
    /\ (hand # Eof) <=> (pc = "arrived")
    /\ \A i \in DOMAIN queue : queue[i] = Eof => i = Len(queue) /\ pc = "over"

\* The producer has put its marker, and the task has not come to it.
EofDue == pc = "over" /\ task = "reading"

\* The tokens spoken, buffered and queued.
OnTheWay == Len(spoken) + Len(buffer) + Len(queue) - (IF EofDue THEN 1 ELSE 0)

\* What the caller is told is what the model said: until the task leaves it, the
\* tokens spoken, buffered and queued are the tokens yielded, each once and in
\* order, whether a mark, the length, the timeout or the end cut them.  The end of
\* the response is announced when all of it is in the speech queue.  Of a response
\* whose stream has failed, some of the last text may be dropped, and nothing else
\* may be said: the code says the sentence that broke off.
NothingLostOnTheWay ==
    /\ task \in {"reading", "ended"} =>
         /\ OnTheWay = heard \/ (failed /\ OnTheWay < heard)
         /\ \A i \in DOMAIN spoken : spoken[i].n = i
         /\ \A i \in DOMAIN buffer : buffer[i].n = Len(spoken) + i
         /\ \A i \in DOMAIN queue : queue[i] = Eof \/ queue[i].n = Len(spoken) + Len(buffer) + i
    /\ endSent => pc = "over" /\ (Len(spoken) = heard \/ failed)

\* After the cancel at most one token, the one that had arrived, is yielded.
CancelStopsTheStream == after <= 1

\* Nothing is awaited from the model for a response that is over; except when
\* the task was cancelled while a chunk was awaited: the provider forgets the
\* response before it is told to cancel it, and the request stays open until the
\* model speaks or hangs up.
NothingPullsOnAfterwards == pc = "over" /\ pulling => task \in {"closing", "cancelled"}

\* Every response comes to an end, its task and its stream, however silent the
\* model is and whoever cancels what first.
ResponseEnds == <>[](pc = "over" /\ task \in {"ended", "left", "cancelled"})
=============================================================================
