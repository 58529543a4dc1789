----------------------------- MODULE CartesiaTts -----------------------------
(***************************************************************************)
(* providers/tts/cartesia.py and the tts loop of the session that drives    *)
(* it: one websocket for the call, on which the service answers several     *)
(* contexts side by side.  The id of a message is the context of all its    *)
(* sentences, and a synthesis drops what belongs to another context.        *)
(*                                                                          *)
(* The connection is never made again.  _send_lock only orders writes: a    *)
(* write here happens when it has the lock.  Word timestamps and flush_done *)
(* change nothing that matters here; the health check only pings.           *)
(***************************************************************************)
EXTENDS Naturals, Sequences

CONSTANTS
    MaxReqs,    \* bound: sentences of the call
    PerMessage, \* sentences of one response
    Chunks      \* bound: audio payloads of one answer

ASSUME TtsAssumption ==
    MaxReqs \in Nat \ {0} /\ PerMessage \in Nat \ {0} /\ Chunks \in Nat \ {0}

Reqs == 1..MaxReqs
Message(r) == (r - 1) \div PerMessage
Messages == {Message(r) : r \in Reqs}
NoContext == MaxReqs \* of an error that names none

VARIABLES
    wire,      \* the websocket: "open", "lost" or "closed" (by us)
    work,      \* the requests the service has yet to answer, as [req, left]
    pipe,      \* payloads not yet received, as [kind, of, context]
    pc,        \* where the tts loop is in synthesize(), and in cancel()
    cur,       \* the request being synthesized, or the last one
    first,     \* first_chunk_received
    contexts,  \* _message_contexts: messages that have their context
    cancelled, \* cancelled_message_ids
    ignored,   \* context_ids_to_ignore
    telling,   \* contexts whose cancel is not yet written
    invalid,   \* messages whose sequence is invalid
    stopped,
    voiced     \* history: audio passed on: for which request, of which one

svcVars == <<wire, work, pipe>>
idVars  == <<contexts, cancelled, ignored, telling>>
vars == <<svcVars, pc, cur, first, idVars, invalid, stopped, voiced>>

\* start() has connected.
Init ==
    /\ wire = "open" /\ work = {} /\ pipe = <<>>
    /\ pc = "idle" /\ cur = 0 /\ first = FALSE
    /\ contexts = {} /\ cancelled = {} /\ ignored = {} /\ telling = {}
    /\ invalid = {} /\ stopped = FALSE /\ voiced = {}

-----------------------------------------------------------------------------
(* The service and the network.                                             *)

\* Sentences of one context are answered in order, contexts side by side.
FirstOfContext(w) == \A v \in work : Message(v.req) = Message(w.req) => w.req <= v.req

Says(w, kind, ctx) == pipe' = Append(pipe, [kind |-> kind, of |-> w.req, context |-> ctx])

\* Audio, which may be marked as the last, then done; or an error, which may
\* come without the context it is about.
Answers ==
    /\ wire = "open"
    /\ \E w \in work :
         /\ FirstOfContext(w)
         /\ LET own == Message(w.req) IN
            \/ /\ w.left > 0 /\ Says(w, "chunk", own)
               /\ work' = (work \ {w}) \cup {[w EXCEPT !.left = @ - 1]}
            \/ /\ \/ Says(w, "done", own)
                  \/ w.left > 0 /\ Says(w, "last", own)
                  \/ \E ctx \in {own, NoContext} : Says(w, "error", ctx)
               /\ work' = work \ {w}
    /\ UNCHANGED <<wire, pc, cur, first, idVars, invalid, stopped, voiced>>

Lose ==
    /\ wire = "open" /\ wire' = "lost"
    /\ UNCHANGED <<work, pipe, pc, cur, first, idVars, invalid, stopped, voiced>>

-----------------------------------------------------------------------------
(* The tts loop and synthesize().                                           *)

\* Mutant: no message is entered in _message_contexts.
MapContext_Never == contexts

\* _context_id_for_message.
MapContext == contexts \cup {Message(cur')}

\* The next sentence.  Without a websocket synthesize() raises, and takes the
\* loop along; for a cancelled message it returns at once.
Begin ==
    /\ pc = "idle" /\ cur < MaxReqs /\ cur' = cur + 1
    /\ CASE Message(cur') \in invalid -> UNCHANGED <<pc, first, contexts>>
         [] Message(cur') \notin invalid /\ stopped ->
              pc' = "failed" /\ UNCHANGED <<first, contexts>>
         [] OTHER -> pc' = "sending" /\ first' = FALSE /\ contexts' = MapContext
    /\ UNCHANGED <<svcVars, cancelled, ignored, telling, invalid, stopped, voiced>>

\* A synthesis that ends forgets its context; one that fails, or is left, not.
Ends == pc' = "idle" /\ contexts' = contexts \ {Message(cur)}
ReadOn == IF stopped THEN Ends ELSE pc' = "receiving" /\ UNCHANGED contexts

Sends ==
    /\ pc = "sending"
    /\ IF wire = "open" THEN work' = work \cup {[req |-> cur, left |-> Chunks]} /\ ReadOn
                        ELSE pc' = "failed" /\ UNCHANGED <<work, contexts>>
    /\ UNCHANGED <<wire, pipe, cur, first, cancelled, ignored, telling, invalid, stopped, voiced>>

\* Mutant: whatever comes is taken for the answer.
Foreign_Never(p) == FALSE

\* The payload names a context, and not this one.
Foreign(p) == p.context \notin {NoContext, Message(cur)}

\* The generator goes on to the next payload, or ends on a chunk marked last.
After(p) == IF p.kind = "last" THEN Ends ELSE ReadOn

\* Audio of a context to ignore is dropped.  It is yielded otherwise, and if the
\* response is no longer valid the loop does not pass it on but cancels the
\* message and leaves the generator where it is.
Chunk(p) ==
    CASE Message(cur) \in ignored -> After(p) /\ UNCHANGED <<first, voiced, cancelled, ignored, telling>>
      [] Message(cur) \in invalid \ ignored ->
           /\ pc' = "leaving" /\ first' = TRUE /\ cancelled' = cancelled \cup {Message(cur)}
           /\ ignored' = ignored \cup {Message(cur)} /\ telling' = telling \cup {Message(cur)}
           /\ UNCHANGED <<voiced, contexts>>
      [] OTHER ->
           /\ first' = TRUE /\ voiced' = voiced \cup {[req |-> cur, of |-> p.of]}
           /\ After(p) /\ UNCHANGED <<cancelled, ignored, telling>>

Receives ==
    /\ pc = "receiving" /\ pipe # <<>> /\ pipe' = Tail(pipe)
    /\ LET p == Head(pipe) IN
       IF p.kind \in {"chunk", "last"} /\ ~Foreign(p) THEN Chunk(p)
       ELSE /\ CASE Foreign(p) -> ReadOn
                 [] ~Foreign(p) /\ p.kind = "done" -> Ends
                 [] OTHER -> pc' = "failed" /\ UNCHANGED contexts
            /\ UNCHANGED <<first, voiced, cancelled, ignored, telling>>
    /\ UNCHANGED <<wire, work, cur, invalid, stopped>>

Fails ==
    /\ pc = "receiving" /\ pipe = <<>> /\ pc' = "failed"
    /\ UNCHANGED <<svcVars, cur, first, idVars, invalid, stopped, voiced>>

ReceiveFails == wire # "open" /\ Fails

\* Mutant: no timeout before the first audio either.
Timeout_Never == FALSE /\ UNCHANGED vars

\* There is a timeout for as long as no audio has been yielded.
Timeout == ~first /\ Fails

\* The loop's cancel() returns; without its generator, left for ever, the loop
\* goes on.
Leaves ==
    /\ pc = "leaving" /\ Message(cur) \notin telling /\ pc' = "idle"
    /\ UNCHANGED <<svcVars, cur, first, idVars, invalid, stopped, voiced>>

-----------------------------------------------------------------------------
(* The other tasks.                                                         *)

\* A barge-in or a new turn: the sequence is invalid, cancel() follows.
Invalidate ==
    /\ cur > 0 /\ invalid' = invalid \cup {Message(cur)} /\ invalid' # invalid
    /\ UNCHANGED <<svcVars, pc, cur, first, idVars, stopped, voiced>>

\* cancel(): the service is told only of a message that has a context.
Cancel ==
    /\ \E m \in invalid \ cancelled :
         /\ m = Message(cur) /\ cancelled' = cancelled \cup {m}
         /\ ignored' = ignored \cup ({m} \cap contexts)
         /\ telling' = IF stopped THEN telling ELSE telling \cup ({m} \cap contexts)
    /\ UNCHANGED <<svcVars, pc, cur, first, contexts, invalid, stopped, voiced>>

\* The cancel is written, or fails, which is only recorded.  The service
\* generates no more for the context, and may leave out its done as well.
Tell ==
    /\ \E m \in telling :
         /\ telling' = telling \ {m}
         /\ work' \in {work} \cup (IF wire = "open" THEN {{w \in work : Message(w.req) # m}} ELSE {})
    /\ UNCHANGED <<wire, pipe, pc, cur, first, contexts, cancelled, ignored, invalid, stopped, voiced>>

Stop ==
    /\ ~stopped /\ stopped' = TRUE /\ wire' = IF wire = "open" THEN "closed" ELSE wire
    /\ UNCHANGED <<work, pipe, pc, cur, first, idVars, invalid, voiced>>

\* The shutdown that stopped the provider then cancels the tts loop.
CancelLoop ==
    /\ stopped /\ pc # "gone" /\ pc' = "gone"
    /\ UNCHANGED <<svcVars, cur, first, idVars, invalid, stopped, voiced>>

-----------------------------------------------------------------------------
Synthesis == Sends \/ Receives \/ ReceiveFails \/ Leaves
Next ==
    \/ Answers \/ Lose \/ Begin \/ Synthesis \/ Timeout
    \/ Invalidate \/ Cancel \/ Tell \/ Stop \/ CancelLoop

Spec == Init /\ [][Next]_vars

\* asyncio runs what can run, timeouts fire and the library ends every write.
\* The service answers what it has not been told to drop.
FairSpec == Spec /\ WF_vars(Synthesis) /\ WF_vars(Timeout) /\ WF_vars(Tell) /\ WF_vars(Answers)

-----------------------------------------------------------------------------
(* Properties.                                                              *)

\* The variables have their types; what is ignored was cancelled, and a
\* synthesis under way has its context.
TypeOK ==
    /\ wire \in {"open", "lost", "closed"} /\ work \subseteq [req : Reqs, left : 0..Chunks]
    /\ pipe \in Seq([kind : {"chunk", "last", "done", "error"}, of : Reqs,
                     context : Messages \cup {NoContext}])
    /\ pc \in {"idle", "sending", "receiving", "leaving", "failed", "gone"}
    /\ cur \in 0..MaxReqs /\ first \in BOOLEAN /\ stopped \in BOOLEAN
    /\ contexts \subseteq Messages /\ invalid \subseteq Messages
    /\ telling \subseteq ignored /\ ignored \subseteq cancelled /\ cancelled \subseteq invalid
    /\ voiced \subseteq [req : Reqs, of : Reqs]

\* The caller hears what the agent is saying: audio passed on for a sentence was
\* made of that sentence, also after one that was left half-way, whose payloads
\* still come in between, and although sentences of a message share a context:
\* a message left half-way is never taken up again.
OwnAudio == \A v \in voiced : v.req = v.of

\* A synthesis under way whose message is cancelled yields no more, wherever
\* between the request and the done the cancel arrives.
CancelIsHeeded == pc \in {"sending", "receiving"} /\ Message(cur) \in cancelled => Message(cur) \in ignored

\* A synthesis ends, or fails and takes the loop along, unless its message is
\* cancelled after the first audio: the service may then say no more, and the
\* code has no timeout any more.
SynthesisEnds ==
    pc \in {"sending", "receiving", "leaving"}
        ~> (pc \in {"idle", "failed", "gone"} \/ (first /\ Message(cur) \in cancelled))
=============================================================================
