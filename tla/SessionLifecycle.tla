--------------------------- MODULE SessionLifecycle ---------------------------
(***************************************************************************)
(* core/session_orchestrator.py: how a call starts and ends.  The task of   *)
(* the websocket session starts the providers and the loops and waits for   *)
(* them (run); each loop ends when its input does, and passes that on; a    *)
(* loop that finds the call over, or hangs up, or the cancelled session     *)
(* itself, runs shutdown.                                                   *)
(*                                                                          *)
(* What the loops do while the call is up is left out (BargeIn has it),     *)
(* except where it matters to its end.  An end-of-stream packet is put in   *)
(* queues of 100 and more places and is not lost.                           *)
(***************************************************************************)
EXTENDS Naturals

CONSTANTS
    Unmodelled,    \* loops left out of an instance
    Failing,       \* loops an exception may end
    ServerCancels  \* may the server cancel the session's task?

Loops == {"receive_audio", "stt_sender", "stt_receiver", "stt_speech", "vad_processor",
          "rolling_buffer", "turn_manager", "interruption_manager", "llm", "tts",
          "output", "playback", "metrics", "error"} \ Unmodelled
Providers == {"stt", "tts", "telephony"}

\* Only loops nobody else reads from may be left out.
ASSUME LifecycleAssumption ==
    /\ Unmodelled \subseteq {"stt_speech", "vad_processor", "rolling_buffer", "metrics", "error"}
    /\ Failing \subseteq Loops /\ ServerCancels \in BOOLEAN

\* The loops that read a provider's stream; all others read a queue.
Readers == [p \in Providers |-> CASE p = "stt" -> {"stt_receiver", "stt_speech"} \cap Loops
                                  [] p = "telephony" -> {"receive_audio", "playback"}
                                  [] p = "tts" -> {}]
QueueLoops == Loops \ UNION {Readers[p] : p \in Providers}

\* The loop that stops a provider when its input ends.
Stopper == [p \in Providers |-> CASE p = "stt" -> "stt_sender"
                                  [] p = "telephony" -> "output"
                                  [] p = "tts" -> "tts"]

\* The loops whose queues a loop puts an end-of-stream packet in when it ends.
EosTo(l) ==
    CASE l = "receive_audio" -> {"stt_sender", "vad_processor", "rolling_buffer"}
      [] l = "stt_receiver"  -> {"turn_manager", "interruption_manager"}
      [] l = "turn_manager"  -> {"llm"}
      [] l = "llm"           -> {"tts"}
      [] l = "tts"           -> {"output"}
      [] l = "output"        -> {"interruption_manager", "metrics", "error"}
      [] OTHER               -> {}

\* Mutant: the tts loop stops its provider and does not pass the end on.
Consumers_TtsForgets(l) == IF l = "tts" THEN {} ELSE EosTo(l) \cap Loops

Consumers(l) == EosTo(l) \cap Loops

VARIABLES
    state,     \* "starting", "open" (LISTENING to INTERRUPTED), "closing" or "closed"
    main,      \* where the session's task is in run() and its handler
    cancelled, \* the server cancelled it
    pc,        \* where each loop is
    eos,       \* loops whose input has ended, or holds an end-of-stream packet
    prov,      \* state of each provider
    shut,      \* shutdown(): who runs it, and how far
    saved      \* times the final record was stored

vars == <<state, main, cancelled, pc, eos, prov, shut, saved>>

Over(l) == pc[l] \in {"done", "failed"}
Working(l) == pc[l] \in {"running", "responding", "hung_up"}
NotStopped == {"off", "up", "ended"}

\* The telephony stream is up, and may have ended, before the session starts.
Init ==
    /\ state = "starting" /\ main = "connecting" /\ cancelled = FALSE
    /\ pc = [l \in Loops |-> "none"] /\ eos = {}
    /\ prov = [p \in Providers |-> IF p = "telephony" THEN "up" ELSE "off"]
    /\ shut = [by |-> "none", step |-> "none"] /\ saved = 0

-----------------------------------------------------------------------------
(* run: start and wait_closed                                                *)

Started ==
    /\ main = "connecting" /\ main' = "waiting" /\ state' = "open"
    /\ pc' = [l \in Loops |-> "running"]
    /\ prov' = [prov EXCEPT !["stt"] = "up", !["tts"] = "up"]
    /\ UNCHANGED <<cancelled, eos, shut, saved>>

\* A speech provider does not start; the exception leaves run().
StartFails ==
    /\ main = "connecting" /\ main' = "failed"
    /\ \E up \in SUBSET {"stt", "tts"} :
          prov' = [p \in Providers |-> IF p \in up THEN "up" ELSE prov[p]]
    /\ UNCHANGED <<state, cancelled, pc, eos, shut, saved>>

\* The loops are over; _finalize_closed, unless a loop's shutdown did it.
LoopsOver ==
    /\ main = "waiting" /\ \A l \in Loops : Over(l)
    /\ IF state = "closed" THEN main' = "ended" /\ UNCHANGED state
                           ELSE main' = "storing" /\ state' = "closed"
    /\ UNCHANGED <<cancelled, pc, eos, prov, shut, saved>>

Stored ==
    /\ main = "storing" /\ main' = "ended" /\ saved' = saved + 1
    /\ UNCHANGED <<state, cancelled, pc, eos, prov, shut>>

-----------------------------------------------------------------------------
(* The loops                                                                 *)

\* A loop finds its input ended.  The stop of a provider suspends it, unless
\* somebody else is at it; that of the telephony is always made in full.
TakeEos(l) ==
    /\ pc[l] \in {"running", "hung_up"} /\ l \in eos
    /\ IF \E p \in Providers : Stopper[p] = l /\ (p = "telephony" \/ prov[p] \in NotStopped)
       THEN LET p == CHOOSE q \in Providers : Stopper[q] = l IN
            /\ pc' = [pc EXCEPT ![l] = "stopping"]
            /\ prov' = [prov EXCEPT ![p] = IF p = "telephony" THEN @ ELSE "stopping"]
            /\ UNCHANGED eos
       ELSE /\ pc' = [pc EXCEPT ![l] = "done"]
            /\ eos' = eos \cup Consumers(l)
            /\ UNCHANGED prov
    /\ UNCHANGED <<state, main, cancelled, shut, saved>>

StopReturns(l) ==
    /\ pc[l] = "stopping"
    /\ pc' = [pc EXCEPT ![l] = "done"]
    /\ \E p \in Providers : /\ Stopper[p] = l
                            /\ prov' = [prov EXCEPT ![p] = "stopped"]
                            /\ eos' = eos \cup Readers[p] \cup Consumers(l)
    /\ UNCHANGED <<state, main, cancelled, shut, saved>>

\* An exception ends a loop; _guard_loop reports it.
LoopFails(l) ==
    /\ l \in Failing /\ Working(l)
    /\ pc' = [pc EXCEPT ![l] = "failed"]
    /\ UNCHANGED <<state, main, cancelled, eos, prov, shut, saved>>

\* The llm loop awaits the task of a response.
BeginResponse ==
    /\ pc["llm"] = "running"
    /\ pc' = [pc EXCEPT !["llm"] = "responding"] /\ state' = "open"
    /\ UNCHANGED <<main, cancelled, eos, prov, shut, saved>>

EndResponse ==
    /\ pc["llm"] = "responding"
    /\ pc' = [pc EXCEPT !["llm"] = "running"]
    /\ UNCHANGED <<state, main, cancelled, eos, prov, shut, saved>>

\* SPEAKING and INTERRUPTED are set without regard to the state, like THINKING.
SetState(l) ==
    /\ l \in {"tts", "interruption_manager"} /\ pc[l] = "running" /\ state' = "open"
    /\ UNCHANGED <<main, cancelled, pc, eos, prov, shut, saved>>

\* The peer ends the stream or its socket closes.
RemoteEnds ==
    /\ prov["telephony"] = "up" /\ prov' = [prov EXCEPT !["telephony"] = "ended"]
    /\ eos' = eos \cup Readers["telephony"]
    /\ UNCHANGED <<state, main, cancelled, pc, shut, saved>>
-----------------------------------------------------------------------------
(* shutdown                                                                  *)

\* Called by who: the first caller runs it, others return at once and go on
\* with next.
Shutdown(who, next) ==
    IF shut.by = "none"
    THEN /\ shut' = [by |-> who, step |-> "saving"] /\ state' = "closing"
         /\ IF who \in Loops THEN pc' = [pc EXCEPT ![who] = "shutting"] /\ UNCHANGED main
                             ELSE main' = "shutting" /\ UNCHANGED pc
    ELSE /\ UNCHANGED <<shut, state>>
         /\ IF who \in Loops THEN pc' = [pc EXCEPT ![who] = next] /\ UNCHANGED main
                             ELSE main' = "ended" /\ UNCHANGED pc

\* The output loop, or a confirmed interruption, sends to a stream that is over.
SendFails(l) ==
    /\ l \in {"output", "interruption_manager"} /\ pc[l] = "running"
    /\ prov["telephony"] # "up"
    /\ Shutdown(l, "done")
    /\ UNCHANGED <<cancelled, eos, prov, saved>>

\* The playback loop decides to hang up, once, and cancels the response.
RequestHangup ==
    /\ pc["playback"] = "running"
    /\ pc' = [pc EXCEPT !["playback"] = "hanging_up",
                        !["llm"] = IF @ = "responding" THEN "running" ELSE @]
    /\ UNCHANGED <<state, main, cancelled, eos, prov, shut, saved>>

HangUp ==
    /\ pc["playback"] = "hanging_up"
    /\ prov' = [prov EXCEPT !["telephony"] = "stopped"]
    /\ eos' = eos \cup Readers["telephony"]
    /\ Shutdown("playback", "hung_up")
    /\ UNCHANGED <<cancelled, saved>>

\* A stop that shutdown begins suspends it only if nobody has begun one.
BeginStop(p) ==
    prov' = [prov EXCEPT ![p] = IF p # "telephony" /\ @ \in NotStopped THEN "stopping" ELSE @]

\* What a stop that returns leaves behind, unless the loop that began it is at it.
EndStop(p) ==
    IF p = "telephony" \/ (prov[p] = "stopping" /\ pc[Stopper[p]] # "stopping")
    THEN [prov EXCEPT ![p] = "stopped"] ELSE prov

\* The live state is saved; every queue gets its end.
TellQueues ==
    /\ shut.step = "saving" /\ shut' = [shut EXCEPT !.step = "tts"]
    /\ eos' = eos \cup QueueLoops
    /\ BeginStop("tts")
    /\ UNCHANGED <<state, main, cancelled, pc, saved>>

\* Mutant: _stop_providers forgets the STT.
After_SkipsStt(p) == "telephony"

\* The order of _stop_providers.
After(p) == IF p = "tts" THEN "stt" ELSE "telephony"

StopNext(p) ==
    /\ p # "telephony" /\ shut.step = p /\ shut' = [shut EXCEPT !.step = After(p)]
    /\ eos' = IF EndStop(p) # prov THEN eos \cup Readers[p] ELSE eos
    /\ LET q == After(p) IN
       prov' = [EndStop(p) EXCEPT ![q] =
                   IF q # "telephony" /\ @ \in NotStopped THEN "stopping" ELSE @]
    /\ UNCHANGED <<state, main, cancelled, pc, saved>>

\* A stop suppresses a cancellation that meets it while it waits for a task of the
\* provider; it and the loop then go on.
InStop(l) == \/ pc[l] \in {"stopping", "hanging_up"}
             \/ l = shut.by /\ shut.step \in Providers

\* Who is in the stop of a provider that is stopping.
StopOf(p) == IF pc[Stopper[p]] = "stopping" THEN Stopper[p] ELSE shut.by

\* A task that is cancelled leaves the stop it is in the middle of.
Abandon(S) ==
    [p \in Providers |-> IF p # "telephony" /\ prov[p] = "stopping" /\ StopOf(p) \in S
                         THEN "abandoned" ELSE prov[p]]

\* The telephony is stopped; every task but the current one is cancelled.
CancelLoops ==
    /\ shut.step = "telephony" /\ shut' = [shut EXCEPT !.step = "gathering"]
    /\ LET S == {l \in Loops : ~Over(l) /\ l # shut.by /\ pc[l] # "none"} IN
       \E deaf \in SUBSET {l \in S : InStop(l)} :
          /\ pc' = [l \in Loops |-> IF l \in S \ deaf THEN "cancelling" ELSE pc[l]]
          /\ prov' = [Abandon(S \ deaf) EXCEPT !["telephony"] = "stopped"]
    /\ eos' = eos \cup Readers["telephony"]
    /\ UNCHANGED <<state, main, cancelled, saved>>

CancelArrives(l) ==
    /\ pc[l] = "cancelling" /\ pc' = [pc EXCEPT ![l] = "done"]
    /\ UNCHANGED <<state, main, cancelled, eos, prov, shut, saved>>

\* Mutant: shutdown does not wait for the tasks it cancelled.
Finalize_NoGather ==
    /\ shut.step = "gathering"
    /\ shut' = [shut EXCEPT !.step = "storing"] /\ state' = "closed"
    /\ UNCHANGED <<main, cancelled, pc, eos, prov, saved>>

\* The cancelled tasks are over.
Finalize ==
    /\ shut.step = "gathering" /\ \A l \in Loops \ {shut.by} : Over(l) \/ pc[l] = "none"
    /\ IF state = "closed" THEN shut' = [shut EXCEPT !.step = "stored"] /\ UNCHANGED state
                           ELSE shut' = [shut EXCEPT !.step = "storing"] /\ state' = "closed"
    /\ UNCHANGED <<main, cancelled, pc, eos, prov, saved>>

\* The record is stored and shutdown returns: the playback loop goes back to
\* its events, the others end.
ShutdownDone ==
    /\ shut.step \in {"storing", "stored"} /\ shut' = [shut EXCEPT !.step = "done"]
    /\ saved' = saved + (IF shut.step = "storing" THEN 1 ELSE 0)
    /\ IF shut.by \in Loops
       THEN /\ pc' = [pc EXCEPT ![shut.by] = IF shut.by = "playback" THEN "hung_up" ELSE "done"]
            /\ UNCHANGED main
       ELSE main' = "ended" /\ UNCHANGED pc
    /\ UNCHANGED <<state, cancelled, eos, prov>>

-----------------------------------------------------------------------------
(* The server cancels the session's task                                     *)

\* While the loops are gathered, the cancellation goes to each of them.  A task
\* in shutdown leaves it; the llm loop takes the cancellation of the response it
\* awaits for one of its own making and goes on, unless shutdown has begun.
ServerCancel ==
    /\ ServerCancels /\ ~cancelled /\ cancelled' = TRUE
    /\ \/ /\ main \in {"connecting", "storing"}
          /\ Shutdown("session", "ended")
          /\ UNCHANGED prov
       \/ /\ main = "waiting" /\ main' = "cancelling"
          /\ \E deaf \in SUBSET {l \in Loops : ~Over(l) /\ InStop(l)} :
             LET S == {l \in Loops : ~Over(l)} \ deaf IN
             /\ pc' = [l \in Loops |->
                          IF l \notin S THEN pc[l]
                          ELSE IF pc[l] = "responding" /\ shut.by = "none" THEN "running"
                          ELSE "cancelling"]
             /\ prov' = Abandon(S)
             /\ shut' = IF shut.by \notin S \/ shut.step = "done" THEN shut
                        ELSE [shut EXCEPT !.step = "aborted"]
          /\ UNCHANGED state
    /\ saved' \in IF "storing" \in {main, shut.step} THEN {saved, saved + 1} ELSE {saved}
    /\ UNCHANGED eos

\* All loops are over; the handler of the websocket calls shutdown.
CancelledMain ==
    /\ main = "cancelling" /\ \A l \in Loops : Over(l)
    /\ Shutdown("session", "ended")
    /\ UNCHANGED <<cancelled, eos, prov, saved>>

-----------------------------------------------------------------------------
LoopStep(l) ==
    \/ TakeEos(l) \/ StopReturns(l) \/ LoopFails(l) \/ SetState(l) \/ SendFails(l)
    \/ CancelArrives(l)

Next ==
    \/ Started \/ StartFails \/ LoopsOver \/ Stored
    \/ \E l \in Loops : LoopStep(l)
    \/ BeginResponse \/ EndResponse \/ RemoteEnds \/ RequestHangup \/ HangUp
    \/ TellQueues \/ (\E p \in Providers : StopNext(p)) \/ CancelLoops \/ Finalize \/ ShutdownDone
    \/ ServerCancel \/ CancelledMain

Spec == Init /\ [][Next]_vars

\* What a turn manager that is over has left in the queue of the llm loop is finite.
TurnsRunOut == <>[][Over("turn_manager") => ~BeginResponse]_vars

\* asyncio runs ready tasks; provider calls return or time out.  Nothing makes
\* the peer, the hangup, the failure or the cancellation happen.
Fairness ==
    /\ WF_vars(Started \/ StartFails) /\ WF_vars(LoopsOver) /\ WF_vars(Stored)
    /\ \A l \in Loops : /\ WF_vars(TakeEos(l)) /\ WF_vars(StopReturns(l))
                        /\ WF_vars(CancelArrives(l))
    /\ TurnsRunOut
    /\ WF_vars(EndResponse) /\ WF_vars(HangUp)
    /\ WF_vars(TellQueues) /\ WF_vars(\E p \in Providers : StopNext(p)) /\ WF_vars(CancelLoops)
    /\ WF_vars(Finalize) /\ WF_vars(ShutdownDone) /\ WF_vars(CancelledMain)

FairSpec == Spec /\ Fairness

-----------------------------------------------------------------------------
(* Properties                                                                *)

\* Every variable stays in its domain, and the task that runs shutdown is in it.
TypeOK ==
    /\ state \in {"starting", "open", "closing", "closed"}
    /\ main \in {"connecting", "failed", "waiting", "storing", "cancelling", "shutting", "ended"}
    /\ cancelled \in BOOLEAN
    /\ pc \in [Loops -> {"none", "running", "responding", "stopping", "hanging_up", "hung_up",
                         "shutting", "cancelling", "done", "failed"}]
    /\ eos \subseteq Loops
    /\ prov \in [Providers -> NotStopped \cup {"stopping", "stopped", "abandoned"}]
    /\ shut \in [by : Loops \cup {"none", "session"},
                 step : {"none", "saving", "tts", "stt", "telephony", "gathering", "storing",
                         "stored", "done", "aborted"}]
    /\ saved \in Nat
    /\ shut.step \notin {"none", "done", "aborted"} =>
          IF shut.by \in Loops THEN pc[shut.by] = "shutting" ELSE main = "shutting"

\* However many tasks try to end the call, its record is stored once, and when it
\* is taken no loop can still change what it says, but the one that runs shutdown,
\* which has only its events to read on.  A server that cancels the session while
\* the record is being stored may store it again.
RecordIsFinal ==
    /\ saved <= 1 \/ cancelled
    /\ state = "closed" => \A l \in Loops \ {shut.by} : Over(l) \/ pc[l] = "none"

\* The stop of a provider has begun; that of the telephony is over at once.
Begun(p) == IF p = "telephony" THEN prov[p] = "stopped" ELSE prov[p] \notin NotStopped

\* A closed call has no provider whose stop was never begun, unless the loop that
\* stops it has failed and nobody has run shutdown.
ClosedStopsProviders ==
    state = "closed" =>
        \A p \in Providers : Begun(p) \/ (pc[Stopper[p]] = "failed" /\ shut.by = "none")

\* The loops that pass the end of the stream on, one to the next.
Chain == {"receive_audio", "stt_sender", "stt_receiver", "turn_manager", "llm", "tts", "output"}

\* The end of the stream, wherever it comes from, closes a call that was set up,
\* unless one of the loops that pass it on fails; a shutdown that has begun closes
\* it whichever loops have failed; unless the server cancels the session.
EndCloses ==
    (main = "waiting" /\ prov["telephony"] # "up") \/ shut.by # "none"
        ~> \/ state = "closed" \/ cancelled
           \/ shut.by = "none" /\ \E l \in Chain : pc[l] = "failed"
=============================================================================
