---------------------------- MODULE TurnDetection ----------------------------
(***************************************************************************)
(* core/turn_detection/turn_manager.py and the three tasks of               *)
(* core/session_orchestrator.py that share one TurnManager: the VAD loop,   *)
(* the turn manager loop and the delayed turn check.  Each of them may be   *)
(* suspended (for the smart-turn model, for the save of the live state, for *)
(* a provider's cancel) while the others go on with the same turn.          *)
(*                                                                          *)
(* Time is discrete.  A timestamp of the code is the age it has now, Off    *)
(* when it is None, counted no further than the code's comparisons see.     *)
(***************************************************************************)
EXTENDS Integers, Sequences, FiniteSets

CONSTANTS
    Phrases,      \* phrases the caller may speak
    Open,         \* those that end in a connector ("aur", "because")
    Long,         \* those long enough for an interim result in the middle
    Talks,        \* bound: times the caller begins to talk
    MinSpeech, MinSilence, MaxSilence, Grace,  \* settings of turn detection, in ticks
    RetryDelay, MinAudio,                      \* settings of the empty transcript retry
    StopMs,       \* silence after which the VAD reports a stop
    MaxLag,       \* bound: how far VAD and STT events may wait for their loops
    Configs       \* the calls: the settings that are on, whether there is a
                  \* greeting, whether the recogniser's stream may end and
                  \* whether it reports the beginning of a long phrase

ASSUME TurnAssumption ==
    /\ Phrases \in Nat /\ Open \cup Long \subseteq 1 .. Phrases /\ Talks \in Nat
    /\ {MinSpeech, MinSilence, MaxSilence, RetryDelay, MinAudio} \subseteq Nat \ {0}
    /\ {Grace, StopMs, MaxLag} \subseteq Nat
    /\ MinSpeech <= MinAudio /\ MinSilence <= MaxSilence
    /\ StopMs <= MaxLag /\ MaxLag <= MaxSilence /\ Grace <= RetryDelay
    /\ Configs \subseteq [smart : BOOLEAN, interrupt : BOOLEAN, retry : BOOLEAN,
                          greeting : BOOLEAN, ends : BOOLEAN, partial : BOOLEAN]

Off == -1
Larger(a, b) == IF a > b THEN a ELSE b
Smaller(a, b) == IF a < b THEN a ELSE b
OrElse(a, b) == IF a = Off THEN b ELSE a
Cap == Larger(MaxSilence, RetryDelay)
Older(age, cap) == IF age = Off THEN Off ELSE Smaller(age + 1, cap)

\* The text of a phrase: all of it, or the beginning an interim result gave.
Tokens == [phrase : 1 .. Phrases, whole : BOOLEAN]
Actors == {"vad", "turn", "check"}
Idle == [do |-> "idle"]

VARIABLES
    cfg,     \* smart_turn_enabled, interruption_enabled, empty_transcript_retry_enabled,
             \* agent_greeting; and does the recogniser's stream end?
    user,    \* the caller: talking, talks begun, phrases spoken
    edges,   \* starts and stops of speech the VAD loop has yet to reach
    stt,     \* transcripts in transcript_event, and the last one produced
    st,      \* TurnManager.state
    last,    \* the last emitted turn, as amended, and its age
    check,   \* ticks until the delayed check wakes, or Off
    op,      \* where each task is suspended
    supp,    \* suppression of speech that overlaps the agent's
    agent,   \* the response: none, in the LLM, or on its way to the caller
    turns,   \* turn_event: everything ever put there
    taken    \* how many of them the LLM loop took

vars == <<cfg, user, edges, stt, st, last, check, op, supp, agent, turns, taken>>

-----------------------------------------------------------------------------
(* TurnState                                                                 *)

Fresh(id) ==
    [id |-> id, speaking |-> FALSE, start |-> Off, speech |-> Off, dur |-> 0,
     heard |-> Off, interim |-> {}, frags |-> {}, final |-> FALSE,
     vadStop |-> FALSE, verdict |-> "incomplete", judged |-> Off,
     skipped |-> FALSE, stale |-> FALSE]

\* merge_turn_text: what is already there is not added again.
Merge(words, t) ==
    IF [t EXCEPT !.whole = TRUE] \in words THEN words
    ELSE {w \in words : w.phrase # t.phrase} \cup {t}

FinalText(s) == {[phrase |-> p, whole |-> TRUE] : p \in s.frags}
Text(s) == FinalText(s) \cup UNION {Merge(FinalText(s), t) : t \in s.interim}
Unfinalized(s) == s.frags = {} \/ Text(s) # FinalText(s)

\* ends_with_incomplete_connector: of the last phrase, if all of it is there.
EndsOpen(words) ==
    \E w \in words : w.whole /\ w.phrase \in Open /\ \A v \in words : v.phrase <= w.phrase

\* last_speech_ms - user_started_ms; the first is None after a turn that
\* began without the VAD.
Duration(s) == IF s.speech = Off THEN s.start ELSE s.dur
Silence(s) == OrElse(s.speech, OrElse(s.heard, 0))
NoVerdict(s) == [s EXCEPT !.verdict = "incomplete", !.judged = Off, !.stale = FALSE]

\* evaluate: the first line that applies is the decision.  An expected short
\* answer is not among them: nobody calls set_expected_answer.
Rules(s) == <<
    <<"no_speech_start", s.start = Off>>,
    <<"no_text", Text(s) = {}>>,
    <<"waiting_for_final_transcript", Unfinalized(s) /\ OrElse(s.heard, 0) < MaxSilence>>,
    <<"speech_too_short", Duration(s) < MinSpeech>>,
    <<"not_enough_silence", Silence(s) < MinSilence>>,
    <<"incomplete_connector", EndsOpen(Text(s)) /\ Silence(s) < MaxSilence>>,
    <<"end_of_turn_grace",
      cfg.smart /\ ~s.skipped /\ s.verdict = "complete" /\ s.judged # Off /\ s.judged < Grace>>,
    <<"smart_turn_complete", cfg.smart /\ ~s.skipped /\ s.verdict = "complete">>,
    <<"max_silence_force_end", cfg.smart /\ ~s.skipped /\ Silence(s) >= MaxSilence>>,
    <<"smart_turn_incomplete", cfg.smart /\ ~s.skipped>>,
    <<"speech_final_seen", s.vadStop \/ s.final>>,
    <<"no_end_signal", TRUE>> >>

Decision(s) ==
    LET r == Rules(s) IN r[CHOOSE i \in DOMAIN r : r[i][2] /\ \A j \in 1 .. i - 1 : ~r[j][2]][1]
Emits(s) == Decision(s) \in {"smart_turn_complete", "max_silence_force_end", "speech_final_seen"}

\* Mutant: a speech start leaves the verdict on the audio before it.
SpeechStarts_KeepsVerdict(s, age) ==
    LET start == OrElse(s.start, age) IN
    [s EXCEPT !.speaking = TRUE, !.start = start, !.speech = age,
              !.dur = Smaller(Larger(start - age, 0), MinAudio),
              !.vadStop = FALSE, !.skipped = FALSE]

\* Mutant: a speech start begins the turn anew.
SpeechStarts_Anew(s, age) == [Fresh(s.id) EXCEPT !.speaking = TRUE, !.start = age, !.speech = age]

\* handle_speech_start
SpeechStarts(s, age) ==
    LET start == OrElse(s.start, age) IN
    NoVerdict([s EXCEPT !.speaking = TRUE, !.start = start, !.speech = age,
                        !.dur = Smaller(Larger(start - age, 0), MinAudio),
                        !.vadStop = FALSE, !.skipped = FALSE])

\* handle_speech_stop
SpeechStops(s, age) ==
    [s EXCEPT !.speaking = FALSE, !.speech = age, !.vadStop = TRUE,
              !.dur = IF s.start = Off THEN 0 ELSE Smaller(Larger(s.start - age, 0), MinAudio)]

LateDuplicate(e) ==
    last.turn.words # {} /\ last.age - e.age <= MaxSilence
    /\ last.turn.words = {[phrase |-> e.phrase, whole |-> e.whole]}

\* Mutant: a final text is no end signal.
Hears_NoSignal(s, e) ==
    LET began == IF s.start = Off
                 THEN [s EXCEPT !.start = e.age,
                                !.dur = IF s.speech = Off THEN 0
                                        ELSE Smaller(Larger(e.age - s.speech, 0), MinAudio)]
                 ELSE s
        heard == [began EXCEPT !.heard = e.age]
    IN CASE s.start = Off /\ LateDuplicate(e) -> s
         [] e.kind = "empty" -> [heard EXCEPT !.final = TRUE]
         [] e.kind = "final" -> [heard EXCEPT !.frags = @ \cup {e.phrase}, !.interim = {}]
         [] OTHER            -> [heard EXCEPT !.interim = {[phrase |-> e.phrase, whole |-> e.whole]}]

\* handle_transcript
Hears(s, e) ==
    LET began == IF s.start = Off
                 THEN [s EXCEPT !.start = e.age,
                                !.dur = IF s.speech = Off THEN 0
                                        ELSE Smaller(Larger(e.age - s.speech, 0), MinAudio)]
                 ELSE s
        heard == [began EXCEPT !.heard = e.age]
    IN CASE s.start = Off /\ LateDuplicate(e) -> s
         [] e.kind = "empty" -> [heard EXCEPT !.final = TRUE]
         [] e.kind = "final" -> [heard EXCEPT !.frags = @ \cup {e.phrase}, !.interim = {}, !.final = TRUE]
         [] OTHER            -> [heard EXCEPT !.interim = {[phrase |-> e.phrase, whole |-> e.whole]}]

-----------------------------------------------------------------------------
(* What the tasks decide after they changed the state                        *)

\* _empty_transcript_retry_delay_ms: Off, or the ticks left until the retry.
RetryLeft(s) ==
    IF /\ cfg.retry /\ ~s.speaking /\ s.start # Off /\ Text(s) = {}
       /\ (agent = "playing" => cfg.interrupt)
       /\ Duration(s) >= MinAudio
       /\ s.vadStop \/ s.final \/ s.verdict \in {"unsure", "complete"}
       /\ (cfg.smart => s.verdict = "complete")
    THEN Larger(0, RetryDelay - OrElse(s.heard, OrElse(s.judged, OrElse(s.speech, 0))))
    ELSE Off

\* _next_turn_check_delay_ms
NextDelay(s) ==
    LET why == Decision(s) IN
    CASE s.speaking \/ s.start = Off -> Off
      [] ~s.speaking /\ why = "no_text" ->
            IF RetryLeft(s) = Off THEN Off ELSE Larger(1, RetryLeft(s))
      [] ~s.speaking /\ Emits(s) -> 0
      [] ~s.speaking /\ why = "speech_too_short" -> Larger(1, MinSpeech - Duration(s))
      [] ~s.speaking /\ why = "not_enough_silence" -> Larger(1, MinSilence - Silence(s))
      [] ~s.speaking /\ why = "waiting_for_final_transcript" ->
            Larger(1, MaxSilence - OrElse(s.heard, 0))
      [] ~s.speaking /\ why \in {"smart_turn_incomplete", "incomplete_connector"} ->
            Larger(1, MaxSilence - Silence(s))
      [] ~s.speaking /\ why = "end_of_turn_grace" -> Larger(1, Grace - s.judged)
      [] OTHER -> Off

\* A task goes on to do something; when that replaces the state, a verdict the
\* VAD loop is waiting for has judged the audio of a turn that is gone.
Become(a, now, replaced) ==
    op' = [b \in Actors |->
             CASE b = a -> now
               [] b # a /\ replaced /\ op[b].do = "classify" -> [op[b] EXCEPT !.stale = TRUE]
               [] OTHER -> op[b]]

\* Mutant: the emitted turn's text stays.
BuildTurn_KeepsState(a, s, ended) ==
    LET turn == [id |-> s.id + 1, words |-> Text(s), finals |-> s.frags] IN
    /\ st' = [s EXCEPT !.id = s.id + 1]
    /\ last' = [turn |-> turn, age |-> 0]
    /\ check' = Off
    /\ Become(a, [do |-> "emit", turn |-> turn, ended |-> ended], TRUE)

\* _build_turn, and _emit_user_turn up to the save of the live state.
BuildTurn(a, s, ended) ==
    LET turn == [id |-> s.id + 1, words |-> Text(s), finals |-> s.frags] IN
    /\ st' = Fresh(s.id + 1)
    /\ last' = [turn |-> turn, age |-> 0]
    /\ check' = Off
    /\ Become(a, [do |-> "emit", turn |-> turn, ended |-> ended], TRUE)

\* _enqueue_empty_transcript_retry; it is suspended only if there is an old
\* response to cancel.
StartRetry(a, s) ==
    /\ check' = Off /\ UNCHANGED last
    /\ IF agent = "none"
       THEN st' = Fresh(s.id) /\ Become(a, Idle, TRUE) /\ agent' = "playing"
       ELSE st' = s /\ Become(a, [do |-> "retry"], FALSE) /\ UNCHANGED <<agent>>

\* Mutant: no check after a connector; the caller is expected to talk on.
Schedule_NotOpen(a, s, due) ==
    /\ st' = s /\ Become(a, Idle, FALSE)
    /\ check' = IF NextDelay(s) = Off \/ EndsOpen(Text(s)) THEN due ELSE NextDelay(s)
    /\ UNCHANGED <<last, agent>>

\* _schedule_turn_check
Schedule(a, s, due) ==
    /\ st' = s /\ Become(a, Idle, FALSE)
    /\ check' = IF NextDelay(s) = Off THEN due ELSE NextDelay(s)
    /\ UNCHANGED <<last, agent>>

\* _emit_turn_if_ready, called by a when the state is s and a check is due.
EmitIfReady(a, s, suppressed, due) ==
    \/ /\ suppressed /\ check' = due /\ UNCHANGED <<last, agent>>
       /\ IF s.start # Off \/ Text(s) # {}
          THEN st' = Fresh(s.id) /\ Become(a, Idle, TRUE)
          ELSE st' = s /\ Become(a, Idle, FALSE)
    \/ ~suppressed /\ Emits(s) /\ BuildTurn(a, s, FALSE) /\ UNCHANGED agent
    \/ ~suppressed /\ ~Emits(s) /\ RetryLeft(s) = 0 /\ StartRetry(a, s)
    \/ ~suppressed /\ ~Emits(s) /\ RetryLeft(s) # 0 /\ Schedule(a, s, due)

-----------------------------------------------------------------------------
(* The caller, the speech recogniser and the agent's response                *)

StartTalk ==
    /\ ~user.talking /\ user.talks < Talks
    /\ user' = [user EXCEPT !.talking = TRUE, !.talks = @ + 1]
    \* A pause the VAD has not reported by now is none to it.
    /\ edges' = IF edges # <<>> /\ edges[Len(edges)].kind = "stop" /\ edges[Len(edges)].age < StopMs
                THEN SubSeq(edges, 1, Len(edges) - 1)
                ELSE Append(edges, [kind |-> "start", age |-> 0])
    /\ UNCHANGED <<cfg, stt, st, last, check, op, supp, agent, turns, taken>>

StopTalk ==
    /\ user.talking /\ user' = [user EXCEPT !.talking = FALSE]
    /\ edges' = Append(edges, [kind |-> "stop", age |-> 0])
    /\ UNCHANGED <<cfg, stt, st, last, check, op, supp, agent, turns, taken>>

Speak ==
    /\ user.talking /\ user.spoken < Phrases
    /\ user' = [user EXCEPT !.spoken = @ + 1]
    /\ UNCHANGED <<cfg, edges, stt, st, last, check, op, supp, agent, turns, taken>>

\* What the recogniser may say next: the beginning of a phrase, all of it, and
\* then its final text; or that it heard nothing.
Said == [phrase : IF cfg.partial THEN Long ELSE {}, whole : {FALSE}, kind : {"interim"}]
        \cup [phrase : 1 .. Phrases, whole : {TRUE}, kind : {"interim", "final"}]
Rank(t) == 3 * t.phrase + (CASE t.kind = "final" -> 2 [] t.whole /\ t.kind = "interim" -> 1 [] OTHER -> 0)

Recognise ==
    /\ stt.queue = <<>> /\ op["turn"].do # "over" /\ (op["turn"].do = "emit" => ~op["turn"].ended)
    /\ \/ \E t \in Said :
            /\ Rank(t) > stt.rank /\ t.phrase <= (stt.rank \div 3) + 1
            /\ t.phrase > Larger(1, stt.rank \div 3) => stt.rank % 3 = 2
            /\ IF t.whole THEN t.phrase <= user.spoken
                          ELSE t.phrase = user.spoken + 1 /\ user.talking
            /\ stt' = [rank |-> Rank(t), queue |-> <<[phrase |-> t.phrase, whole |-> t.whole,
                                                      kind |-> t.kind, age |-> 0]>>]
       \/ /\ stt.rank = 1
          /\ stt' = [rank |-> 2, queue |-> <<[phrase |-> 0, whole |-> TRUE, kind |-> "empty",
                                               age |-> 0]>>]
    /\ UNCHANGED <<cfg, user, edges, st, last, check, op, supp, agent, turns, taken>>

\* _llm_loop takes a turn, whatever its response was doing.
TakeTurn ==
    /\ taken < Len(turns) /\ taken' = taken + 1 /\ agent' = "thinking"
    /\ UNCHANGED <<cfg, user, edges, stt, st, last, check, op, supp, turns>>

\* The response starts to play or comes to nothing; it is over.
AgentGoesOn ==
    /\ \/ agent = "thinking" /\ agent' \in {"playing", "none"}
       \/ agent = "playing" /\ agent' = "none"
    /\ UNCHANGED <<cfg, user, edges, stt, st, last, check, op, supp, turns, taken>>

-----------------------------------------------------------------------------
(* _vad_processor_loop and _handle_speech_event                              *)

Suppress == [on |-> TRUE, stopSeen |-> FALSE, left |-> MaxSilence + 1]
NoSuppress == [on |-> FALSE, stopSeen |-> FALSE, left |-> 0]

VadStart ==
    /\ op["vad"] = Idle /\ edges # <<>> /\ edges[1].kind = "start" /\ edges' = Tail(edges)
    /\ check' = Off
    /\ IF agent = "playing" /\ ~cfg.interrupt
       THEN supp' = Suppress /\ st' = Fresh(st.id)
       ELSE st' = SpeechStarts(st, edges[1].age) /\ UNCHANGED <<supp>>
    /\ UNCHANGED <<cfg, user, stt, last, op, agent, turns, taken>>

\* A stop leads to the smart-turn model, in a thread, or to a decision.
VadStop ==
    /\ op["vad"] = Idle /\ edges # <<>> /\ edges[1].kind = "stop" /\ edges' = Tail(edges)
    /\ edges[1].age >= StopMs \/ Len(edges) > 1
    /\ IF supp.on
       THEN /\ supp' = [on |-> TRUE, stopSeen |-> TRUE, left |-> MaxSilence + 1]
            /\ UNCHANGED <<st, last, check, op, agent>>
       ELSE /\ UNCHANGED supp
            /\ IF cfg.smart
               THEN /\ st' = SpeechStops(st, edges[1].age)
                    /\ op' = [op EXCEPT !["vad"] = [do |-> "classify", stale |-> FALSE]]
                    /\ UNCHANGED <<last, check, agent>>
               ELSE EmitIfReady("vad", SpeechStops(st, edges[1].age), FALSE, check)
    /\ UNCHANGED <<cfg, user, stt, turns, taken>>

\* handle_smart_turn: the verdict goes to whatever turn there is by now.
Verdict ==
    /\ op["vad"].do = "classify"
    /\ \E v \in {"incomplete", "unsure", "complete"} :
          EmitIfReady("vad", [st EXCEPT !.verdict = v, !.judged = 0, !.stale = op["vad"].stale], supp.on, check)
    /\ UNCHANGED <<cfg, user, edges, stt, supp, turns, taken>>

-----------------------------------------------------------------------------
(* _turn_manager_loop                                                        *)

\* _should_suppress_transcript: the suppression as it leaves it.
Expired == supp.on /\ supp.left = 0
Suppresses == IF supp.on THEN ~Expired ELSE agent = "playing" /\ ~cfg.interrupt

TranscriptSuppressed ==
    /\ op["turn"] = Idle /\ stt.queue # <<>> /\ stt' = [stt EXCEPT !.queue = <<>>]
    /\ Suppresses
    /\ supp' = IF stt.queue[1].kind # "interim" /\ supp.stopSeen THEN NoSuppress ELSE supp
    /\ UNCHANGED <<cfg, user, edges, st, last, check, op, agent, turns, taken>>

\* amend_last_emitted_turn
Amended(e) == Merge(last.turn.words, [phrase |-> e.phrase, whole |-> e.whole])
Repairs(e) ==
    /\ st.start = Off /\ e.kind = "final" /\ agent = "thinking"
    /\ last.turn.words # {} /\ last.age - e.age <= MaxSilence
    /\ ~LateDuplicate(e) /\ Amended(e) # last.turn.words

\* _repair_late_transcript_if_possible: the response is cancelled and the
\* amended turn sent after that.
LateRepair ==
    /\ op["turn"] = Idle /\ stt.queue # <<>> /\ stt' = [stt EXCEPT !.queue = <<>>]
    /\ ~Suppresses /\ supp' = IF supp.on THEN NoSuppress ELSE supp
    /\ LET e == stt.queue[1]
           turn == [id |-> last.turn.id, words |-> Amended(e), finals |-> last.turn.finals \cup {e.phrase}]
       IN /\ Repairs(e)
          /\ last' = [turn |-> turn, age |-> e.age]
          /\ op' = [op EXCEPT !["turn"] = [do |-> "emit", turn |-> turn, ended |-> FALSE]]
    /\ agent' = "none"
    /\ UNCHANGED <<cfg, user, edges, st, check, turns, taken>>

\* Without speech only a final text begins a turn, one without a verdict.
Transcript ==
    /\ op["turn"] = Idle /\ stt.queue # <<>> /\ stt' = [stt EXCEPT !.queue = <<>>]
    /\ ~Suppresses /\ supp' = IF supp.on THEN NoSuppress ELSE supp
    /\ LET e == stt.queue[1]
           s == IF st.start = Off THEN [NoVerdict(st) EXCEPT !.skipped = TRUE] ELSE st
       IN /\ ~Repairs(e)
          /\ IF st.start = Off /\ (e.kind # "final" \/ (agent = "playing" /\ ~cfg.interrupt))
             THEN UNCHANGED <<st, last, check, op, agent>>
             ELSE EmitIfReady("turn", Hears(s, e), FALSE, check)
    /\ UNCHANGED <<cfg, user, edges, turns, taken>>

\* The end of the stream: what text there is makes a turn (force_emit).
TranscriptsEnd ==
    /\ cfg.ends /\ op["turn"] = Idle /\ stt.queue = <<>>
    /\ IF Text(st) # {} THEN BuildTurn("turn", st, TRUE)
                        ELSE /\ check' = Off /\ op' = [op EXCEPT !["turn"] = [do |-> "over"]]
                             /\ UNCHANGED <<st, last>>
    /\ UNCHANGED <<cfg, user, edges, stt, supp, agent, turns, taken>>

-----------------------------------------------------------------------------
(* _delayed_turn_check, and what the tasks do after their suspension         *)

CheckFires ==
    /\ check = 0 /\ op["check"] = Idle
    /\ EmitIfReady("check", st, supp.on, Off)
    /\ UNCHANGED <<cfg, user, edges, stt, supp, turns, taken>>

FinishEmit(a) ==
    /\ op[a].do = "emit" /\ turns' = Append(turns, op[a].turn)
    /\ op' = [op EXCEPT ![a] = IF op[a].ended THEN [do |-> "over"] ELSE Idle]
    /\ UNCHANGED <<cfg, user, edges, stt, st, last, check, supp, agent, taken>>

\* The retry discards the turn it finds after the cancellation.
FinishRetry(a) ==
    /\ op[a].do = "retry"
    /\ st' = Fresh(st.id) /\ Become(a, Idle, TRUE) /\ agent' = "playing"
    /\ UNCHANGED <<cfg, user, edges, stt, last, check, supp, turns, taken>>

Tick ==
    /\ \A i \in DOMAIN edges : edges[i].age < MaxLag
    /\ \A i \in DOMAIN stt.queue : stt.queue[i].age < MaxLag
    /\ edges' = [i \in DOMAIN edges |-> [edges[i] EXCEPT !.age = @ + 1]]
    /\ stt' = [stt EXCEPT !.queue =
                  [i \in DOMAIN stt.queue |-> [stt.queue[i] EXCEPT !.age = @ + 1]]]
    /\ st' = [st EXCEPT !.start = Older(@, MaxLag + MinAudio), !.speech = Older(@, Cap),
                        !.heard = Older(@, Cap), !.judged = Older(@, Cap)]
    /\ last' = [last EXCEPT !.age = Older(@, MaxLag + MaxSilence + 1)]
    /\ check' = IF check = Off THEN Off ELSE Larger(check - 1, 0)
    /\ supp' = [supp EXCEPT !.left = Larger(@ - 1, 0)]
    /\ UNCHANGED <<cfg, user, op, agent, turns, taken>>

-----------------------------------------------------------------------------
Init ==
    /\ cfg \in Configs
    /\ user = [talking |-> FALSE, talks |-> 0, spoken |-> 0]
    /\ edges = <<>> /\ stt = [queue |-> <<>>, rank |-> 1]
    /\ st = Fresh(0) /\ last = [turn |-> [id |-> 0, words |-> {}, finals |-> {}], age |-> Off]
    /\ check = Off /\ op = [a \in Actors |-> Idle]
    /\ supp = NoSuppress
    /\ agent = IF cfg.greeting THEN "playing" ELSE "none"
    /\ turns = <<>> /\ taken = 0

Next ==
    \/ StartTalk \/ StopTalk \/ Speak \/ Recognise
    \/ TakeTurn \/ AgentGoesOn
    \/ VadStart \/ VadStop \/ Verdict
    \/ TranscriptSuppressed \/ LateRepair \/ Transcript \/ TranscriptsEnd
    \/ CheckFires
    \/ \E a \in Actors : FinishEmit(a) \/ FinishRetry(a)
    \/ Tick

Spec == Init /\ [][Next]_vars

-----------------------------------------------------------------------------
(* Properties                                                                *)

Ages(cap) == {Off} \cup 0 .. cap
TypeOK ==
    /\ st.start \in Ages(MaxLag + MinAudio) /\ st.dur \in 0 .. MinAudio
    /\ st.speech \in Ages(Cap) /\ st.heard \in Ages(Cap) /\ st.judged \in Ages(Cap)
    /\ st.interim \subseteq Tokens /\ st.frags \subseteq 1 .. Phrases
    /\ check \in Ages(Larger(Cap, MinSpeech))
    /\ \A i \in DOMAIN edges : edges[i].age \in 0 .. MaxLag
    /\ \A i \in DOMAIN turns : turns[i].words \subseteq Tokens /\ turns[i].words # {}

\* A verdict of the smart-turn model never decides about a turn whose audio
\* it did not judge, though it is applied to whatever turn is current.
VerdictIsOfThisTurn ==
    cfg.smart /\ st.start # Off /\ ~st.skipped /\ st.verdict = "complete" => ~st.stale

\* While there is text and the caller is silent, some task will look at the
\* turn again: the check sleeps, or the VAD loop waits for a verdict.
TextHasACheck ==
    st.start # Off /\ Text(st) # {} /\ ~st.speaking /\ op["turn"].do # "over"
        => check # Off \/ op["vad"].do = "classify"

\* The final text of a phrase is in one turn at most (an amended turn keeps
\* its id), whichever of the three tasks emitted it.
InHand == {op[a].turn : a \in {b \in Actors : op[b].do = "emit"}}
Emitted == InHand \cup {turns[i] : i \in DOMAIN turns}
FinalTextOnce == \A t, u \in Emitted : t.id # u.id => t.finals \cap u.finals = {}

\* Final text that made it to the turn is in the turn, in an emitted one, or
\* was discarded: because it overlapped the agent's speech, or by a retry
\* that was cancelling the old response when the text came.
NothingHeardIsLost ==
    [][\A p \in st.frags :
         \/ p \in st'.frags
         \/ \E t \in Emitted' : p \in t.finals
         \/ supp'.on
         \/ \E a \in Actors : op[a].do = "retry" /\ op'[a].do # "retry"]_vars

\* When the caller has been silent, and the recogniser too, for as long as a
\* turn ever waits, a speech that was long enough is a turn, whatever the
\* signals that came and the order they came in: the next check emits it.
Overdue ==
    /\ st.start # Off /\ Text(st) # {} /\ ~st.speaking /\ Duration(st) >= MinSpeech
    /\ Silence(st) >= MaxSilence /\ OrElse(st.heard, MaxSilence) >= MaxSilence
    /\ OrElse(st.judged, Grace) >= Grace
OverdueTextIsEmitted == Overdue => Emits(st)
=============================================================================
