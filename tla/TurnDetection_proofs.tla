------------------------ MODULE TurnDetection_proofs ------------------------
(***************************************************************************)
(* Proofs about TurnDetection, for every value of its constants: any number *)
(* of phrases and talks, any settings, any lag of the two event streams.    *)
(***************************************************************************)
EXTENDS TurnDetection, SequenceTheorems, WellFoundedInduction, TLAPS

\* Every set of naturals with a member has a least one.
LEMMA Least ==
  ASSUME NEW T, T \subseteq Nat, T # {}
  PROVE  \E x \in T : \A y \in T : x <= y
  <1> DEFINE R == {ss \in Nat \X Nat : ss[1] < ss[2]}
  <1>1. R = OpToRel(<, Nat)
    BY DEF OpToRel
  <1>2. IsWellFoundedOn(R, Nat)
    BY <1>1, NatLessThanWellFounded
  <1> HIDE DEF R
  <1>3. PICK x \in T : \A y \in T : ~(<<y, x>> \in R)
    BY <1>2, WFMin
  <1>4. \A y \in T : ~(y < x)
    BY <1>3 DEF R
  <1> QED BY <1>3, <1>4

\* The first rule that applies decides; there is one.
LEMMA FirstRule ==
  ASSUME NEW s
  PROVE  \E i \in 1..12 : /\ Decision(s) = Rules(s)[i][1] /\ Rules(s)[i][2]
                          /\ \A j \in 1..(i - 1) : ~Rules(s)[j][2]
  <1> DEFINE r == Rules(s)
             Applies(i) == r[i][2] /\ \A j \in 1..(i - 1) : ~r[j][2]
             T == {i \in 1..12 : r[i][2]}
  <1>1. DOMAIN r = 1..12 /\ r[12][2] = TRUE
    BY DEF Rules
  <1>2. Decision(s) = r[CHOOSE i \in DOMAIN r : Applies(i)][1]
    BY DEF Decision
  <1> HIDE DEF r
  <1>3. 12 \in T
    BY <1>1
  <1>4. PICK i \in T : \A j \in T : i <= j
    <2>1. T \subseteq Nat /\ T # {}
      BY <1>3
    <2> HIDE DEF T
    <2> QED BY <2>1, Least
  <1>5. i \in 1..12 /\ Applies(i)
    BY <1>4
  <1> HIDE DEF T, Applies
  <1>6. \E k \in DOMAIN r : k = (CHOOSE i1 \in DOMAIN r : Applies(i1)) /\ Applies(k)
    BY <1>1, <1>5
  <1>7. PICK k \in 1..12 : Decision(s) = r[k][1] /\ Applies(k)
    BY <1>1, <1>2, <1>6
  <1> QED BY <1>7 DEF Applies, r

-----------------------------------------------------------------------------
(* The states of a turn, and what the handlers make of them.               *)

\* The states of a turn in progress.
States ==
    [id : Nat, speaking : BOOLEAN, start : Ages(MaxLag + MinAudio), speech : Ages(Cap),
     dur : 0..MinAudio, heard : Ages(Cap), interim : SUBSET Tokens, frags : SUBSET (1..Phrases),
     final : BOOLEAN, vadStop : BOOLEAN, verdict : {"incomplete", "unsure", "complete"},
     judged : Ages(Cap), skipped : BOOLEAN, stale : BOOLEAN]

\* The settings, as far as the proofs use them.
LEMMA Settings ==
  /\ Cap \in Nat /\ MaxSilence \in Nat /\ RetryDelay \in Nat /\ Cap >= MaxSilence /\ Cap >= RetryDelay
  /\ MaxLag \in Nat /\ MinAudio \in Nat /\ MaxLag <= Cap /\ Phrases \in Nat
  /\ MinSpeech \in Nat /\ MinSilence \in Nat /\ MinSpeech <= MinAudio /\ MinSilence <= MaxSilence
  /\ MinSpeech > 0 /\ MinAudio > 0 /\ MaxSilence > 0 /\ MinSilence > 0 /\ RetryDelay > 0
  /\ MaxLag <= MaxSilence /\ Grace \in Nat /\ Grace <= RetryDelay
  BY TurnAssumption DEF Cap, Larger

\* The state after _build_turn or a reset.
LEMMA FreshOK ==
  ASSUME NEW id \in Nat
  PROVE  /\ Fresh(id) \in States /\ Fresh(id).start = Off /\ Fresh(id).frags = {} /\ Fresh(id).id = id
         /\ Fresh(id).stale = FALSE /\ Fresh(id).interim = {}
  BY Settings DEF Fresh, States, Ages, Off


\* Arithmetic of ages.
LEMMA AgesOK ==
  /\ \A a \in 0..MaxLag : a \in Ages(Cap) /\ a \in Ages(MaxLag + MinAudio) /\ a # Off /\ a \in Int
  /\ \A a \in Int : Smaller(Larger(a, 0), MinAudio) \in 0..MinAudio
  /\ \A S, a, b : a \in S => (OrElse(b, a) = a \/ OrElse(b, a) = b)
  /\ \A a \in Ages(MaxLag + MinAudio) : a \in Int
  BY Settings DEF Ages, Off, Larger, Smaller, OrElse

\* What a speech start leaves of the state,
LEMMA StartsOK ==
  ASSUME NEW s \in States, NEW age \in 0..MaxLag
  PROVE  /\ SpeechStarts(s, age) \in States
         /\ SpeechStarts(s, age).speaking /\ ~SpeechStarts(s, age).stale
         /\ SpeechStarts(s, age).frags = s.frags /\ SpeechStarts(s, age).interim = s.interim
         /\ SpeechStarts(s, age).id = s.id /\ SpeechStarts(s, age).heard = s.heard
  <1> DEFINE start == OrElse(s.start, age)
             d == Smaller(Larger(start - age, 0), MinAudio)
  <1>1. start \in Ages(MaxLag + MinAudio) /\ d \in 0..MinAudio /\ age \in Ages(Cap) /\ Off \in Ages(Cap)
    <2>1. s.start \in Ages(MaxLag + MinAudio)
      BY DEF States
    <2>2. start \in Ages(MaxLag + MinAudio) /\ start - age \in Int
      BY <2>1, AgesOK DEF OrElse
    <2> QED BY <2>2, AgesOK DEF Ages
  <1>2. SpeechStarts(s, age) =
          [s EXCEPT !.speaking = TRUE, !.start = start, !.speech = age, !.dur = d,
                    !.vadStop = FALSE, !.skipped = FALSE,
                    !.verdict = "incomplete", !.judged = Off, !.stale = FALSE]
    BY DEF SpeechStarts, NoVerdict, States
  <1> HIDE DEF start, d
  <1> QED BY <1>1, <1>2, ZenonT(60) DEF States

\* a speech stop,
LEMMA StopsOK ==
  ASSUME NEW s \in States, NEW age \in 0..MaxLag
  PROVE  LET z == SpeechStops(s, age) IN
         /\ z \in States /\ ~z.speaking /\ z.vadStop
         /\ z.stale = s.stale /\ z.skipped = s.skipped /\ z.start = s.start
         /\ z.frags = s.frags /\ z.interim = s.interim /\ z.id = s.id /\ z.heard = s.heard
  <1> DEFINE d == IF s.start = Off THEN 0 ELSE Smaller(Larger(s.start - age, 0), MinAudio)
  <1>1. d \in 0..MinAudio /\ age \in Ages(Cap)
    <2>1. s.start \in Ages(MaxLag + MinAudio)
      BY DEF States
    <2>2. s.start - age \in Int /\ 0 \in 0..MinAudio
      BY <2>1, AgesOK, Settings
    <2> QED BY <2>2, AgesOK
  <1>2. SpeechStops(s, age) = [s EXCEPT !.speaking = FALSE, !.speech = age, !.vadStop = TRUE, !.dur = d]
    BY DEF SpeechStops
  <1> HIDE DEF d
  <1> QED BY <1>1, <1>2, ZenonT(60) DEF States

\* The transcripts; only an empty one is of no phrase.
Events ==
    [phrase : 0..Phrases, whole : BOOLEAN, kind : {"interim", "final", "empty"}, age : 0..MaxLag]
EventOK(e) == e \in Events /\ (e.kind # "empty" => e.phrase \in 1..Phrases)

\* and a transcript: a turn that has begun goes on, and gains one phrase at most.
LEMMA HearsOK ==
  ASSUME NEW s \in States, NEW e, EventOK(e)
  PROVE  LET z == Hears(s, e) IN
         /\ z \in States /\ z.speaking = s.speaking /\ z.vadStop = s.vadStop
         /\ z.stale = s.stale /\ z.skipped = s.skipped /\ z.id = s.id /\ s.frags \subseteq z.frags
         /\ \/ z = s /\ s.start = Off
            \/ z.heard # Off /\ z.start # Off /\ (s.start # Off => z.start = s.start)
         /\ z.frags = s.frags \/ (z.frags = s.frags \cup {e.phrase} /\ e.kind = "final")
         /\ e.kind = "final" => z = s \/ z.final
         /\ s.final => z.final
         /\ e.kind # "final" => z.frags = s.frags
  <1> DEFINE d == IF s.speech = Off THEN 0 ELSE Smaller(Larger(e.age - s.speech, 0), MinAudio)
             began == IF s.start = Off THEN [s EXCEPT !.start = e.age, !.dur = d] ELSE s
             heard == [began EXCEPT !.heard = e.age]
  <1>0. e.age \in 0..MaxLag /\ e.kind \in {"interim", "final", "empty"} /\ e.whole \in BOOLEAN
    BY DEF EventOK, Events
  <1>1. d \in 0..MinAudio /\ e.age \in Ages(Cap) /\ e.age \in Ages(MaxLag + MinAudio) /\ e.age # Off
    <2>1. s.speech \in Ages(Cap)
      BY DEF States
    <2>2. s.speech \in Int
      BY <2>1, Settings DEF Ages, Off
    <2>3. e.age - s.speech \in Int /\ 0 \in 0..MinAudio
      BY <1>0, <2>2, AgesOK, Settings
    <2> QED BY <1>0, <2>3, AgesOK
  <1> HIDE DEF d
  <1>2. /\ began \in States /\ began.speaking = s.speaking /\ began.vadStop = s.vadStop
        /\ began.stale = s.stale /\ began.skipped = s.skipped /\ began.id = s.id
        /\ began.frags = s.frags /\ began.final = s.final /\ began.start # Off
        /\ s.start # Off => began.start = s.start
    BY <1>1 DEF States
  <1> HIDE DEF began
  <1>3. /\ heard \in States /\ heard.speaking = s.speaking /\ heard.vadStop = s.vadStop
        /\ heard.stale = s.stale /\ heard.skipped = s.skipped /\ heard.id = s.id
        /\ heard.frags = s.frags /\ heard.final = s.final /\ heard.start # Off /\ heard.heard # Off
        /\ s.start # Off => heard.start = s.start
    BY <1>1, <1>2 DEF States
  <1>4. /\ e.kind # "empty" => e.phrase \in 1..Phrases /\ [phrase |-> e.phrase, whole |-> e.whole] \in Tokens
    BY <1>0 DEF EventOK, Tokens
  <1>5. \/ Hears(s, e) = s /\ s.start = Off
        \/ e.kind = "empty" /\ Hears(s, e) = [heard EXCEPT !.final = TRUE]
        \/ e.kind = "final" /\ Hears(s, e) = [heard EXCEPT !.frags = @ \cup {e.phrase}, !.interim = {}, !.final = TRUE]
        \/ e.kind = "interim" /\ Hears(s, e) = [heard EXCEPT !.interim = {[phrase |-> e.phrase, whole |-> e.whole]}]
    BY <1>0 DEF Hears, heard, began, d
  <1> HIDE DEF heard
  <1>6. CASE Hears(s, e) = s /\ s.start = Off
    BY <1>6
  <1>7. CASE e.kind = "empty" /\ Hears(s, e) = [heard EXCEPT !.final = TRUE]
    BY <1>3, <1>7, ZenonT(60) DEF States
  <1>8. CASE /\ e.kind = "final"
             /\ Hears(s, e) = [heard EXCEPT !.frags = @ \cup {e.phrase}, !.interim = {}, !.final = TRUE]
    <2> DEFINE f == s.frags \cup {e.phrase}
    <2>1. f \in SUBSET (1..Phrases) /\ s.frags \subseteq f
      BY <1>4, <1>8 DEF States
    <2>2. Hears(s, e) = [heard EXCEPT !.frags = f, !.interim = {}, !.final = TRUE]
      BY <1>3, <1>8
    <2>3. f = s.frags \cup {e.phrase}
      OBVIOUS
    <2> HIDE DEF f
    <2>4. LET z == Hears(s, e) IN
          /\ z \in States /\ z.speaking = s.speaking /\ z.vadStop = s.vadStop
          /\ z.stale = s.stale /\ z.skipped = s.skipped /\ z.id = s.id /\ z.frags = f
          /\ z.heard # Off /\ z.start # Off /\ (s.start # Off => z.start = s.start) /\ z.final
      BY <1>3, <2>1, <2>2, ZenonT(60) DEF States
    <2> QED BY <1>8, <2>1, <2>3, <2>4
  <1>9. CASE /\ e.kind = "interim"
             /\ Hears(s, e) = [heard EXCEPT !.interim = {[phrase |-> e.phrase, whole |-> e.whole]}]
    BY <1>3, <1>4, <1>9 DEF States
  <1> QED BY <1>5, <1>6, <1>7, <1>8, <1>9

\* The text of a turn, by its types; there is some if anything was heard.
LEMMA TextOK ==
  ASSUME NEW s \in States
  PROVE  /\ Text(s) \subseteq Tokens
         /\ Text(s) # {} <=> (s.frags # {} \/ s.interim # {})
         /\ \A z \in States : z.frags = s.frags /\ z.interim = s.interim => Text(z) = Text(s)
  <1>1. s.frags \subseteq 1..Phrases /\ s.interim \subseteq Tokens
    BY DEF States
  <1>2. FinalText(s) \subseteq Tokens /\ (s.frags # {} => FinalText(s) # {}) /\ (s.frags = {} => FinalText(s) = {})
    <2>1. \A p \in 1..Phrases : [phrase |-> p, whole |-> TRUE] \in Tokens
      BY DEF Tokens
    <2> QED BY <1>1, <2>1 DEF FinalText
  <1>3. ASSUME NEW t \in Tokens, NEW W \in SUBSET Tokens
        PROVE  Merge(W, t) \subseteq Tokens /\ Merge(W, t) # {}
    BY DEF Merge, Tokens
  <1>4. Text(s) \subseteq Tokens
    BY <1>1, <1>2, <1>3 DEF Text
  <1>5. Text(s) # {} <=> (s.frags # {} \/ s.interim # {})
    BY <1>1, <1>2, <1>3 DEF Text
  <1>6. ASSUME NEW z \in States, z.frags = s.frags, z.interim = s.interim PROVE Text(z) = Text(s)
    BY <1>6 DEF Text, FinalText
  <1> QED BY <1>4, <1>5, <1>6

\* What a decision says of the turn.
LEMMA DecisionOK ==
  ASSUME NEW s
  PROVE  \/ Decision(s) = "no_speech_start" /\ s.start = Off
         \/ /\ s.start # Off
            /\ \/ Decision(s) = "no_text" /\ Text(s) = {}
               \/ /\ Text(s) # {}
                  /\ \/ /\ Decision(s) = "waiting_for_final_transcript"
                        /\ Unfinalized(s) /\ OrElse(s.heard, 0) < MaxSilence
                     \/ Decision(s) = "speech_too_short" /\ Duration(s) < MinSpeech
                     \/ Decision(s) = "not_enough_silence" /\ Silence(s) < MinSilence
                     \/ /\ Decision(s) = "incomplete_connector"
                        /\ EndsOpen(Text(s)) /\ Silence(s) < MaxSilence
                     \/ /\ Decision(s) = "end_of_turn_grace"
                        /\ s.judged # Off /\ s.judged < Grace
                     \/ Decision(s) \in {"smart_turn_complete", "max_silence_force_end"}
                     \/ /\ Decision(s) = "smart_turn_incomplete"
                        /\ ~(Silence(s) >= MaxSilence)
                     \/ Decision(s) = "speech_final_seen"
                     \/ Decision(s) = "no_end_signal" /\ ~s.vadStop /\ ~s.final
  <1> DEFINE R(i) == Rules(s)[i][2]
  <1>1. PICK i \in 1..12 : /\ Decision(s) = Rules(s)[i][1] /\ R(i)
                           /\ \A j \in 1..(i - 1) : ~R(j)
    BY FirstRule
  <1>2. /\ R(1) <=> s.start = Off
        /\ R(2) <=> Text(s) = {}
        /\ R(3) <=> Unfinalized(s) /\ OrElse(s.heard, 0) < MaxSilence
        /\ R(4) <=> Duration(s) < MinSpeech
        /\ R(5) <=> Silence(s) < MinSilence
        /\ R(6) <=> EndsOpen(Text(s)) /\ Silence(s) < MaxSilence
        /\ R(7) => s.judged # Off /\ s.judged < Grace
        /\ R(9) <=> cfg.smart /\ ~s.skipped /\ Silence(s) >= MaxSilence
        /\ R(10) <=> cfg.smart /\ ~s.skipped
        /\ R(11) <=> s.vadStop \/ s.final
    BY DEF Rules
  <1>3. /\ Rules(s)[1][1] = "no_speech_start" /\ Rules(s)[2][1] = "no_text"
        /\ Rules(s)[3][1] = "waiting_for_final_transcript" /\ Rules(s)[4][1] = "speech_too_short"
        /\ Rules(s)[5][1] = "not_enough_silence" /\ Rules(s)[6][1] = "incomplete_connector"
        /\ Rules(s)[7][1] = "end_of_turn_grace" /\ Rules(s)[8][1] = "smart_turn_complete"
        /\ Rules(s)[9][1] = "max_silence_force_end" /\ Rules(s)[10][1] = "smart_turn_incomplete"
        /\ Rules(s)[11][1] = "speech_final_seen" /\ Rules(s)[12][1] = "no_end_signal"
    BY DEF Rules
  <1> HIDE DEF R
  <1>4. i # 1 => s.start # Off
    BY <1>1, <1>2
  <1>5. i \notin {1, 2} => Text(s) # {}
    <2>1. i \notin {1, 2} => 2 \in 1..(i - 1)
      OBVIOUS
    <2> QED BY <1>1, <1>2, <2>1
  <1>6. i = 10 => ~(Silence(s) >= MaxSilence)
    BY <1>1, <1>2
  <1>7. i = 12 => ~s.vadStop /\ ~s.final
    BY <1>1, <1>2
  <1> QED BY <1>1, <1>2, <1>3, <1>4, <1>5, <1>6, <1>7

-----------------------------------------------------------------------------
(* What is decided about a turn, and when it is looked at again.           *)

\* The ages of a turn are no negative numbers, but for Off.
LEMMA StateAges ==
  ASSUME NEW s \in States, s.start # Off
  PROVE  /\ Duration(s) \in Nat /\ Silence(s) \in Nat
         /\ OrElse(s.heard, 0) \in Nat /\ (s.judged # Off => s.judged \in Nat)
  <1>1. /\ s.start \in Ages(MaxLag + MinAudio) /\ s.dur \in 0..MinAudio /\ s.speech \in Ages(Cap)
        /\ s.heard \in Ages(Cap) /\ s.judged \in Ages(Cap)
    BY DEF States
  <1> QED BY <1>1, Settings DEF Ages, Off, Duration, Silence, OrElse

\* The retry is for a turn without text, and soon.
LEMMA RetryLeftOK ==
  ASSUME NEW s \in States
  PROVE  RetryLeft(s) = Off \/ (RetryLeft(s) \in 0..RetryDelay /\ Text(s) = {} /\ s.start # Off)
  <1> SUFFICES ASSUME RetryLeft(s) # Off
               PROVE  RetryLeft(s) \in 0..RetryDelay /\ Text(s) = {} /\ s.start # Off
    OBVIOUS
  <1>1. s.speech \in Ages(Cap) /\ s.heard \in Ages(Cap) /\ s.judged \in Ages(Cap)
    BY DEF States
  <1> DEFINE o == OrElse(s.heard, OrElse(s.judged, OrElse(s.speech, 0)))
  <1>2. o \in Nat
    BY <1>1, Settings DEF OrElse, Ages, Off
  <1>3. Text(s) = {} /\ s.start # Off /\ RetryLeft(s) = Larger(0, RetryDelay - o)
    BY DEF RetryLeft
  <1> HIDE DEF o
  <1> QED BY <1>2, <1>3, Settings DEF Larger

\* How long a check may sleep; Off of one that is not scheduled.
Delays == Ages(Larger(Cap, MinSpeech))

\* A delay of a scheduled check is one.
LEMMA DelaysOK ==
  /\ Off \in Delays /\ 0 \in Delays
  /\ \A n \in Int, m \in {MinSpeech, MinSilence, MaxSilence, RetryDelay, Grace} : n <= m =>
        Larger(1, n) \in Delays /\ Larger(1, n) # Off
  BY Settings DEF Delays, Ages, Off, Larger

\* Without a start there is no other decision.
LEMMA FirstIsNoStart == ASSUME NEW s, s.start = Off PROVE Decision(s) = "no_speech_start"
  BY DecisionOK

\* A turn with text is looked at again unless the caller is talking.
LEMMA NextDelayOK ==
  ASSUME NEW s \in States
  PROVE  /\ NextDelay(s) \in Delays
         /\ s.start # Off /\ Text(s) # {} /\ ~s.speaking /\ (s.vadStop \/ s.final) => NextDelay(s) # Off
  <1>1. CASE s.speaking \/ s.start = Off
    <2>1. ~s.speaking => Decision(s) = "no_speech_start" /\ ~Emits(s)
      BY <1>1, FirstIsNoStart DEF Emits
    <2>2. NextDelay(s) = Off
      BY <1>1, <2>1 DEF NextDelay
    <2> QED BY <1>1, <2>2, DelaysOK
  <1>2. CASE ~s.speaking /\ s.start # Off
    <2>1. /\ Duration(s) \in Nat /\ Silence(s) \in Nat /\ OrElse(s.heard, 0) \in Nat
          /\ s.judged # Off => s.judged \in Nat
      BY <1>2, StateAges
    <2>2. CASE Decision(s) = "no_text"
      <3>1. NextDelay(s) = IF RetryLeft(s) = Off THEN Off ELSE Larger(1, RetryLeft(s))
        BY <1>2, <2>2 DEF NextDelay, Emits
      <3>2. Text(s) = {}
        BY <2>2, DecisionOK
      <3>3. RetryLeft(s) # Off => RetryLeft(s) \in Int /\ RetryLeft(s) <= RetryDelay
        BY RetryLeftOK, Settings
      <3> QED BY <3>1, <3>2, <3>3, DelaysOK
    <2>3. CASE Emits(s)
      <3>1. NextDelay(s) = 0
        BY <1>2, <2>3 DEF NextDelay, Emits
      <3> QED BY <3>1, DelaysOK DEF Off
    <2>4. CASE Decision(s) = "speech_too_short"
      BY <1>2, <2>1, <2>4, DelaysOK, Settings DEF NextDelay, Emits
    <2>5. CASE Decision(s) = "not_enough_silence"
      BY <1>2, <2>1, <2>5, DelaysOK, Settings DEF NextDelay, Emits
    <2>6. CASE Decision(s) = "waiting_for_final_transcript"
      BY <1>2, <2>1, <2>6, DelaysOK, Settings DEF NextDelay, Emits
    <2>7. CASE Decision(s) \in {"smart_turn_incomplete", "incomplete_connector"}
      BY <1>2, <2>1, <2>7, DelaysOK, Settings DEF NextDelay, Emits
    <2>8. CASE Decision(s) = "end_of_turn_grace"
      <3>1. s.judged \in Nat
        BY <1>2, <2>1, <2>8, DecisionOK
      <3> QED BY <1>2, <2>8, <3>1, DelaysOK, Settings DEF NextDelay, Emits
    <2>9. CASE Decision(s) = "no_end_signal"
      <3>1. NextDelay(s) = Off
        BY <1>2, <2>9 DEF NextDelay, Emits
      <3> QED BY <1>2, <2>9, <3>1, DelaysOK, DecisionOK
    <2>10. CASE Decision(s) = "no_speech_start"
      BY <1>2, <2>10, DecisionOK
    <2> QED
      BY DecisionOK, <2>2, <2>3, <2>4, <2>5, <2>6, <2>7, <2>8, <2>9, <2>10 DEF Emits
  <1> QED BY <1>1, <1>2

\* A turn is emitted with its text.
LEMMA EmitsOK ==
  ASSUME NEW s, Emits(s) PROVE s.start # Off /\ Text(s) # {}
  BY DecisionOK DEF Emits

\* What is overdue is emitted.
LEMMA OverdueOK ==
  ASSUME st \in States, st.frags # {} \/ st.interim # {} => st.heard # Off,
         ~st.speaking /\ st.start # Off => st.vadStop \/ st.final
  PROVE  OverdueTextIsEmitted
  <1> SUFFICES ASSUME Overdue PROVE Emits(st)
    BY DEF OverdueTextIsEmitted
  <1>1. /\ Duration(st) \in Nat /\ Silence(st) \in Nat /\ st.heard \in Ages(Cap) /\ st.judged \in Ages(Cap)
        /\ st.heard # Off
    BY StateAges, TextOK DEF Overdue, States
  <1>2. OrElse(st.heard, 0) = OrElse(st.heard, MaxSilence) /\ OrElse(st.heard, 0) \in Int
    BY <1>1, Settings DEF OrElse, Ages, Off
  <1>3. ~(OrElse(st.heard, 0) < MaxSilence) /\ ~(Duration(st) < MinSpeech)
        /\ ~(Silence(st) < MinSilence) /\ Silence(st) >= MaxSilence /\ ~(Silence(st) < MaxSilence)
    BY <1>1, <1>2, Settings DEF Overdue
  <1>4. ~(st.judged # Off /\ st.judged < Grace)
    BY <1>1, Settings DEF Overdue, OrElse, Ages, Off
  <1> QED BY DecisionOK, <1>3, <1>4 DEF Overdue, Emits

-----------------------------------------------------------------------------
(* The three tasks, and the turns they emit.                               *)

\* Emitted turns, and what a task may be suspended for.
Turns == [id : Nat, words : SUBSET Tokens, finals : SUBSET (1..Phrases)]
Ops == [do : {"idle", "retry", "over"}] \cup [do : {"emit"}, turn : Turns, ended : BOOLEAN]
       \cup [do : {"classify"}, stale : BOOLEAN]

\* Where the tasks can be.
OpsOK ==
    /\ op \in [Actors -> Ops]
    /\ \A a \in Actors : op[a].do = "classify" => a = "vad"

\* The three tasks.
LEMMA ActorsOK == "vad" \in Actors /\ "turn" \in Actors /\ "check" \in Actors
                  /\ \A a \in Actors : a = "vad" \/ a = "turn" \/ a = "check"
  BY DEF Actors

\* What a suspended task holds.
LEMMA OpOK ==
  ASSUME NEW o \in Ops
  PROVE  /\ o.do \in {"idle", "retry", "over", "emit", "classify"}
         /\ o.do = "emit" => o.turn \in Turns /\ o \in [do : {"emit"}, turn : Turns, ended : BOOLEAN]
         /\ o.do = "classify" => o \in [do : {"classify"}, stale : BOOLEAN]
         /\ o.do = "idle" => o = Idle
  BY DEF Ops, Idle

\* A pending verdict whose turn is gone.
LEMMA StaleOK ==
  ASSUME NEW o \in Ops, o.do = "classify"
  PROVE  LET n == [o EXCEPT !.stale = TRUE] IN n \in Ops /\ n.do = "classify" /\ n.stale
  <1>1. o \in [do : {"classify"}, stale : BOOLEAN]
    BY OpOK
  <1> QED BY <1>1 DEF Ops

\* What a task goes on to do, and what becomes of the others.
LEMMA BecomeOK ==
  ASSUME OpsOK, NEW a \in Actors, NEW now \in Ops, NEW replaced \in BOOLEAN, Become(a, now, replaced),
         now.do = "classify" => a = "vad"
  PROVE  /\ OpsOK' /\ op'[a] = now
         /\ \A b \in Actors : b # a => /\ op'[b].do = op[b].do
                                       /\ ~replaced => op'[b] = op[b]
                                       /\ op[b].do # "classify" => op'[b] = op[b]
  <1>1. \A b \in Actors : op[b] \in Ops
    BY DEF OpsOK
  <1>2. /\ op'[a] = now
        /\ \A b \in Actors : b # a /\ replaced /\ op[b].do = "classify" => op'[b] = [op[b] EXCEPT !.stale = TRUE]
        /\ \A b \in Actors : b # a /\ ~(replaced /\ op[b].do = "classify") => op'[b] = op[b]
    BY DEF Become
  <1>3. ASSUME NEW b \in Actors, b # a
        PROVE  /\ op'[b] \in Ops /\ op'[b].do = op[b].do
               /\ ~replaced => op'[b] = op[b]
               /\ op[b].do # "classify" => op'[b] = op[b]
    BY <1>1, <1>2, <1>3, StaleOK, ZenonT(60)
  <1>4. op' = [b \in Actors |-> op'[b]]
    BY DEF Become
  <1> HIDE DEF Become
  <1>5. op' \in [Actors -> Ops]
    BY <1>2, <1>3, <1>4
  <1> QED BY <1>2, <1>3, <1>5 DEF OpsOK

\* Where a turn is that was emitted.
LEMMA EmittedIs ==
  ASSUME NEW t
  PROVE  t \in Emitted <=> \/ \E a \in Actors : op[a].do = "emit" /\ op[a].turn = t
                           \/ \E i \in DOMAIN turns : turns[i] = t
  BY DEF Emitted, InHand

\* A task that emits nothing yet goes on to.
LEMMA EmittedAfter ==
  ASSUME OpsOK, NEW a \in Actors, NEW now \in Ops, NEW replaced \in BOOLEAN, Become(a, now, replaced),
         op[a].do # "emit", turns' = turns,
         now.do = "classify" => a = "vad"
  PROVE  /\ now.do # "emit" => Emitted' = Emitted
         /\ now.do = "emit" => Emitted' = Emitted \cup {now.turn}
  <1>1. /\ op'[a] = now
        /\ \A b \in Actors : b # a =>
              (op'[b].do = "emit" <=> op[b].do = "emit") /\ (op[b].do = "emit" => op'[b] = op[b])
    BY BecomeOK
  <1>2. \A t : t \in Emitted' <=> t \in Emitted \/ (now.do = "emit" /\ t = now.turn)
    BY <1>1 DEF Emitted, InHand
  <1> QED BY <1>2

-----------------------------------------------------------------------------
(* The inductive invariant, and the ways a decision can end.               *)

\* The elements of a sequence.
LEMMA ElementsOK == ASSUME NEW R, NEW q \in Seq(R) PROVE \A i \in DOMAIN q : q[i] \in R
  OBVIOUS

\* What holds of a turn in progress, whoever changes it.
StOK(s) ==
    /\ s \in States
    /\ s.stale => s.start = Off \/ s.skipped
    /\ s.start # Off /\ ~s.speaking => s.vadStop \/ s.final
    /\ s.frags # {} \/ s.interim # {} => s.heard # Off

\* A verdict on the audio of a turn that is gone comes to none, or to one that
\* pays no attention to it.
Judged(s) == op["vad"].do = "classify" /\ op["vad"].stale => s.start = Off \/ s.skipped

\* Final text that is in a turn in progress is in no other, nor comes again.
Known == {last.turn} \cup Emitted
Ranks(p) == 3 * p + 2 <= stt.rank
OnlyIn(s) == \A p \in s.frags : Ranks(p) /\ \A t \in Known : p \notin t.finals
Coming(p) == \E i \in DOMAIN stt.queue : stt.queue[i].kind = "final" /\ stt.queue[i].phrase = p
Once ==
    /\ OnlyIn(st)
    /\ \A t \in Known : t.id <= st.id /\ \A p \in t.finals : Ranks(p)
    /\ \A t, u \in Known : t.id # u.id => \A p \in t.finals : p \notin u.finals
    /\ \A p \in 1..Phrases : Coming(p) => Ranks(p) /\ p \notin st.frags /\ \A t \in Known : p \notin t.finals

\* What is recorded of the turns; every emitted one has text.
Recorded ==
    /\ last \in [turn : Turns, age : Int] /\ check \in Delays
    /\ turns \in Seq(Turns) /\ \A t \in Emitted : t.words # {}
\* The part of the invariant that is about turns.
Core == StOK(st) /\ OpsOK /\ Judged(st) /\ TextHasACheck /\ Once /\ Recorded

\* The ways a decision can end: the turn goes on, is dropped or is emitted.
Kept(a, s) ==
    /\ st' = s /\ last' = last /\ check' \in Delays
    /\ \E o \in {Idle, [do |-> "retry"]} : Become(a, o, FALSE)
    /\ s.start # Off /\ Text(s) # {} /\ ~s.speaking => check' # Off
Dropped(a, s) == st' = Fresh(s.id) /\ last' = last /\ check' \in Delays /\ Become(a, Idle, TRUE)

\* A turn is dropped by a decision only if it has no text, or if it is suppressed;
\* one that is emitted has text.
LEMMA EmitShapes ==
  ASSUME NEW a, NEW s, StOK(s), NEW suppressed \in BOOLEAN, NEW due \in Delays,
         EmitIfReady(a, s, suppressed, due)
  PROVE  \/ Kept(a, s)
         \/ Dropped(a, s) /\ (suppressed \/ Text(s) = {})
         \/ BuildTurn(a, s, FALSE) /\ Text(s) # {} /\ s.start # Off
  <1>0. s \in States
    BY DEF StOK
  <1>1. CASE suppressed /\ (s.start # Off \/ Text(s) # {})
    BY <1>1 DEF EmitIfReady, Dropped
  <1>2. CASE suppressed /\ s.start = Off /\ Text(s) = {}
    BY <1>2 DEF EmitIfReady, Kept
  <1>3. CASE ~suppressed /\ Emits(s) /\ BuildTurn(a, s, FALSE)
    BY <1>3, EmitsOK
  <1>4. CASE ~suppressed /\ RetryLeft(s) = 0 /\ StartRetry(a, s)
    <2>1. Text(s) = {}
      BY <1>0, <1>4, RetryLeftOK DEF Off
    <2> QED BY <1>4, <2>1, DelaysOK DEF StartRetry, Kept, Dropped
  <1>5. CASE ~suppressed /\ Schedule(a, s, due)
    <2>1. s.start # Off /\ Text(s) # {} /\ ~s.speaking => NextDelay(s) # Off
      BY <1>0, NextDelayOK DEF StOK
    <2>2. check' \in Delays
      BY <1>0, <1>5, NextDelayOK DEF Schedule
    <2> QED BY <1>5, <2>1, <2>2 DEF Schedule, Kept
  <1> QED BY <1>1, <1>2, <1>3, <1>4, <1>5 DEF EmitIfReady

\* The recogniser's side of a step: nothing new comes, or nothing is left.
Quiet(s) == stt'.rank = stt.rank /\ (stt'.queue = <<>> \/ (stt'.queue = stt.queue /\ s.frags = st.frags))

\* A turn that goes on,
LEMMA KeptOK ==
  ASSUME Core, NEW a \in Actors, op[a].do \in {"idle", "classify", "retry"}, NEW s, StOK(s), s.id = st.id,
         a # "vad" => Judged(s), OnlyIn(s), Kept(a, s), turns' = turns, Quiet(s)
  PROVE  Core'
  <1>1. PICK o \in {Idle, [do |-> "retry"]} : Become(a, o, FALSE)
    BY DEF Kept
  <1>2. o \in Ops /\ o.do \in {"idle", "retry"}
    BY <1>1 DEF Idle, Ops
  <1>3. /\ OpsOK' /\ op'[a] = o /\ Emitted' = Emitted
        /\ \A b \in Actors : b # a => op'[b] = op[b]
    BY <1>1, <1>2, BecomeOK, EmittedAfter DEF Core
  <1>4. st' = s /\ last' = last /\ check' \in Delays /\ Known' = Known
    BY <1>3 DEF Kept, Known
  <1>5. Judged(st)'
    BY <1>2, <1>3, <1>4, ActorsOK DEF Judged
  <1>6. TextHasACheck'
    <2>1. s.start # Off /\ Text(s) # {} /\ ~s.speaking => check' # Off
      BY DEF Kept
    <2>2. Text(st)' = Text(s)
      BY <1>4 DEF Text, FinalText
    <2> QED BY <1>4, <2>1, <2>2 DEF TextHasACheck
  <1>7. Once'
    <2>1. \A p : Coming(p)' => Coming(p) /\ s.frags = st.frags
      BY DEF Quiet, Coming
    <2>2. \A p : Ranks(p)' <=> Ranks(p)
      BY DEF Quiet, Ranks
    <2> QED BY <1>4, <2>1, <2>2 DEF Core, Once, OnlyIn
  <1> QED BY <1>3, <1>4, <1>5, <1>6, <1>7 DEF Core, Recorded, StOK

\* one that is dropped,
LEMMA DroppedOK ==
  ASSUME Core, NEW a \in Actors, op[a].do \in {"idle", "classify", "retry"}, NEW s, s.id = st.id,
         Dropped(a, s), turns' = turns, stt'.rank = stt.rank, stt'.queue = <<>> \/ stt'.queue = stt.queue
  PROVE  Core'
  <1>2. Idle \in Ops /\ Idle.do = "idle"
    BY DEF Idle, Ops
  <1>3. OpsOK' /\ Emitted' = Emitted
    BY <1>2, BecomeOK, EmittedAfter DEF Core, Dropped
  <1>4. /\ st' = Fresh(st.id) /\ last' = last /\ check' \in Delays /\ Known' = Known
        /\ st' \in States /\ st'.start = Off /\ st'.frags = {} /\ st'.interim = {} /\ st'.id = st.id
        /\ st'.stale = FALSE
    BY <1>3, FreshOK DEF Dropped, Known, Core, StOK, States
  <1>5. StOK(st') /\ Judged(st)' /\ TextHasACheck'
    BY <1>4 DEF Judged, TextHasACheck, StOK
  <1>7. Once'
    <2>1. \A p : Coming(p)' => Coming(p)
      BY DEF Coming
    <2>2. \A p : Ranks(p)' <=> Ranks(p)
      BY DEF Ranks
    <2> QED BY <1>4, <2>1, <2>2 DEF Core, Once, OnlyIn
  <1> QED BY <1>3, <1>4, <1>5, <1>7 DEF Core, Recorded, StOK

\* and one that is emitted: its final text is in no other turn.
LEMMA BuiltOK ==
  ASSUME Core, NEW a \in Actors, op[a].do \in {"idle", "classify"}, NEW s, StOK(s), s.id = st.id,
         OnlyIn(s), NEW ended \in BOOLEAN, BuildTurn(a, s, ended), Text(s) # {}, turns' = turns, Quiet(s)
  PROVE  Core'
  <1> DEFINE turn == [id |-> s.id + 1, words |-> Text(s), finals |-> s.frags]
             o == [do |-> "emit", turn |-> turn, ended |-> ended]
  <1>1. turn \in Turns /\ turn.id = st.id + 1 /\ turn.words # {} /\ turn.finals = s.frags
    BY TextOK DEF StOK, States, Turns
  <1>2. Become(a, o, TRUE) /\ st' = Fresh(s.id + 1) /\ last' = [turn |-> turn, age |-> 0] /\ check' = Off
    BY DEF BuildTurn
  <1> HIDE DEF turn
  <1>3. o \in Ops /\ o.do = "emit" /\ o.turn = turn
    BY <1>1 DEF Ops
  <1> HIDE DEF o
  <1>4. OpsOK' /\ Emitted' = Emitted \cup {turn}
    BY <1>2, <1>3, BecomeOK, EmittedAfter DEF Core
  <1>5. /\ last' \in [turn : Turns, age : Int] /\ Known' \subseteq Known \cup {turn} /\ check' \in Delays
    BY <1>1, <1>2, <1>4, DelaysOK DEF Known
  <1>6. /\ st.id \in Nat /\ st' \in States /\ st'.start = Off /\ st'.frags = {} /\ st'.interim = {}
        /\ st'.id = st.id + 1 /\ st'.stale = FALSE
    <2>1. st.id \in Nat
      BY DEF Core, StOK, States
    <2>2. s.id + 1 \in Nat /\ s.id = st.id
      BY <2>1
    <2> QED BY <1>2, <2>1, <2>2, FreshOK
  <1>7. StOK(st') /\ Judged(st)' /\ TextHasACheck'
    BY <1>6 DEF Judged, TextHasACheck, StOK
  <1>8. Once'
    <2>1. \A p : Coming(p)' => Coming(p) /\ s.frags = st.frags
      BY DEF Quiet, Coming
    <2>2. \A p : Ranks(p)' <=> Ranks(p)
      BY DEF Quiet, Ranks
    <2>3. \A t \in Known : t.id <= st.id /\ t.id \in Nat
      <3>1. Known \subseteq Turns
        <4>1. \A t \in Emitted : t \in Turns
          BY EmittedIs, OpOK, ElementsOK DEF Core, OpsOK, Recorded
        <4> QED BY <4>1 DEF Known, Core, Recorded
      <3> QED BY <3>1 DEF Core, Once, Turns
    <2>4. OnlyIn(st)'
      BY <1>6 DEF OnlyIn
    <2>5. \A t \in Known' : t.id <= st'.id /\ \A p \in t.finals : Ranks(p)'
      BY <1>1, <1>5, <1>6, <2>2, <2>3 DEF Core, Once, OnlyIn
    <2>6. \A t, u \in Known' : t.id # u.id => \A p \in t.finals : p \notin u.finals
      BY <1>1, <1>5, <2>3 DEF Core, Once, OnlyIn
    <2>7. \A p \in 1..Phrases : Coming(p)' => Ranks(p)' /\ p \notin st'.frags /\ \A t \in Known' : p \notin t.finals
      BY <1>1, <1>5, <1>6, <2>1, <2>2 DEF Core, Once
    <2> QED BY <2>4, <2>5, <2>6, <2>7 DEF Once
  <1>9. Recorded'
    BY <1>1, <1>4, <1>5 DEF Core, Recorded
  <1> QED BY <1>4, <1>7, <1>8, <1>9 DEF Core

-----------------------------------------------------------------------------
(* The steps of the program, one by one.                                   *)

\* What waits for the loops.
Edges == Seq([kind : {"start", "stop"}, age : 0..MaxLag])
Waiting ==
    /\ edges \in Edges
    /\ stt \in [rank : Int, queue : Seq(Events)]
    /\ \A i \in DOMAIN stt.queue : EventOK(stt.queue[i])
    /\ supp \in [on : BOOLEAN, stopSeen : BOOLEAN, left : Int]

\* The inductive invariant.
IInv == Core /\ Waiting

\* The invariant holds at the beginning.
LEMMA InitOK == Init => IInv
  <1> SUFFICES ASSUME Init PROVE IInv
    OBVIOUS
  <1>1. /\ Fresh(0) \in States /\ Fresh(0).start = Off /\ Fresh(0).frags = {} /\ Fresh(0).interim = {}
        /\ Fresh(0).stale = FALSE /\ Fresh(0).id = 0
    BY FreshOK
  <1>2. StOK(st) /\ Judged(st) /\ TextHasACheck
    BY <1>1 DEF Init, StOK, Judged, TextHasACheck
  <1>3. OpsOK /\ Emitted = {} 
    <2>1. Idle \in Ops /\ Idle.do = "idle"
      BY DEF Idle, Ops
    <2> QED BY <2>1 DEF Init, OpsOK, Emitted, InHand
  <1>4. /\ last.turn \in Turns /\ last.turn.id = 0 /\ last.turn.finals = {}
        /\ last \in [turn : Turns, age : Int] /\ Known = {last.turn}
    BY <1>3 DEF Init, Turns, Off, Known
  <1>5. stt.queue = <<>> /\ stt.rank = 1 /\ DOMAIN stt.queue = {} /\ stt \in [rank : Int, queue : Seq(Events)]
    BY DEF Init
  <1>6. Once
    BY <1>1, <1>4, <1>5 DEF Init, Once, OnlyIn, Coming
  <1>7. Recorded /\ Waiting
    BY <1>3, <1>4, <1>5, DelaysOK DEF Init, Recorded, Waiting, Edges, NoSuppress
  <1> QED BY <1>2, <1>3, <1>6, <1>7 DEF Core, IInv

coreVars == <<st, last, check, op, turns>>

\* Steps that leave the turns alone.
LEMMA SameOK ==
  ASSUME Core, UNCHANGED coreVars, stt'.rank = stt.rank, stt'.queue = <<>> \/ stt'.queue = stt.queue
  PROVE  Core'
  <1>1. Text(st)' = Text(st) /\ Emitted' = Emitted /\ Known' = Known
    BY DEF coreVars, Text, FinalText, Emitted, InHand, Known
  <1>2. \A p : (Coming(p)' => Coming(p)) /\ (Ranks(p)' <=> Ranks(p))
    BY DEF Coming, Ranks
  <1>3. StOK(st)' /\ OpsOK' /\ Judged(st)' /\ TextHasACheck' /\ Recorded'
    BY <1>1 DEF Core, coreVars, StOK, OpsOK, Judged, TextHasACheck, Recorded
  <1>4. Once'
    BY <1>1, <1>2 DEF Core, coreVars, Once, OnlyIn
  <1> QED BY <1>3, <1>4 DEF Core

\* The ends of a queue of edges.
LEMMA EdgesOK ==
  ASSUME edges \in Edges
  PROVE  /\ edges # <<>> => /\ edges[1].age \in 0..MaxLag /\ Tail(edges) \in Edges
                            /\ SubSeq(edges, 1, Len(edges) - 1) \in Edges
         /\ \A e \in [kind : {"start", "stop"}, age : 0..MaxLag] : Append(edges, e) \in Edges
  <1> DEFINE E == [kind : {"start", "stop"}, age : 0..MaxLag]
  <1>1. \A e \in E : e.age \in 0..MaxLag
    OBVIOUS
  <1>2. edges \in Seq(E)
    BY DEF Edges
  <1> HIDE DEF E
  <1>3. edges # <<>> => edges[1] \in E /\ Tail(edges) \in Seq(E) /\ SubSeq(edges, 1, Len(edges) - 1) \in Seq(E)
    BY <1>2
  <1>4. \A e \in E : Append(edges, e) \in Seq(E)
    BY <1>2
  <1> QED BY <1>1, <1>3, <1>4 DEF E, Edges

\* The caller, and the response to the caller.
LEMMA CallerOK == ASSUME IInv, StartTalk \/ StopTalk \/ Speak \/ TakeTurn \/ AgentGoesOn PROVE IInv'
  <1>1. UNCHANGED <<coreVars, stt, supp>>
    BY DEF StartTalk, StopTalk, Speak, TakeTurn, AgentGoesOn, coreVars
  <1>2. edges' \in Edges
    <2>1. \A k \in {"start", "stop"} :
             [kind |-> k, age |-> 0] \in [kind : {"start", "stop"}, age : 0..MaxLag]
      BY Settings
    <2> QED BY <2>1, EdgesOK, ZenonT(60) DEF IInv, Waiting, StartTalk, StopTalk, Speak, TakeTurn,
               AgentGoesOn
  <1> QED BY <1>1, <1>2, SameOK DEF IInv, Waiting

\* A text of the recogniser is the first of its phrase.
LEMMA RecogniseOK == ASSUME IInv, Recognise PROVE IInv'
  <1>1. UNCHANGED <<coreVars, edges, supp>> /\ stt.rank \in Int
    BY DEF Recognise, coreVars, IInv, Waiting
  <1>2. PICK e \in Events, r \in Int :
           /\ EventOK(e) /\ stt' = [rank |-> r, queue |-> <<e>>] /\ r >= stt.rank
           /\ e.kind = "final" => r = 3 * e.phrase + 2 /\ r > stt.rank /\ e.phrase \in 1..Phrases
    <2>1. CASE /\ stt.rank = 1
               /\ stt' = [rank |-> 2, queue |-> <<[phrase |-> 0, whole |-> TRUE, kind |-> "empty", age |-> 0]>>]
      <3> DEFINE e == [phrase |-> 0, whole |-> TRUE, kind |-> "empty", age |-> 0]
      <3>1. EventOK(e) /\ e \in Events /\ e.kind = "empty"
        BY Settings DEF EventOK, Events
      <3> HIDE DEF e
      <3>2. stt' = [rank |-> 2, queue |-> <<e>>]
        BY <2>1 DEF e
      <3>3. 2 \in Int /\ 2 >= stt.rank /\ e.kind # "final"
        BY <2>1, <3>1
      <3> QED BY <3>1, <3>2, <3>3, Zenon
    <2>2. ASSUME NEW t \in Said, Rank(t) > stt.rank,
                 stt' = [rank |-> Rank(t), queue |-> <<[phrase |-> t.phrase, whole |-> t.whole,
                                                      kind |-> t.kind, age |-> 0]>>]
          PROVE  \E e \in Events, r \in Int :
                   /\ EventOK(e) /\ stt' = [rank |-> r, queue |-> <<e>>] /\ r >= stt.rank
                   /\ e.kind = "final" => r = 3 * e.phrase + 2 /\ r > stt.rank /\ e.phrase \in 1..Phrases
      <3> DEFINE e == [phrase |-> t.phrase, whole |-> t.whole, kind |-> t.kind, age |-> 0]
      <3>1. t.phrase \in 1..Phrases /\ t.whole \in BOOLEAN /\ t.kind \in {"interim", "final"}
        BY TurnAssumption DEF Said
      <3>2. EventOK(e) /\ e \in Events /\ e.kind = t.kind /\ e.phrase = t.phrase
        BY <3>1, Settings DEF EventOK, Events
      <3>3. Rank(t) \in Int /\ (t.kind = "final" => Rank(t) = 3 * t.phrase + 2)
        BY <3>1, Settings DEF Rank
      <3>4. stt' = [rank |-> Rank(t), queue |-> <<e>>]
        BY <2>2
      <3> HIDE DEF e
      <3> QED BY <1>1, <2>2, <3>1, <3>2, <3>3, <3>4
    <2> QED BY <2>1, <2>2 DEF Recognise
  <1>3. stt'.rank = r /\ stt'.queue = <<e>>
    BY <1>2
  <1>4. \A p : Coming(p)' => p = e.phrase /\ e.kind = "final"
    BY <1>3 DEF Coming
  <1>5. \A p \in 1..Phrases : Ranks(p) => Ranks(p)'
    BY <1>1, <1>2, <1>3, Settings DEF Ranks
  <1>6. Text(st)' = Text(st) /\ Emitted' = Emitted /\ Known' = Known
    BY <1>1 DEF coreVars, Text, FinalText, Emitted, InHand, Known
  <1>7. StOK(st)' /\ OpsOK' /\ Judged(st)' /\ TextHasACheck' /\ Recorded'
    BY <1>1, <1>6 DEF IInv, Core, coreVars, StOK, OpsOK, Judged, TextHasACheck, Recorded
  <1>8. /\ \A p \in st.frags : p \in 1..Phrases
        /\ \A t \in Known : \A p \in t.finals : p \in 1..Phrases
    <2>1. \A t \in Emitted : t \in Turns
      BY EmittedIs, OpOK, ElementsOK DEF IInv, Core, OpsOK, Recorded
    <2>2. Known \subseteq Turns
      BY <2>1 DEF Known, IInv, Core, Recorded
    <2> QED BY <2>2 DEF IInv, Core, StOK, States, Turns
  <1>9. Once'
    <2>1. /\ OnlyIn(st)'
          /\ \A t \in Known' : t.id <= st'.id /\ \A p \in t.finals : Ranks(p)'
      BY <1>1, <1>5, <1>6, <1>8 DEF IInv, Core, Once, OnlyIn, coreVars
    <2>2. ASSUME NEW p \in 1..Phrases, Coming(p)'
          PROVE  Ranks(p)' /\ p \notin st'.frags /\ \A t \in Known' : p \notin t.finals
      <3>1. p = e.phrase /\ r = 3 * p + 2 /\ r > stt.rank
        BY <1>2, <1>4, <2>2
      <3>2. ~Ranks(p) /\ Ranks(p)'
        BY <1>1, <1>3, <3>1, Settings DEF Ranks
      <3> QED BY <1>1, <1>6, <3>2 DEF IInv, Core, Once, OnlyIn, coreVars
    <2> QED BY <1>6, <2>1, <2>2 DEF IInv, Core, Once
  <1>10. Waiting'
    BY <1>1, <1>2, <1>3 DEF IInv, Waiting, EventOK
  <1> QED BY <1>7, <1>9, <1>10 DEF IInv, Core

\* What the suppression may be set to.
LEMMA SuppressOK ==
  /\ Suppress \in [on : BOOLEAN, stopSeen : BOOLEAN, left : Int]
  /\ NoSuppress \in [on : BOOLEAN, stopSeen : BOOLEAN, left : Int]
  /\ [on |-> TRUE, stopSeen |-> TRUE, left |-> MaxSilence + 1]
       \in [on : BOOLEAN, stopSeen : BOOLEAN, left : Int]
  BY Settings DEF Suppress, NoSuppress

\* A start of speech.
LEMMA VadStartOK == ASSUME IInv, VadStart PROVE IInv'
  <1>1. /\ edges[1].age \in 0..MaxLag /\ edges' \in Edges /\ UNCHANGED <<stt, last, op, turns>>
        /\ check' = Off /\ op["vad"] = Idle
    BY EdgesOK DEF VadStart, IInv, Waiting
  <1>2. /\ StOK(st') /\ st'.id = st.id /\ st'.frags \subseteq st.frags
        /\ st'.speaking \/ st'.start = Off
    <2>1. st \in States /\ st.id \in Nat
      BY DEF IInv, Core, StOK, States
    <2>2. CASE st' = Fresh(st.id)
      BY <2>1, <2>2, FreshOK DEF StOK
    <2>3. CASE st' = SpeechStarts(st, edges[1].age)
      <3> DEFINE z == SpeechStarts(st, edges[1].age)
      <3>1. /\ z \in States /\ z.speaking /\ ~z.stale /\ z.frags = st.frags /\ z.interim = st.interim
            /\ z.id = st.id /\ z.heard = st.heard
        BY <1>1, <2>1, StartsOK
      <3> HIDE DEF z
      <3>2. StOK(z)
        BY <3>1 DEF IInv, Core, StOK
      <3> QED BY <2>3, <3>1, <3>2 DEF z
    <2> QED BY <2>2, <2>3 DEF VadStart
  <1>3. /\ Emitted' = Emitted /\ Known' = Known
        /\ (\A p : Coming(p)' <=> Coming(p)) /\ (\A p : Ranks(p)' <=> Ranks(p))
    BY <1>1 DEF Emitted, InHand, Known, Coming, Ranks
  <1>4. OpsOK' /\ Judged(st)' /\ TextHasACheck' /\ Recorded'
    BY <1>1, <1>2, <1>3, DelaysOK DEF Idle, IInv, Core, OpsOK, Judged, TextHasACheck, Recorded
  <1>5. Once'
    BY <1>2, <1>3 DEF IInv, Core, Once, OnlyIn
  <1>6. Waiting'
    <2>1. supp' \in [on : BOOLEAN, stopSeen : BOOLEAN, left : Int]
      <3>1. supp' = supp \/ supp' = Suppress
        BY DEF VadStart
      <3> QED BY <3>1, SuppressOK DEF IInv, Waiting
    <2> QED BY <1>1, <2>1 DEF IInv, Waiting
  <1> QED BY <1>2, <1>4, <1>5, <1>6 DEF IInv, Core, StOK

\* A turn that goes on from st, decided upon.
LEMMA DecidedOK ==
  ASSUME Core, NEW a \in Actors, op[a].do \in {"idle", "classify"}, NEW s, StOK(s), s.id = st.id,
         a # "vad" => Judged(s), OnlyIn(s), NEW suppressed \in BOOLEAN, NEW due \in Delays,
         EmitIfReady(a, s, suppressed, due), turns' = turns, Quiet(s)
  PROVE  Core'
  <1>1. CASE Kept(a, s)
    BY <1>1, KeptOK
  <1>2. CASE Dropped(a, s)
    BY <1>2, DroppedOK DEF Quiet
  <1>3. CASE BuildTurn(a, s, FALSE) /\ Text(s) # {}
    BY <1>3, BuiltOK
  <1> QED BY <1>1, <1>2, <1>3, EmitShapes

\* The state after a stop of speech.
LEMMA StoppedOK ==
  ASSUME Core, NEW age \in 0..MaxLag
  PROVE  /\ StOK(SpeechStops(st, age)) /\ SpeechStops(st, age).id = st.id
         /\ SpeechStops(st, age).frags = st.frags
  <1>1. st \in States
    BY DEF Core, StOK
  <1> DEFINE z == SpeechStops(st, age)
  <1>2. /\ z \in States /\ ~z.speaking /\ z.vadStop
        /\ z.stale = st.stale /\ z.skipped = st.skipped /\ z.start = st.start
        /\ z.frags = st.frags /\ z.interim = st.interim /\ z.id = st.id /\ z.heard = st.heard
    BY <1>1, StopsOK
  <1> HIDE DEF z
  <1>3. StOK(z)
    BY <1>2 DEF Core, StOK
  <1> QED BY <1>2, <1>3 DEF z

\* A stop of speech, which is decided upon or judged first.
LEMMA VadStopOK == ASSUME IInv, VadStop PROVE IInv'
  <1>1. /\ edges[1].age \in 0..MaxLag /\ edges' \in Edges /\ UNCHANGED <<stt, turns>>
        /\ op["vad"] = Idle /\ op["vad"].do = "idle" /\ "vad" \in Actors
    BY EdgesOK, ActorsOK DEF VadStop, IInv, Waiting, Idle
  <1>2. Core'
    <2>1. CASE UNCHANGED <<st, last, check, op>>
      BY <1>1, <2>1, SameOK DEF IInv, coreVars
    <2> DEFINE z == SpeechStops(st, edges[1].age)
    <2>2. StOK(z) /\ z.id = st.id /\ z.frags = st.frags
      BY <1>1, StoppedOK DEF IInv
    <2>3. OnlyIn(z) /\ Quiet(z)
      BY <1>1, <2>2 DEF IInv, Core, Once, OnlyIn, Quiet
    <2> HIDE DEF z
    <2>4. CASE EmitIfReady("vad", z, FALSE, check)
      BY <1>1, <2>2, <2>3, <2>4, DecidedOK DEF IInv, Core, Recorded
    <2>5. CASE /\ st' = z /\ UNCHANGED <<last, check>>
               /\ op' = [op EXCEPT !["vad"] = [do |-> "classify", stale |-> FALSE]]
      <3> DEFINE o == [do |-> "classify", stale |-> FALSE]
      <3>1. o \in Ops /\ o.do = "classify" /\ o.stale = FALSE
        BY DEF Ops
      <3> HIDE DEF o
      <3>2. OpsOK' /\ op'["vad"] = o /\ \A b \in Actors : b # "vad" => op'[b] = op[b]
        BY <1>1, <2>5, <3>1 DEF OpsOK, IInv, Core, o
      <3>3. Emitted' = Emitted
        <4>1. \A t : t \in Emitted' <=> t \in Emitted
          BY <1>1, <3>1, <3>2 DEF Emitted, InHand
        <4> QED BY <4>1
      <3>4. Known' = Known /\ (\A p : Coming(p)' <=> Coming(p)) /\ (\A p : Ranks(p)' <=> Ranks(p))
        BY <1>1, <2>5, <3>3 DEF Known, Coming, Ranks
      <3>5. Judged(st)' /\ TextHasACheck' /\ Recorded'
        BY <1>1, <2>5, <3>1, <3>2, <3>3 DEF IInv, Core, Judged, TextHasACheck, Recorded
      <3>6. Once'
        BY <2>2, <2>5, <3>4 DEF IInv, Core, Once, OnlyIn
      <3> QED BY <2>2, <2>5, <3>2, <3>5, <3>6 DEF Core
    <2> QED BY <2>1, <2>4, <2>5 DEF VadStop, z
  <1>3. supp' \in [on : BOOLEAN, stopSeen : BOOLEAN, left : Int]
    <2>1. supp' = supp \/ supp' = [on |-> TRUE, stopSeen |-> TRUE, left |-> MaxSilence + 1]
      BY DEF VadStop
    <2> QED BY <2>1, SuppressOK DEF IInv, Waiting
  <1> QED BY <1>1, <1>2, <1>3 DEF IInv, Waiting

\* The verdict of the smart-turn model changes nothing else of the turn.
LEMMA JudgedOK ==
  ASSUME StOK(st), Judged(st), op["vad"].do = "classify", op["vad"].stale \in BOOLEAN,
         NEW v \in {"incomplete", "unsure", "complete"}
  PROVE  LET z == [st EXCEPT !.verdict = v, !.judged = 0, !.stale = op["vad"].stale] IN
         StOK(z) /\ z.frags = st.frags /\ z.id = st.id
  <1> DEFINE z == [st EXCEPT !.verdict = v, !.judged = 0, !.stale = op["vad"].stale]
  <1>1. /\ z \in States /\ z.stale = op["vad"].stale /\ z.skipped = st.skipped /\ z.start = st.start
        /\ z.frags = st.frags /\ z.interim = st.interim /\ z.id = st.id /\ z.heard = st.heard
        /\ z.final = st.final /\ z.vadStop = st.vadStop /\ z.speaking = st.speaking
    <2>1. 0 \in Ages(Cap) /\ st \in States
      BY Settings DEF Ages, StOK
    <2> QED BY <2>1 DEF States
  <1> HIDE DEF z
  <1>2. StOK(z)
    BY <1>1 DEF StOK, Judged
  <1> QED BY <1>1, <1>2 DEF z

\* The verdict, whatever the other tasks did to the turn while the model ran.
LEMMA VerdictOK == ASSUME IInv, Verdict PROVE IInv'
  <1>1. /\ op["vad"].do = "classify" /\ "vad" \in Actors
        /\ UNCHANGED <<edges, stt, supp, turns>> /\ supp.on \in BOOLEAN
    BY ActorsOK DEF Verdict, IInv, Waiting
  <1>2. op["vad"].stale \in BOOLEAN
    BY <1>1, OpOK DEF IInv, Core, OpsOK
  <1>3. PICK v \in {"incomplete", "unsure", "complete"} :
           EmitIfReady("vad", [st EXCEPT !.verdict = v, !.judged = 0, !.stale = op["vad"].stale], supp.on, check)
    BY DEF Verdict
  <1> DEFINE z == [st EXCEPT !.verdict = v, !.judged = 0, !.stale = op["vad"].stale]
  <1>4. StOK(z) /\ z.frags = st.frags /\ z.id = st.id
    BY <1>1, <1>2, JudgedOK DEF IInv, Core
  <1> HIDE DEF z
  <1>5. OnlyIn(z) /\ Quiet(z)
    BY <1>1, <1>4 DEF IInv, Core, Once, OnlyIn, Quiet
  <1>6. Core'
    BY <1>1, <1>3, <1>4, <1>5, DecidedOK DEF IInv, Core, Recorded, z
  <1> QED BY <1>1, <1>6 DEF IInv, Waiting

\* The delayed check.
LEMMA CheckOK == ASSUME IInv, CheckFires PROVE IInv'
  <1>1. /\ op["check"].do = "idle" /\ "check" \in Actors /\ UNCHANGED <<edges, stt, supp, turns>>
        /\ EmitIfReady("check", st, supp.on, Off) /\ supp.on \in BOOLEAN
    BY ActorsOK DEF CheckFires, Idle, IInv, Waiting
  <1>2. StOK(st) /\ OnlyIn(st) /\ Quiet(st) /\ Judged(st)
    BY <1>1 DEF IInv, Core, Once, Quiet
  <1>3. Core'
    BY <1>1, <1>2, DecidedOK, DelaysOK DEF IInv
  <1> QED BY <1>1, <1>3 DEF IInv, Waiting

\* The transcript the loop takes from its queue.
LEMMA NextEventOK ==
  ASSUME IInv, stt.queue # <<>>
  PROVE  /\ EventOK(stt.queue[1]) /\ (stt.queue[1].kind = "final" => Coming(stt.queue[1].phrase))
  <1>1. 1 \in DOMAIN stt.queue
    <2> DEFINE q == stt.queue
    <2>1. q \in Seq(Events) /\ q # <<>>
      BY DEF IInv, Waiting
    <2> HIDE DEF q
    <2>2. Len(q) # 0 /\ Len(q) \in Nat
      BY <2>1, EmptySeq, Zenon
    <2>3. 1 \in DOMAIN q
      BY <2>1, <2>2
    <2> QED BY <2>3 DEF q
  <1> QED BY <1>1 DEF IInv, Waiting, Coming

\* A transcript is taken, and the suppression it meets.
Takes ==
    /\ op["turn"].do = "idle" /\ stt'.rank = stt.rank /\ stt'.queue = <<>>
    /\ UNCHANGED <<edges, turns>> /\ Waiting'

\* The loop takes it before it does anything else.
LEMMA TakesOK ==
  ASSUME IInv, TranscriptSuppressed \/ LateRepair \/ Transcript
  PROVE  Takes /\ stt.queue # <<>>
  <1>1. /\ op["turn"].do = "idle" /\ stt' = [stt EXCEPT !.queue = <<>>] /\ stt.queue # <<>>
        /\ UNCHANGED <<edges, turns>> /\ (supp' = supp \/ supp' = NoSuppress)
    <2>1. op["turn"] = Idle => op["turn"].do = "idle"
      BY DEF Idle
    <2>2. CASE TranscriptSuppressed
      BY <2>1, <2>2 DEF TranscriptSuppressed
    <2>3. CASE LateRepair
      BY <2>1, <2>3 DEF LateRepair
    <2>4. CASE Transcript
      BY <2>1, <2>4 DEF Transcript
    <2> QED BY <2>2, <2>3, <2>4
  <1>2. stt'.rank = stt.rank /\ stt'.queue = <<>> /\ stt' \in [rank : Int, queue : Seq(Events)]
    <2>1. stt \in [rank : Int, queue : Seq(Events)]
      BY DEF IInv, Waiting
    <2>2. <<>> \in Seq(Events)
      OBVIOUS
    <2> QED BY <1>1, <2>1, <2>2
  <1>3. supp' \in [on : BOOLEAN, stopSeen : BOOLEAN, left : Int]
    BY <1>1, SuppressOK DEF IInv, Waiting
  <1> QED BY <1>1, <1>2, <1>3 DEF IInv, Waiting, Takes

\* A transcript that is suppressed.
LEMMA TranscriptSuppressedOK == ASSUME IInv, TranscriptSuppressed PROVE IInv'
  <1>1. UNCHANGED coreVars
    BY DEF TranscriptSuppressed, coreVars
  <1> QED BY <1>1, TakesOK, SameOK DEF IInv, Takes

\* A transcript the turn takes leaves it in good order.
LEMMA HeardOK ==
  ASSUME IInv, Transcript, ~UNCHANGED <<st, last, check, op, agent>>
  PROVE  \E z : /\ StOK(z) /\ z.id = st.id /\ Judged(z) /\ OnlyIn(z) /\ st.frags \subseteq z.frags
                /\ EmitIfReady("turn", z, FALSE, check)
  <1> DEFINE e == stt.queue[1]
             s == IF st.start = Off THEN [NoVerdict(st) EXCEPT !.skipped = TRUE] ELSE st
             z == Hears(s, e)
  <1>1. /\ stt.queue # <<>> /\ EmitIfReady("turn", Hears(s, e), FALSE, check)
        /\ (st.start = Off => e.kind = "final")
    BY DEF Transcript
  <1>2. EventOK(e) /\ (e.kind = "final" => Coming(e.phrase))
    BY <1>1, NextEventOK
  <1>3. st \in States
    BY DEF IInv, Core, StOK
  <1>4. /\ s \in States /\ s.start = st.start /\ s.frags = st.frags /\ s.interim = st.interim /\ s.id = st.id
        /\ s.heard = st.heard /\ s.vadStop = st.vadStop /\ s.final = st.final /\ s.speaking = st.speaking
        /\ st.start = Off => s.skipped /\ ~s.stale
        /\ st.start # Off => s = st
    BY <1>3, Settings, ZenonT(60) DEF NoVerdict, States, Ages, Off
  <1> HIDE DEF s, e
  <1>5. /\ z \in States /\ z.speaking = s.speaking /\ z.vadStop = s.vadStop
        /\ z.stale = s.stale /\ z.skipped = s.skipped /\ z.id = s.id /\ s.frags \subseteq z.frags
        /\ z = s \/ (z.heard # Off /\ z.start # Off)
        /\ z.frags = s.frags \/ (z.frags = s.frags \cup {e.phrase} /\ e.kind = "final")
        /\ e.kind = "final" => z = s \/ z.final
        /\ s.final => z.final
        /\ s.start # Off => z.start = s.start
    BY <1>2, <1>4, HearsOK
  <1>6. EmitIfReady("turn", z, FALSE, check)
    BY <1>1
  <1> HIDE DEF z
  <1>7. StOK(s)
    BY <1>4 DEF IInv, Core, StOK
  <1>8. StOK(z)
    BY <1>1, <1>4, <1>5, <1>7 DEF StOK
  <1>9. Judged(z)
    BY <1>4, <1>5 DEF IInv, Core, Judged
  <1>10. OnlyIn(z)
    <2>1. e.kind = "final" => e.phrase \in 1..Phrases
      BY <1>2 DEF EventOK
    <2> QED BY <1>2, <1>4, <1>5, <2>1 DEF IInv, Core, Once, OnlyIn
  <1>11. z.id = st.id /\ st.frags \subseteq z.frags
    BY <1>4, <1>5
  <1> QED BY <1>6, <1>8, <1>9, <1>10, <1>11

\* A transcript of the turn in progress, or of none.
LEMMA TranscriptOK == ASSUME IInv, Transcript PROVE IInv'
  <1>1. Takes
    BY TakesOK
  <1>2. CASE UNCHANGED <<st, last, check, op, agent>>
    BY <1>1, <1>2, SameOK DEF IInv, coreVars, Takes
  <1>3. CASE ~UNCHANGED <<st, last, check, op, agent>>
    <2>1. PICK z : /\ StOK(z) /\ z.id = st.id /\ Judged(z) /\ OnlyIn(z)
                   /\ EmitIfReady("turn", z, FALSE, check)
      BY <1>3, HeardOK
    <2>2. Core /\ "turn" \in Actors /\ Quiet(z) /\ check \in Delays /\ FALSE \in BOOLEAN
      BY <1>1, ActorsOK DEF IInv, Core, Recorded, Takes, Quiet
    <2>3. Core'
      BY <1>1, <2>1, <2>2, DecidedOK DEF Takes
    <2> QED BY <1>1, <2>3 DEF IInv, Takes
  <1> QED BY <1>2, <1>3

\* The text of an amended turn.
LEMMA MergeOK ==
  ASSUME NEW W \in SUBSET Tokens, NEW t \in Tokens
  PROVE  Merge(W, t) \in SUBSET Tokens /\ Merge(W, t) # {}
  BY DEF Merge, Tokens

\* A transcript that amends the last turn: the amended one keeps its id.
LEMMA LateRepairOK == ASSUME IInv, LateRepair PROVE IInv'
  <1>1. Takes /\ stt.queue # <<>> /\ "turn" \in Actors
    BY TakesOK, ActorsOK
  <1> DEFINE e == stt.queue[1]
             turn == [id |-> last.turn.id, words |-> Amended(e), finals |-> last.turn.finals \cup {e.phrase}]
             o == [do |-> "emit", turn |-> turn, ended |-> FALSE]
  <1>2. /\ UNCHANGED <<st, check>> /\ last' = [turn |-> turn, age |-> e.age]
        /\ op' = [op EXCEPT !["turn"] = o] /\ e.kind = "final" /\ st.start = Off
    BY DEF LateRepair, Repairs
  <1>3. EventOK(e) /\ Coming(e.phrase) /\ e.phrase \in 1..Phrases
    BY <1>1, <1>2, NextEventOK DEF EventOK
  <1>4. turn \in Turns /\ turn.words # {} /\ turn.id = last.turn.id /\ turn.finals = last.turn.finals \cup {e.phrase}
    <2>1. last.turn \in Turns
      BY DEF IInv, Core, Recorded
    <2>2. Amended(e) \in SUBSET Tokens /\ Amended(e) # {}
      <3>1. [phrase |-> e.phrase, whole |-> e.whole] \in Tokens
        BY <1>3 DEF EventOK, Events, Tokens
      <3>2. last.turn.words \in SUBSET Tokens
        BY <2>1 DEF Turns
      <3> QED BY <3>1, <3>2, MergeOK DEF Amended
    <2> QED BY <1>3, <2>1, <2>2 DEF Turns
  <1>5. e.age \in Int
    BY <1>3, Settings DEF EventOK, Events
  <1> HIDE DEF e, turn
  <1>6. o \in Ops /\ o.do = "emit" /\ o.turn = turn
    BY <1>4 DEF Ops
  <1> HIDE DEF o
  <1>7. OpsOK' /\ op'["turn"] = o /\ \A b \in Actors : b # "turn" => op'[b] = op[b]
    BY <1>1, <1>2, <1>6 DEF OpsOK, IInv, Core
  <1>8. Emitted' = Emitted \cup {turn}
    <2>1. \A t : t \in Emitted' <=> t \in Emitted \/ t = turn
      BY <1>1, <1>6, <1>7 DEF Emitted, InHand, Takes
    <2> QED BY <2>1
  <1>9. /\ Known' \subseteq Known \cup {turn} /\ last.turn \in Known /\ last' \in [turn : Turns, age : Int]
    BY <1>2, <1>4, <1>5, <1>8 DEF Known
  <1>10. Judged(st)' /\ TextHasACheck' /\ Recorded'
    <2>1. Judged(st)'
      BY <1>2, <1>7 DEF IInv, Core, Judged
    <2>2. TextHasACheck'
      BY <1>2 DEF TextHasACheck
    <2>3. Recorded'
      BY <1>1, <1>2, <1>4, <1>8, <1>9 DEF IInv, Core, Recorded, Takes
    <2> QED BY <2>1, <2>2, <2>3
  <1>11. Once'
    <2>1. (\A p : ~Coming(p)') /\ (\A p : Ranks(p)' <=> Ranks(p))
      BY <1>1 DEF Coming, Ranks, Takes
    <2>2. Ranks(e.phrase) /\ e.phrase \notin st.frags /\ \A t \in Known : e.phrase \notin t.finals
      BY <1>3 DEF IInv, Core, Once
    <2>3. OnlyIn(st)'
      BY <1>2, <1>4, <1>9, <2>1, <2>2 DEF IInv, Core, Once, OnlyIn
    <2>4. \A t \in Known' : t.id <= st'.id /\ \A p \in t.finals : Ranks(p)'
      BY <1>2, <1>4, <1>9, <2>1, <2>2 DEF IInv, Core, Once
    <2>5. \A t, u \in Known' : t.id # u.id => \A p \in t.finals : p \notin u.finals
      BY <1>4, <1>9, <2>2 DEF IInv, Core, Once
    <2> QED BY <2>1, <2>3, <2>4, <2>5 DEF Once
  <1>12. StOK(st)'
    BY <1>2 DEF IInv, Core, StOK
  <1> QED BY <1>1, <1>7, <1>10, <1>11, <1>12 DEF IInv, Core, Takes

\* The end of the transcripts.
LEMMA TranscriptsEndOK == ASSUME IInv, TranscriptsEnd PROVE IInv'
  <1>1. /\ op["turn"].do = "idle" /\ "turn" \in Actors /\ UNCHANGED <<edges, stt, supp, turns>>
    BY ActorsOK DEF TranscriptsEnd, Idle
  <1>2. CASE BuildTurn("turn", st, TRUE) /\ Text(st) # {}
    <2>1. StOK(st) /\ OnlyIn(st) /\ Quiet(st)
      BY <1>1 DEF IInv, Core, Once, Quiet
    <2>2. Core'
      BY <1>1, <1>2, <2>1, BuiltOK DEF IInv
    <2> QED BY <1>1, <2>2 DEF IInv, Waiting
  <1>3. CASE check' = Off /\ op' = [op EXCEPT !["turn"] = [do |-> "over"]] /\ UNCHANGED <<st, last>>
    <2> DEFINE o == [do |-> "over"]
    <2>1. o \in Ops /\ o.do = "over"
      BY DEF Ops
    <2> HIDE DEF o
    <2>2. OpsOK' /\ op'["turn"] = o /\ \A b \in Actors : b # "turn" => op'[b] = op[b]
      BY <1>1, <1>3, <2>1 DEF OpsOK, IInv, Core, o
    <2>3. Emitted' = Emitted
      <3>1. \A t : t \in Emitted' <=> t \in Emitted
        BY <1>1, <2>1, <2>2 DEF Emitted, InHand
      <3> QED BY <3>1
    <2>4. Known' = Known /\ (\A p : Coming(p)' <=> Coming(p)) /\ (\A p : Ranks(p)' <=> Ranks(p))
      BY <1>1, <1>3, <2>3 DEF Known, Coming, Ranks
    <2>5. StOK(st)' /\ Judged(st)' /\ Recorded'
      BY <1>1, <1>3, <2>1, <2>2, <2>3, DelaysOK DEF IInv, Core, StOK, Judged, Recorded
    <2>6. TextHasACheck'
      BY <2>1, <2>2 DEF TextHasACheck
    <2>7. Once'
      BY <1>3, <2>4 DEF IInv, Core, Once, OnlyIn
    <2> QED BY <1>1, <2>2, <2>5, <2>6, <2>7 DEF IInv, Core, Waiting
  <1> QED BY <1>2, <1>3 DEF TranscriptsEnd

\* A turn a task has in hand is put into turn_event,
LEMMA FinishEmitOK == ASSUME IInv, NEW a \in Actors, FinishEmit(a) PROVE IInv'
  <1> DEFINE o == IF op[a].ended THEN [do |-> "over"] ELSE Idle
  <1>1. /\ op[a].do = "emit" /\ op' = [op EXCEPT ![a] = o] /\ turns' = Append(turns, op[a].turn)
        /\ UNCHANGED <<st, last, check, edges, stt, supp>>
    BY DEF FinishEmit
  <1>2. o \in Ops /\ o.do \in {"idle", "over"} /\ op[a].turn \in Turns
    <2>1. [do |-> "over"] \in Ops /\ Idle \in Ops /\ [do |-> "over"].do = "over" /\ Idle.do = "idle"
      BY DEF Ops, Idle
    <2>2. op[a] \in Ops
      BY DEF IInv, Core, OpsOK
    <2> QED BY <1>1, <2>1, <2>2, OpOK
  <1> HIDE DEF o
  <1>3. OpsOK' /\ op'[a] = o /\ \A b \in Actors : b # a => op'[b] = op[b]
    BY <1>1, <1>2 DEF OpsOK, IInv, Core
  <1>4. /\ turns' \in Seq(Turns)
        /\ \A t : (\E i \in DOMAIN turns' : turns'[i] = t) <=>
              t = op[a].turn \/ \E i \in DOMAIN turns : turns[i] = t
    <2> DEFINE q == turns
               u == op[a].turn
    <2>1. q \in Seq(Turns) /\ u \in Turns /\ turns' = Append(q, u)
      BY <1>1, <1>2 DEF IInv, Core, Recorded
    <2> HIDE DEF q, u
    <2>2. /\ Append(q, u) \in Seq(Turns) /\ Len(q) \in Nat /\ DOMAIN q = 1..Len(q)
          /\ DOMAIN Append(q, u) = 1..(Len(q) + 1) /\ Append(q, u)[Len(q) + 1] = u
          /\ \A i \in 1..Len(q) : Append(q, u)[i] = q[i]
      BY <2>1
    <2>3. \A i \in 1..(Len(q) + 1) : i \in 1..Len(q) \/ i = Len(q) + 1
      BY <2>2
    <2>4. Len(q) + 1 \in 1..(Len(q) + 1) /\ \A i \in 1..Len(q) : i \in 1..(Len(q) + 1)
      BY <2>2
    <2>5. \A t : (\E i \in DOMAIN Append(q, u) : Append(q, u)[i] = t) <=>
             t = u \/ \E i \in DOMAIN q : q[i] = t
      BY <2>2, <2>3, <2>4
    <2> QED BY <2>1, <2>2, <2>5 DEF q, u
  <1>5. Emitted' \subseteq Emitted
    <2>1. \A t : t \in Emitted' => t \in Emitted
      BY <1>1, <1>2, <1>3, <1>4 DEF Emitted, InHand
    <2> QED BY <2>1
  <1>6. Known' \subseteq Known /\ (\A p : Coming(p)' <=> Coming(p)) /\ (\A p : Ranks(p)' <=> Ranks(p))
    BY <1>1, <1>5 DEF Known, Coming, Ranks
  <1>7. Judged(st)' /\ TextHasACheck'
    <2>1. \A b \in Actors : op'[b].do = "classify" => b # a /\ op'[b] = op[b]
      BY <1>2, <1>3
    <2>2. op[a].do # "classify" /\ op[a].do # "over"
      BY <1>1
    <2>3. op["turn"].do = "over" => op'["turn"].do = "over"
      BY <1>3, <2>2, ActorsOK
    <2>4. op["vad"].do = "classify" <=> op'["vad"].do = "classify"
      BY <1>2, <1>3, <2>2, ActorsOK
    <2>5. op'["vad"].do = "classify" => op'["vad"] = op["vad"]
      BY <2>1, ActorsOK
    <2>6. Text(st)' = Text(st)
      BY <1>1 DEF Text, FinalText
    <2> QED BY <1>1, <2>3, <2>4, <2>5, <2>6 DEF IInv, Core, Judged, TextHasACheck
  <1>8. Once' /\ Recorded' /\ StOK(st)' /\ Waiting'
    BY <1>1, <1>4, <1>5, <1>6 DEF IInv, Core, Once, OnlyIn, Recorded, StOK, Waiting
  <1> QED BY <1>3, <1>7, <1>8 DEF IInv, Core

\* and a retry that waited for the cancel discards the turn it finds.
LEMMA FinishRetryOK == ASSUME IInv, NEW a \in Actors, FinishRetry(a) PROVE IInv'
  <1>1. /\ op[a].do = "retry" /\ Dropped(a, st) /\ UNCHANGED <<edges, stt, supp, turns>>
    BY DEF FinishRetry, Dropped, IInv, Core, Recorded
  <1>2. Core'
    BY <1>1, DroppedOK DEF IInv
  <1> QED BY <1>1, <1>2 DEF IInv, Waiting

\* Older is an age if it was one.
LEMMA OlderOK ==
  ASSUME NEW cap \in Nat, NEW age \in Ages(cap)
  PROVE  Older(age, cap) \in Ages(cap) /\ (Older(age, cap) = Off <=> age = Off)
  BY DEF Older, Ages, Off, Smaller

\* Time passes for the turn,
LEMMA TickTurnOK ==
  ASSUME IInv, Tick
  PROVE  /\ StOK(st') /\ (st'.start = Off <=> st.start = Off)
         /\ st'.id = st.id /\ st'.frags = st.frags /\ st'.speaking = st.speaking /\ st'.skipped = st.skipped
         /\ Text(st)' = Text(st)
  <1>1. st \in States
    BY DEF IInv, Core, StOK
  <1> DEFINE a == Older(st.start, MaxLag + MinAudio)
             b == Older(st.speech, Cap)
             c == Older(st.heard, Cap)
             d == Older(st.judged, Cap)
  <1>2. /\ a \in Ages(MaxLag + MinAudio) /\ b \in Ages(Cap) /\ c \in Ages(Cap) /\ d \in Ages(Cap)
        /\ (a = Off <=> st.start = Off) /\ (c = Off <=> st.heard = Off)
    <2>1. /\ st.start \in Ages(MaxLag + MinAudio) /\ st.speech \in Ages(Cap)
          /\ st.heard \in Ages(Cap) /\ st.judged \in Ages(Cap) /\ MaxLag + MinAudio \in Nat
      BY <1>1, Settings DEF States
    <2> QED BY <2>1, OlderOK, Settings
  <1>3. st' = [st EXCEPT !.start = a, !.speech = b, !.heard = c, !.judged = d]
    BY DEF Tick
  <1> HIDE DEF a, b, c, d
  <1>4. /\ st' \in States /\ (st'.start = Off <=> st.start = Off) /\ (st'.heard = Off <=> st.heard = Off)
        /\ st'.id = st.id /\ st'.frags = st.frags /\ st'.speaking = st.speaking /\ st'.skipped = st.skipped
        /\ st'.interim = st.interim /\ st'.stale = st.stale /\ st'.vadStop = st.vadStop /\ st'.final = st.final
    BY <1>1, <1>2, <1>3 DEF States
  <1>5. Text(st)' = Text(st)
    BY <1>4 DEF Text, FinalText
  <1>6. StOK(st')
    BY <1>4 DEF IInv, Core, StOK
  <1> QED BY <1>4, <1>5, <1>6

\* for a transcript,
LEMMA OlderEventOK ==
  ASSUME NEW e, EventOK(e), e.age < MaxLag
  PROVE  LET n == [e EXCEPT !.age = @ + 1] IN
         EventOK(n) /\ n \in Events /\ n.kind = e.kind /\ n.phrase = e.phrase
  <1>1. e \in Events /\ e.age + 1 \in 0..MaxLag
    BY Settings DEF EventOK, Events
  <1> QED BY <1>1 DEF EventOK, Events

\* for what waits for the loops,
LEMMA TickWaitingOK ==
  ASSUME IInv, Tick
  PROVE  /\ Waiting' /\ stt'.rank = stt.rank /\ \A p : Coming(p)' => Coming(p)
  <1> DEFINE E == [kind : {"start", "stop"}, age : 0..MaxLag]
             q == stt.queue
             r == [i \in DOMAIN q |-> [q[i] EXCEPT !.age = @ + 1]]
             f == [i \in DOMAIN edges |-> [edges[i] EXCEPT !.age = @ + 1]]
  <1>1. /\ edges \in Seq(E) /\ q \in Seq(Events) /\ stt \in [rank : Int, queue : Seq(Events)]
        /\ \A i \in DOMAIN q : EventOK(q[i])
    BY DEF IInv, Waiting, Edges
  <1>2. /\ \A i \in DOMAIN edges : edges[i].age < MaxLag
        /\ \A i \in DOMAIN q : q[i].age < MaxLag
        /\ edges' = f /\ stt' = [stt EXCEPT !.queue = r]
        /\ supp' = [supp EXCEPT !.left = Larger(@ - 1, 0)]
    <2>1. /\ \A i \in DOMAIN edges : edges[i].age < MaxLag
          /\ \A i \in DOMAIN q : q[i].age < MaxLag
      BY DEF Tick
    <2>2. edges' = f
      BY Zenon DEF Tick
    <2>3. stt' = [stt EXCEPT !.queue = r]
      BY Zenon DEF Tick
    <2>4. supp' = [supp EXCEPT !.left = Larger(@ - 1, 0)]
      BY Zenon DEF Tick
    <2> QED BY <2>1, <2>2, <2>3, <2>4
  <1>3. \A i \in DOMAIN q : /\ EventOK([q[i] EXCEPT !.age = @ + 1]) /\ [q[i] EXCEPT !.age = @ + 1] \in Events
                            /\ [q[i] EXCEPT !.age = @ + 1].kind = q[i].kind
                            /\ [q[i] EXCEPT !.age = @ + 1].phrase = q[i].phrase
    BY <1>1, <1>2, ElementsOK, OlderEventOK
  <1>4. \A i \in DOMAIN edges : [edges[i] EXCEPT !.age = @ + 1] \in E
    <2>1. \A i \in DOMAIN edges : edges[i] \in E
      BY <1>1, ElementsOK
    <2> QED BY <1>2, <2>1, Settings
  <1>5. f \in Seq(E)
    <2> DEFINE g(i) == [edges[i] EXCEPT !.age = @ + 1]
    <2>1. Len(edges) \in Nat /\ DOMAIN edges = 1..Len(edges)
      BY <1>1
    <2>2. f = [i \in 1..Len(edges) |-> g(i)] /\ \A i \in 1..Len(edges) : g(i) \in E
      BY <1>4, <2>1
    <2> HIDE DEF g, E, f
    <2> QED BY <2>1, <2>2
  <1>6. r \in Seq(Events) /\ DOMAIN r = DOMAIN q
    <2> DEFINE g(i) == [q[i] EXCEPT !.age = @ + 1]
    <2>1. Len(q) \in Nat /\ DOMAIN q = 1..Len(q)
      BY <1>1
    <2>2. r = [i \in 1..Len(q) |-> g(i)] /\ \A i \in 1..Len(q) : g(i) \in Events
      BY <1>3, <2>1
    <2> HIDE DEF g, r, q
    <2> QED BY <2>1, <2>2
  <1>7. \A i \in DOMAIN q : r[i] = [q[i] EXCEPT !.age = @ + 1]
    OBVIOUS
  <1> HIDE DEF E, r, f, q
  <1>8. stt' \in [rank : Int, queue : Seq(Events)] /\ stt'.queue = r /\ stt'.rank = stt.rank
    BY <1>1, <1>2, <1>6
  <1>9. supp' \in [on : BOOLEAN, stopSeen : BOOLEAN, left : Int]
    <2>1. supp \in [on : BOOLEAN, stopSeen : BOOLEAN, left : Int]
      BY DEF IInv, Waiting
    <2>2. Larger(supp.left - 1, 0) \in Int
      BY <2>1 DEF Larger
    <2> QED BY <1>2, <2>1, <2>2
  <1>10. Waiting'
    BY <1>2, <1>3, <1>5, <1>6, <1>7, <1>8, <1>9 DEF Waiting, Edges, E
  <1>11. \A p : Coming(p)' => Coming(p)
    BY <1>3, <1>6, <1>7, <1>8, ZenonT(60) DEF Coming, q
  <1> QED BY <1>8, <1>10, <1>11

\* and for the rest.
LEMMA TickOK == ASSUME IInv, Tick PROVE IInv'
  <1>1. UNCHANGED <<op, turns>> /\ last'.turn = last.turn /\ last' \in [turn : Turns, age : Int]
    <2>1. last \in [turn : Turns, age : Int]
      BY DEF IInv, Core, Recorded
    <2>2. Older(last.age, MaxLag + MaxSilence + 1) \in Int
      BY <2>1, Settings DEF Older, Smaller, Off
    <2> QED BY <2>1, <2>2 DEF Tick
  <1>2. check' \in Delays /\ (check' = Off <=> check = Off)
    BY Settings DEF Tick, IInv, Core, Recorded, Delays, Ages, Off, Larger
  <1>3. Emitted' = Emitted /\ Known' = Known /\ \A p : Ranks(p)' <=> Ranks(p)
    BY <1>1, TickWaitingOK DEF Emitted, InHand, Known, Ranks
  <1>4. OpsOK' /\ Judged(st)' /\ TextHasACheck' /\ Recorded'
    BY <1>1, <1>2, <1>3, TickTurnOK DEF IInv, Core, OpsOK, Judged, TextHasACheck, Recorded
  <1>5. Once'
    BY <1>3, TickTurnOK, TickWaitingOK DEF IInv, Core, Once, OnlyIn
  <1> QED BY <1>4, <1>5, TickTurnOK, TickWaitingOK DEF IInv, Core

\* Every step keeps the invariant,
LEMMA StepOK == IInv /\ [Next]_vars => IInv'
  <1> SUFFICES ASSUME IInv, [Next]_vars PROVE IInv'
    OBVIOUS
  <1>1. CASE UNCHANGED vars
    <2>1. UNCHANGED <<coreVars, edges, stt, supp>>
      BY <1>1 DEF vars, coreVars
    <2> QED BY <2>1, SameOK DEF IInv, Waiting
  <1>2. CASE StartTalk \/ StopTalk \/ Speak \/ TakeTurn \/ AgentGoesOn
    BY <1>2, CallerOK
  <1>3. CASE VadStart \/ VadStop \/ Verdict \/ CheckFires
    BY <1>3, VadStartOK, VadStopOK, VerdictOK, CheckOK
  <1>4. CASE Recognise \/ TranscriptSuppressed \/ LateRepair \/ Transcript \/ TranscriptsEnd
    BY <1>4, RecogniseOK, TranscriptSuppressedOK, LateRepairOK, TranscriptOK, TranscriptsEndOK
  <1>5. CASE \E a \in Actors : FinishEmit(a) \/ FinishRetry(a)
    BY <1>5, FinishEmitOK, FinishRetryOK
  <1>6. CASE Tick
    BY <1>6, TickOK
  <1> QED BY <1>1, <1>2, <1>3, <1>4, <1>5, <1>6 DEF Next

\* so it holds in every behaviour.
LEMMA Always == Spec => []IInv
  BY InitOK, StepOK, PTL DEF Spec

\* No complete verdict on the audio of a turn that is gone decides about the one that
\* followed it, although handle_smart_turn applies it to whatever turn is current.
THEOREM VerdictIsOfThisTurnHolds == Spec => []VerdictIsOfThisTurn
  <1>1. IInv => VerdictIsOfThisTurn
    BY DEF IInv, Core, StOK, VerdictIsOfThisTurn
  <1> QED BY <1>1, Always, PTL

\* While there is text and the caller is silent, a check is scheduled or the smart-turn
\* model will decide: none of the three tasks forgets the turn another one left.
THEOREM TextHasACheckHolds == Spec => []TextHasACheck
  <1>1. IInv => TextHasACheck
    BY DEF IInv, Core
  <1> QED BY <1>1, Always, PTL

\* The final text of a phrase is in one emitted turn at most, however the VAD loop, the
\* turn manager loop and the delayed check interleave, late amendments included.
THEOREM FinalTextOnceHolds == Spec => []FinalTextOnce
  <1>1. IInv => FinalTextOnce
    BY DEF IInv, Core, Once, Known, FinalTextOnce
  <1> QED BY <1>1, Always, PTL

\* Once caller and recogniser have been silent for max_silence, a speech with text that
\* was long enough is emitted by the next evaluation, whichever signals came before.
THEOREM OverdueTextIsEmittedHolds == Spec => []OverdueTextIsEmitted
  <1>1. IInv => OverdueTextIsEmitted
    BY OverdueOK DEF IInv, Core, StOK
  <1> QED BY <1>1, Always, PTL

-----------------------------------------------------------------------------
(* No text is lost: what a step may do to the final text of the turn.      *)

\* What a step may do to the final text p of the turn.
Stays(p) == p \in st'.frags \/ (\E t \in Emitted' : p \in t.finals) \/ supp'.on

\* What a turn is built of is in the emitted one.
LEMMA BuiltKeeps ==
  ASSUME Core, NEW a \in Actors, op[a].do \in {"idle", "classify"}, NEW s \in States, st.frags \subseteq s.frags,
         NEW ended \in BOOLEAN, BuildTurn(a, s, ended), turns' = turns
  PROVE  \A p \in st.frags : Stays(p)
  <1> DEFINE turn == [id |-> s.id + 1, words |-> Text(s), finals |-> s.frags]
             o == [do |-> "emit", turn |-> turn, ended |-> ended]
  <1>1. turn \in Turns /\ turn.finals = s.frags
    BY TextOK DEF States, Turns
  <1>2. Become(a, o, TRUE)
    BY DEF BuildTurn
  <1> HIDE DEF turn
  <1>3. o \in Ops /\ o.do = "emit" /\ o.turn = turn
    BY <1>1 DEF Ops
  <1> HIDE DEF o
  <1>4. turn \in Emitted'
    BY <1>2, <1>3, EmittedAfter DEF Core
  <1> QED BY <1>1, <1>4 DEF Stays

\* A decision discards a turn with text only while speech is suppressed.
LEMMA DecidedKeeps ==
  ASSUME Core, NEW a \in Actors, op[a].do \in {"idle", "classify"}, NEW s, StOK(s), st.frags \subseteq s.frags,
         NEW suppressed \in BOOLEAN, suppressed => supp'.on, NEW due \in Delays,
         EmitIfReady(a, s, suppressed, due), turns' = turns
  PROVE  \A p \in st.frags : Stays(p)
  <1>0. s \in States /\ s.id \in Nat
    BY DEF StOK, States
  <1>1. CASE Kept(a, s)
    BY <1>1 DEF Kept, Stays
  <1>2. CASE suppressed
    BY <1>2 DEF Stays
  <1>3. CASE Text(s) = {}
    BY <1>0, <1>3, TextOK
  <1>4. CASE BuildTurn(a, s, FALSE) /\ Text(s) # {}
    BY <1>0, <1>4, BuiltKeeps
  <1> QED BY <1>1, <1>2, <1>3, <1>4, EmitShapes

\* No step loses final text of the turn: it stays, is emitted, or is discarded while the
\* agent's speech suppresses the caller's, or by a retry that ends.
THEOREM NothingHeardIsLostHolds == Spec => NothingHeardIsLost
  <1> DEFINE Retried == \E a \in Actors : op[a].do = "retry" /\ op'[a].do # "retry"
  <1>1. ASSUME IInv, [Next]_vars, ~UNCHANGED vars PROVE (\A p \in st.frags : Stays(p)) \/ Retried
    <2>0. Core /\ StOK(st) /\ st \in States /\ check \in Delays /\ Off \in Delays /\ supp.on \in BOOLEAN
      BY <1>1, DelaysOK DEF IInv, Core, StOK, Recorded, Waiting
    <2>1. CASE st'.frags = st.frags
      BY <2>1 DEF Stays
    <2>2. CASE VadStart
      <3>1. CASE supp' = Suppress
        BY <3>1 DEF Stays, Suppress
      <3>2. CASE st' = SpeechStarts(st, edges[1].age)
        <4>1. edges[1].age \in 0..MaxLag
          BY <1>1, <2>2, EdgesOK DEF VadStart, IInv, Waiting
        <4> QED BY <2>0, <2>1, <3>2, <4>1, StartsOK
      <3> QED BY <2>2, <3>1, <3>2 DEF VadStart
    <2>3. CASE VadStop
      <3>1. /\ edges[1].age \in 0..MaxLag /\ op["vad"].do = "idle" /\ "vad" \in Actors
            /\ turns' = turns
        BY <1>1, <2>3, EdgesOK, ActorsOK DEF VadStop, IInv, Waiting, Idle
      <3> DEFINE z == SpeechStops(st, edges[1].age)
      <3>2. StOK(z) /\ z.frags = st.frags
        BY <2>0, <3>1, StoppedOK
      <3> HIDE DEF z
      <3>3. CASE EmitIfReady("vad", z, FALSE, check)
        BY <2>0, <3>1, <3>2, <3>3, DecidedKeeps
      <3>4. CASE st' = st \/ st' = z
        BY <2>1, <3>2, <3>4
      <3> QED BY <2>3, <3>3, <3>4 DEF VadStop, z
    <2>4. CASE Verdict
      <3>1. op["vad"].do = "classify" /\ "vad" \in Actors /\ UNCHANGED <<supp, turns>>
        BY <2>4, ActorsOK DEF Verdict
      <3>2. op["vad"].stale \in BOOLEAN
        BY <2>0, <3>1, OpOK DEF Core, OpsOK
      <3>3. PICK v \in {"incomplete", "unsure", "complete"} :
               EmitIfReady("vad", [st EXCEPT !.verdict = v, !.judged = 0, !.stale = op["vad"].stale], supp.on, check)
        BY <2>4 DEF Verdict
      <3> DEFINE z == [st EXCEPT !.verdict = v, !.judged = 0, !.stale = op["vad"].stale]
      <3>4. StOK(z) /\ z.frags = st.frags
        BY <2>0, <3>1, <3>2, JudgedOK DEF Core
      <3> HIDE DEF z
      <3>5. EmitIfReady("vad", z, supp.on, check)
        BY <3>3 DEF z
      <3> QED BY <2>0, <3>1, <3>4, <3>5, DecidedKeeps
    <2>5. CASE CheckFires
      <3>1. /\ op["check"].do = "idle" /\ "check" \in Actors /\ UNCHANGED <<supp, turns>>
            /\ EmitIfReady("check", st, supp.on, Off)
        BY <2>5, ActorsOK DEF CheckFires, Idle
      <3> QED BY <2>0, <3>1, DecidedKeeps
    <2>6. CASE Transcript
      <3>1. CASE st' = st
        BY <2>1, <3>1
      <3>2. CASE st' # st
        <4>1. PICK z : /\ StOK(z) /\ st.frags \subseteq z.frags /\ EmitIfReady("turn", z, FALSE, check)
          BY <1>1, <2>6, <3>2, HeardOK
        <4>2. "turn" \in Actors /\ op["turn"].do = "idle" /\ turns' = turns
          BY <2>6, ActorsOK DEF Transcript, Idle
        <4> QED BY <2>0, <4>1, <4>2, DecidedKeeps
      <3> QED BY <3>1, <3>2
    <2>7. CASE TranscriptsEnd
      <3>1. "turn" \in Actors /\ op["turn"].do = "idle" /\ turns' = turns
        BY <2>7, ActorsOK DEF TranscriptsEnd, Idle
      <3>2. CASE BuildTurn("turn", st, TRUE) /\ Text(st) # {}
        BY <2>0, <3>1, <3>2, BuiltKeeps DEF States
      <3> QED BY <2>1, <2>7, <3>2 DEF TranscriptsEnd
    <2>8. ASSUME NEW a \in Actors, FinishEmit(a) \/ FinishRetry(a)
          PROVE  (\A p \in st.frags : Stays(p)) \/ Retried
      <3>1. CASE FinishEmit(a)
        BY <2>1, <3>1 DEF FinishEmit
      <3>2. CASE FinishRetry(a)
        <4>1. Become(a, Idle, TRUE) /\ op[a].do = "retry"
          BY <3>2 DEF FinishRetry
        <4>2. op'[a].do = "idle"
          BY <2>8, <4>1 DEF Become, Idle
        <4> QED BY <4>1, <4>2
      <3> QED BY <2>8, <3>1, <3>2
    <2>9. CASE Tick
      BY <1>1, <2>1, <2>9, TickTurnOK
    <2>10. CASE \/ StartTalk \/ StopTalk \/ Speak \/ Recognise \/ TakeTurn \/ AgentGoesOn
                \/ TranscriptSuppressed \/ LateRepair
      BY <2>1, <2>10 DEF StartTalk, StopTalk, Speak, Recognise, TakeTurn, AgentGoesOn,
         TranscriptSuppressed, LateRepair
    <2> QED BY <1>1, <2>2, <2>3, <2>4, <2>5, <2>6, <2>7, <2>8, <2>9, <2>10 DEF Next
  <1> HIDE DEF Retried
  <1>2. ASSUME IInv, [Next]_vars
        PROVE  [\A p \in st.frags :
                   \/ p \in st'.frags
                   \/ \E t \in Emitted' : p \in t.finals
                   \/ supp'.on
                   \/ \E a \in Actors : op[a].do = "retry" /\ op'[a].do # "retry"]_vars
    BY <1>1, <1>2 DEF Stays, Retried
  <1> QED BY <1>2, Always, PTL DEF Spec, NothingHeardIsLost

\* The variables keep their types.
THEOREM TypesHold == Spec => []TypeOK
  <1>1. IInv => TypeOK
    <2> SUFFICES ASSUME IInv PROVE TypeOK
      OBVIOUS
    <2>1. st \in States /\ check \in Delays
      BY DEF IInv, Core, StOK, Recorded
    <2>2. \A i \in DOMAIN edges : edges[i].age \in 0..MaxLag
      <3>1. \A i \in DOMAIN edges : edges[i] \in [kind : {"start", "stop"}, age : 0..MaxLag]
        BY ElementsOK DEF IInv, Waiting, Edges
      <3> QED BY <3>1
    <2>3. \A i \in DOMAIN turns : turns[i].words \subseteq Tokens /\ turns[i].words # {}
      <3>1. \A i \in DOMAIN turns : turns[i] \in Turns
        BY ElementsOK DEF IInv, Core, Recorded
      <3>2. \A i \in DOMAIN turns : turns[i] \in Emitted
        BY DEF Emitted
      <3> QED BY <3>1, <3>2 DEF IInv, Core, Recorded, Turns
    <2> QED BY <2>1, <2>2, <2>3 DEF States, Delays, TypeOK
  <1> QED BY <1>1, Always, PTL

=============================================================================
