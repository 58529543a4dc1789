---------------------------- MODULE BargeIn_proofs ----------------------------
(***************************************************************************)
(* Proofs about BargeIn, for every value of its constants.                  *)
(***************************************************************************)
EXTENDS BargeIn, TLAPS

(***************************************************************************)
(* The inductive invariant.                                                 *)
(***************************************************************************)

\* The id manager's state.  Unless the retry creates responses too, only the
\* newest id can be valid, and nothing is while the llm loop is between taking
\* a turn and creating its response.
SeqInv ==
    /\ sm \in [current : 0..MaxSeq, valid : SUBSET Int, invalidated : SUBSET Int]
    /\ SYSTEM_SEQUENCE_ID \in sm.valid
    /\ \A s \in Live(sm) : s \in 1..sm.current
    /\ EmptyRetry \/ \A s \in Live(sm) : s = sm.current
    /\ llmPc \in {"cancelOld", "awaitCleanup"} => EmptyRetry \/ Live(sm) = {}
    /\ llmSeq \in Nat

\* The gate blocks only while nothing is valid.
GateInv ==
    /\ gate \in [state : {"send", "wait", "block"}, blocked : SUBSET Int]
    /\ gate.state = "block" => Live(sm) = {}

\* What the caller was sent late: nothing of a response that is valid, unborn
\* or still waiting at the gate; of the one in hand, what is left fits a frame.
LateInv ==
    /\ late \in [Seqs -> Nat]
    /\ outPc \in {"idle", "waiting", "sending", "checkpoint"}
    /\ outLeft \in 0..Chunks
    /\ outPc # "idle" => outSeq \in (1..sm.current) \cup {SYSTEM_SEQUENCE_ID}
    /\ \A s \in Seqs : late[s] <= Chunks
    /\ \A s \in Seqs : (s > sm.current \/ s \in sm.valid) => late[s] = 0
    /\ outPc = "waiting" /\ outSeq \in Seqs => late[outSeq] = 0
    /\ outPc = "sending" /\ outSeq \in Seqs => late[outSeq] + outLeft <= Chunks

IInv == SeqInv /\ GateInv /\ LateInv

\* The operators of the id manager and of the gate, expanded.
USE DEF None, SYSTEM_SEQUENCE_ID, Seqs

ManagerStates == [current : 0..MaxSeq, valid : SUBSET Int, invalidated : SUBSET Int]

-----------------------------------------------------------------------------
(* What the operators of the id manager do to its state.                    *)

\* create_sequence: the new id becomes valid.
LEMMA CreateOK ==
  ASSUME NEW s0 \in ManagerStates, NextId(s0) <= MaxSeq
  PROVE  /\ CreateSequence(s0) \in ManagerStates
         /\ CreateSequence(s0).current = s0.current + 1
         /\ CreateSequence(s0).valid = s0.valid \cup {s0.current + 1}
         /\ Live(CreateSequence(s0)) = Live(s0) \cup {s0.current + 1}
  <1> USE BoundsAssumption DEF ManagerStates
  <1>1. /\ s0.current \in 0..MaxSeq /\ s0.current + 1 \in 0..MaxSeq
        /\ s0.valid \cup {s0.current + 1} \in SUBSET Int
    BY DEF NextId
  <1>2. CreateSequence(s0) = Manager(s0.current + 1, s0.valid \cup {s0.current + 1},
                                     s0.invalidated)
    BY DEF CreateSequence, NextId
  <1>3. s0.current + 1 # SYSTEM_SEQUENCE_ID
    BY <1>1
  <1>4. CreateSequence(s0) \in ManagerStates
    BY <1>1, <1>2 DEF Manager
  <1> QED
    BY <1>2, <1>3, <1>4 DEF Live, Manager

\* invalidate_pending: nothing stays valid but the system's id.
LEMMA PendingOK ==
  ASSUME NEW s0 \in ManagerStates
  PROVE  /\ InvalidatePending(s0) \in ManagerStates
         /\ InvalidatePending(s0).current = s0.current
         /\ InvalidatePending(s0).valid = {SYSTEM_SEQUENCE_ID}
         /\ Live(InvalidatePending(s0)) = {}
  BY DEF InvalidatePending, Manager, ManagerStates, Live

\* retire and invalidate: at most the given id stops being valid.
LEMMA RetireOK ==
  ASSUME NEW s0 \in ManagerStates, NEW s
  PROVE  /\ Retire(s0, s) \in ManagerStates
         /\ Retire(s0, s).current = s0.current
         /\ Retire(s0, s).valid \subseteq s0.valid
         /\ SYSTEM_SEQUENCE_ID \in s0.valid => SYSTEM_SEQUENCE_ID \in Retire(s0, s).valid
         /\ Live(Retire(s0, s)) \subseteq Live(s0)
  BY DEF Retire, Manager, ManagerStates, Live

LEMMA InvalidateOK ==
  ASSUME NEW s0 \in ManagerStates, NEW s \in Int
  PROVE  /\ Invalidate(s0, s) \in ManagerStates
         /\ Invalidate(s0, s).current = s0.current
         /\ Invalidate(s0, s).valid \subseteq s0.valid
         /\ SYSTEM_SEQUENCE_ID \in s0.valid => SYSTEM_SEQUENCE_ID \in Invalidate(s0, s).valid
         /\ Live(Invalidate(s0, s)) \subseteq Live(s0)
  BY DEF Invalidate, Manager, ManagerStates, Live

-----------------------------------------------------------------------------
(* The invariant holds initially and is preserved by every action.          *)

LEMMA InitIInv == Init => IInv
  <1> SUFFICES ASSUME Init PROVE IInv
    OBVIOUS
  <1> USE BoundsAssumption
  <1>1. sm = IF Greeting THEN CreateSequence(SequenceInit) ELSE SequenceInit
    BY DEF Init
  <1>2. /\ SequenceInit \in ManagerStates /\ SequenceInit.current = 0
        /\ SequenceInit.valid = {SYSTEM_SEQUENCE_ID} /\ Live(SequenceInit) = {}
    BY DEF SequenceInit, Manager, ManagerStates, Live
  <1>3. Greeting => /\ sm \in ManagerStates /\ sm.current = 1
                    /\ sm.valid = {SYSTEM_SEQUENCE_ID, 1} /\ Live(sm) = {1}
    BY <1>1, <1>2, CreateOK DEF NextId
  <1>4. ~Greeting => sm = SequenceInit
    BY <1>1
  <1>5. SeqInv
    BY <1>2, <1>3, <1>4 DEF Init, SeqInv, ManagerStates
  <1>6. GateInv
    BY DEF Init, GateInv, GateInit
  <1>7. LateInv
    BY DEF Init, LateInv
  <1> QED BY <1>5, <1>6, <1>7 DEF IInv

\* Every step is also a step of ResponseLife, or leaves its variables alone.
lifeMap == [s \in Seqs |-> LifeOf(s)]
LifeStep == [Life!LifeNext]_<<lifeMap, late>>

GateStates == [state : {"send", "wait", "block"}, blocked : SUBSET Int]

\* A step that leaves the output loop alone and takes responses off the air at
\* most, without blocking the gate for one that stays.
LEMMA ShrinkOK ==
  ASSUME IInv, UNCHANGED <<late, outVars>>,
         sm' \in ManagerStates, sm'.current = sm.current, sm'.valid \subseteq sm.valid,
         SYSTEM_SEQUENCE_ID \in sm'.valid,
         gate' \in GateStates, gate'.state = "block" => Live(sm') = {},
         llmPc' \in {"cancelOld", "awaitCleanup"} => EmptyRetry \/ Live(sm') = {},
         llmSeq' \in Nat
  PROVE  IInv' /\ LifeStep
  <1>1. SeqInv'
    BY DEF IInv, SeqInv, Live, ManagerStates
  <1>2. GateInv'
    BY DEF GateInv, GateStates
  <1>3. LateInv'
    BY DEF IInv, LateInv, outVars
  <1>4. LifeStep
    <2>1. /\ sm.current \in 0..MaxSeq
          /\ \A s \in Seqs : (IsValid(sm, s) => ~(s > sm.current))
                            /\ (IsValid(sm', s) <=> s \in Live(sm'))
                            /\ (IsValid(sm', s) => IsValid(sm, s))
      BY DEF IInv, SeqInv, Live, IsValid
    <2>2. \A s \in Seqs : LifeOf(s)' = IF s \in Seqs \ Live(sm') /\ LifeOf(s) = "live"
                                      THEN "gone" ELSE LifeOf(s)
      BY <2>1 DEF LifeOf
    <2>3. Life!LeaveAir
      <3>1. lifeMap' = Life!OffAir(Seqs \ Live(sm'))
        BY <2>2 DEF lifeMap, Life!OffAir
      <3> QED BY <3>1 DEF Life!LeaveAir, lifeMap
    <2> QED BY <2>3 DEF LifeStep, Life!LifeNext, lifeMap
  <1> QED BY <1>1, <1>2, <1>3, <1>4 DEF IInv

\* The step that puts the next response on the air.
LEMMA BirthOK ==
  ASSUME IInv, UNCHANGED <<late, outVars>>,
         NEW s0 \in ManagerStates, s0.current = sm.current, s0.valid \subseteq sm.valid,
         SYSTEM_SEQUENCE_ID \in s0.valid, EmptyRetry \/ Live(s0) = {}, NextId(s0) <= MaxSeq,
         NEW g0 \in GateStates,
         sm' = CreateSequence(s0), gate' = SetSend(g0),
         llmSeq' \in Nat, EmptyRetry \/ llmPc' = "saving"
  PROVE  IInv' /\ LifeStep
  <1> USE BoundsAssumption
  <1> DEFINE new == sm.current + 1
  <1>1. /\ sm' \in ManagerStates /\ sm'.current = new
        /\ sm'.valid = s0.valid \cup {new} /\ Live(sm') = Live(s0) \cup {new}
    BY CreateOK
  <1>2. sm.current \in 0..MaxSeq /\ new \in Seqs
    BY <1>1 DEF ManagerStates, IInv, SeqInv
  <1>3. \A s \in Live(s0) : s \in 1..sm.current
    BY DEF IInv, SeqInv, Live
  <1>4. SeqInv'
    BY <1>1, <1>2, <1>3 DEF SeqInv, ManagerStates
  <1>5. gate' \in GateStates /\ gate'.state = "send"
    BY DEF SetSend, GateStates
  <1>6. GateInv'
    BY <1>5 DEF GateInv, GateStates
  <1>7. LateInv'
    BY <1>1, <1>2 DEF IInv, LateInv, outVars
  <1>8. Life!Birth(new)
    <2>1. \A s \in Seqs : /\ (IsValid(sm, s) => ~(s > sm.current))
                         /\ (IsValid(s0, s) <=> s \in Live(s0))
                         /\ (IsValid(s0, s) => IsValid(sm, s))
                         /\ (IsValid(sm', s) <=> s \in Live(s0) \/ s = new)
      BY <1>1 DEF IInv, SeqInv, Live, IsValid
    <2>2. \A s \in Seqs : LifeOf(s)' = IF s = new THEN "live"
                                      ELSE IF s \in Seqs \ Live(s0) /\ LifeOf(s) = "live"
                                           THEN "gone" ELSE LifeOf(s)
      BY <1>1, <1>2, <2>1 DEF LifeOf
    <2>3. lifeMap' = [Life!OffAir(Seqs \ Live(s0)) EXCEPT ![new] = "live"]
      BY <1>2, <2>2 DEF lifeMap, Life!OffAir
    <2>4. LifeOf(new) = "unborn" /\ \A q \in Seqs : q < new => LifeOf(q) # "unborn"
      BY <1>2 DEF LifeOf
    <2>5. ~EmptyRetry => Seqs \ Live(s0) = Seqs
      OBVIOUS
    <2> QED BY <1>2, <2>3, <2>4, <2>5 DEF Life!Birth, lifeMap
  <1>9. LifeStep
    BY <1>2, <1>8 DEF LifeStep, Life!LifeNext, lifeMap
  <1> QED BY <1>4, <1>6, <1>7, <1>9 DEF IInv

\* The llm loop's wait for the cleanup: it creates the response or suspends.
LEMMA AwaitCleanupOK ==
  ASSUME IInv, UNCHANGED <<late, outVars>>,
         NEW s0 \in ManagerStates, s0.current = sm.current, s0.valid \subseteq sm.valid,
         SYSTEM_SEQUENCE_ID \in s0.valid, EmptyRetry \/ Live(s0) = {},
         gate.state = "block" => Live(s0) = {},
         NEW g0 \in GateStates, g0.state = gate.state, NEW i0, AwaitCleanup(s0, g0, i0)
  PROVE  IInv' /\ LifeStep
  <1>1. CASE BeginResponse(s0, g0, i0)
    BY <1>1, CreateOK, BirthOK DEF BeginResponse, NextId, IInv, SeqInv
  <1>2. CASE /\ llmPc' = "awaitCleanup" /\ sm' = s0 /\ gate' = g0 /\ llmSeq' = llmSeq
    <2>1. llmSeq' \in Nat
      BY <1>2 DEF IInv, SeqInv
    <2> QED BY <1>2, <2>1, ShrinkOK
  <1> QED BY <1>1, <1>2 DEF AwaitCleanup

\* A step of the output loop.
LEMMA OutputOK ==
  ASSUME IInv, UNCHANGED <<sm, gate, llmPc, llmSeq>>, LateInv',
         late' = late \/ \E s \in Seqs : /\ ~IsValid(sm, s) /\ ~(s > sm.current)
                                         /\ late[s] < Chunks
                                         /\ late' = [late EXCEPT ![s] = @ + 1]
  PROVE  IInv' /\ LifeStep
  <1>1. IInv'
    BY DEF IInv, SeqInv, GateInv, Live
  <1>2. lifeMap' = lifeMap
    BY DEF lifeMap, LifeOf
  <1>3. ASSUME NEW s \in Seqs, ~IsValid(sm, s), ~(s > sm.current), late[s] < Chunks,
               late' = [late EXCEPT ![s] = @ + 1]
        PROVE  Life!LateChunk(s)
    <2>1. LifeOf(s) = "gone"
      BY <1>3 DEF LifeOf
    <2>2. [t \in Seqs |-> LifeOf(t)]' = [t \in Seqs |-> LifeOf(t)]
      BY <1>2 DEF lifeMap
    <2> QED BY <1>3, <2>1, <2>2 DEF Life!LateChunk
  <1> QED BY <1>1, <1>2, <1>3 DEF LifeStep, Life!LifeNext

-----------------------------------------------------------------------------
(* The actions, one loop at a time.                                         *)

LlmNext == TakeTurn \/ FinishCancelOld \/ CleanupOver \/ LlmSaved \/ StreamSentence \/ StreamEnd

LEMMA LlmOK == ASSUME IInv, LlmNext PROVE IInv' /\ LifeStep
  <1>0. /\ sm \in ManagerStates /\ gate \in GateStates /\ SYSTEM_SEQUENCE_ID \in sm.valid
        /\ llmSeq \in Nat /\ (gate.state = "block" => Live(sm) = {})
    BY DEF IInv, SeqInv, GateInv, ManagerStates, GateStates
  <1>1. CASE TakeTurn
    <2> DEFINE old == Live(sm)
               s0 == InvalidatePending(sm)
               g0 == BlockSequences(gate, old)
    <2>1. /\ s0 \in ManagerStates /\ s0.current = sm.current
          /\ s0.valid = {SYSTEM_SEQUENCE_ID} /\ Live(s0) = {}
      BY <1>0, PendingOK
    <2>2. g0 \in GateStates /\ g0.state = gate.state
      BY <1>0 DEF BlockSequences, Live, ManagerStates, GateStates
    <2>3. UNCHANGED <<late, outVars>>
      BY <1>1 DEF TakeTurn
    <2>4. CASE llmPc' = "cancelOld" /\ sm' = s0 /\ gate' = g0 /\ llmSeq' = llmSeq
      <3> HIDE DEF s0, g0
      <3> QED BY <1>0, <2>1, <2>2, <2>3, <2>4, ShrinkOK
    <2>5. CASE AwaitCleanup(s0, g0, im)
      <3> HIDE DEF s0, g0
      <3> QED BY <1>0, <2>1, <2>2, <2>3, <2>5, AwaitCleanupOK
    <2> QED BY <1>1, <2>4, <2>5 DEF TakeTurn
  <1>2. CASE FinishCancelOld
    <2>1. EmptyRetry \/ Live(sm) = {}
      BY <1>2 DEF FinishCancelOld, IInv, SeqInv
    <2> QED BY <1>0, <1>2, <2>1, AwaitCleanupOK DEF FinishCancelOld
  <1>3. CASE CleanupOver
    <2>1. EmptyRetry \/ Live(sm) = {}
      BY <1>3 DEF CleanupOver, IInv, SeqInv
    <2> QED BY <1>0, <1>3, <2>1, BirthOK
            DEF CleanupOver, BeginResponse, NextId, IInv, SeqInv
  <1>4. CASE LlmSaved
    <2>1. UNCHANGED <<sm, gate, late, outVars>>
      BY <1>4 DEF LlmSaved
    <2>2. llmPc' \in {"streaming", "idle"} /\ llmSeq' \in {llmSeq, None}
      BY <1>4 DEF LlmSaved
    <2> QED BY <1>0, <2>1, <2>2, ShrinkOK
  <1>5. CASE StreamSentence
    <2>1. UNCHANGED <<sm, gate, late, outVars>>
      BY <1>5 DEF StreamSentence
    <2>2. llmPc' \in {"streaming", "idle"} /\ llmSeq' \in {llmSeq, None}
      BY <1>5 DEF StreamSentence, LlmIdle
    <2> QED BY <1>0, <2>1, <2>2, ShrinkOK
  <1>6. CASE StreamEnd
    <2>1. UNCHANGED <<sm, gate, late, outVars>>
      BY <1>6 DEF StreamEnd
    <2>2. llmPc' \in {"streaming", "idle"} /\ llmSeq' \in {llmSeq, None}
      BY <1>6 DEF StreamEnd, LlmIdle
    <2> QED BY <1>0, <2>1, <2>2, ShrinkOK
  <1> QED BY <1>1, <1>2, <1>3, <1>4, <1>5, <1>6 DEF LlmNext

OutputNext == TakeAudio \/ GateReleased \/ GateTimeout \/ SendChunk \/ AudioSent \/ SendCheckpoint

LEMMA OutputNextOK == ASSUME IInv, OutputNext PROVE IInv' /\ LifeStep
  <1> USE BoundsAssumption
  <1>0. /\ sm.current \in 0..MaxSeq
        /\ \A s \in sm.valid : s \in 1..sm.current \cup {SYSTEM_SEQUENCE_ID}
    BY DEF IInv, SeqInv, Live
  <1>1. CASE TakeAudio
    <2>1. CASE UNCHANGED outVars
      BY <1>1, <2>1, OutputOK DEF TakeAudio, IInv, LateInv, outVars, llmVars
    <2>2. CASE \E pc \in {"checkpoint", "waiting", "sending"} :
                  /\ InHand(pc, Head(ttsAudio).seq, IF pc = "sending" THEN Chunks ELSE 0)
                  /\ IsValid(sm, Head(ttsAudio).seq)
      <3>1. LateInv'
        BY <1>0, <1>1, <2>2 DEF TakeAudio, InHand, IsValid, IInv, LateInv
      <3> QED BY <1>1, <3>1, OutputOK DEF TakeAudio, llmVars
    <2> QED BY <1>1, <2>1, <2>2 DEF TakeAudio
  <1>2. CASE GateReleased
    <2>1. LateInv'
      BY <1>2 DEF GateReleased, OutIdle, InHand, IInv, LateInv
    <2> QED BY <1>2, <2>1, OutputOK DEF GateReleased, llmVars
  <1>3. CASE GateTimeout
    <2>1. LateInv'
      BY <1>3 DEF GateTimeout, OutIdle, IInv, LateInv
    <2> QED BY <1>3, <2>1, OutputOK DEF GateTimeout, llmVars
  <1>4. CASE SendChunk
    <2>1. /\ outPc = "sending" /\ outPc' = outPc /\ outSeq' = outSeq /\ sm' = sm
          /\ outLeft \in 1..Chunks /\ outLeft' = outLeft - 1
          /\ outSeq \in (1..sm.current) \cup {SYSTEM_SEQUENCE_ID}
          /\ late \in [Seqs -> Nat]
      BY <1>4 DEF SendChunk, IInv, LateInv
    <2>2. CASE IsValid(sm, outSeq)
      <3>1. late' = late
        BY <1>4, <2>2 DEF SendChunk
      <3>2. LateInv'
        BY <2>1, <3>1 DEF IInv, LateInv
      <3> QED BY <1>4, <3>1, <3>2, OutputOK DEF SendChunk, llmVars
    <2>3. CASE ~IsValid(sm, outSeq)
      <3>1. outSeq \in Seqs /\ outSeq \notin sm.valid /\ ~(outSeq > sm.current)
        BY <1>0, <2>1, <2>3 DEF IsValid, IInv, SeqInv
      <3>2. /\ late' \in [Seqs -> Nat] /\ late'[outSeq] = late[outSeq] + 1
            /\ \A s \in Seqs : s # outSeq => late'[s] = late[s]
        BY <1>4, <2>1, <2>3, <3>1 DEF SendChunk
      <3>3. late[outSeq] + outLeft <= Chunks
        BY <2>1, <3>1 DEF IInv, LateInv
      <3>4. LateInv'
        BY <2>1, <3>1, <3>2, <3>3, SMTT(40) DEF IInv, LateInv
      <3>5. late[outSeq] < Chunks /\ late' = [late EXCEPT ![outSeq] = @ + 1]
        BY <1>4, <2>1, <2>3, <3>1, <3>3 DEF SendChunk
      <3> QED BY <1>4, <2>3, <3>1, <3>4, <3>5, OutputOK DEF SendChunk, llmVars
    <2> QED BY <2>2, <2>3
  <1>5. CASE AudioSent
    <2>1. LateInv'
      BY <1>5 DEF AudioSent, OutIdle, IInv, LateInv
    <2> QED BY <1>5, <2>1, OutputOK DEF AudioSent, llmVars
  <1>6. CASE SendCheckpoint
    <2>1. LateInv'
      BY <1>6 DEF SendCheckpoint, OutIdle, IInv, LateInv
    <2> QED BY <1>6, <2>1, OutputOK DEF SendCheckpoint, llmVars
  <1> QED BY <1>1, <1>2, <1>3, <1>4, <1>5, <1>6 DEF OutputNext

\* What the steps of the other loops may assume.
LEMMA Facts ==
  ASSUME IInv
  PROVE  /\ sm \in ManagerStates /\ gate \in GateStates /\ SYSTEM_SEQUENCE_ID \in sm.valid
         /\ llmSeq \in Nat
         /\ (gate.state = "block" => Live(sm) = {})
         /\ (llmPc \in {"cancelOld", "awaitCleanup"} => EmptyRetry \/ Live(sm) = {})
  BY DEF IInv, SeqInv, GateInv, ManagerStates, GateStates

\* A step that touches neither the manager nor what blocks the gate.
LEMMA QuietOK ==
  ASSUME IInv, UNCHANGED <<sm, late, outVars>>,
         gate' \in {gate, SetSend(gate), SetWait(gate)},
         \/ UNCHANGED <<llmPc, llmSeq>>
         \/ LlmIdle
  PROVE  IInv' /\ LifeStep
  <1>1. gate' \in GateStates /\ (gate'.state = "block" => gate.state = "block")
    BY Facts DEF SetSend, SetWait, GateStates
  <1>2. llmSeq' \in Nat /\ (llmPc' \in {"cancelOld", "awaitCleanup"} => llmPc' = llmPc)
    BY Facts DEF LlmIdle
  <1> QED BY <1>1, <1>2, Facts, ShrinkOK

\* The estimated end of playback retires the active response.
LEMMA ReleaseOK ==
  ASSUME IInv, ReleaseEstimated, UNCHANGED <<gate, llmPc, llmSeq, late, outVars>>
  PROVE  IInv' /\ LifeStep
  <1>1. sm' = Retire(sm, im.active)
    BY DEF ReleaseEstimated
  <1>2. /\ sm' \in ManagerStates /\ sm'.current = sm.current /\ sm'.valid \subseteq sm.valid
        /\ SYSTEM_SEQUENCE_ID \in sm'.valid /\ Live(sm') \subseteq Live(sm)
    BY <1>1, Facts, RetireOK
  <1> QED BY <1>2, Facts, ShrinkOK

\* Everything is invalidated at once: a confirmation, a hangup.
LEMMA TakeBackOK ==
  ASSUME IInv, UNCHANGED <<late, outVars>>, sm' = InvalidatePending(sm),
         gate' \in {BlockSequences(gate, Live(sm)), BlockSequences(SetBlock(gate), Live(sm))},
         LlmIdle \/ UNCHANGED <<llmPc, llmSeq>>
  PROVE  IInv' /\ LifeStep
  <1>1. /\ sm' \in ManagerStates /\ sm'.current = sm.current
        /\ sm'.valid = {SYSTEM_SEQUENCE_ID} /\ Live(sm') = {}
    BY Facts, PendingOK
  <1>2. gate' \in GateStates
    BY Facts DEF BlockSequences, SetBlock, GateStates, Live, ManagerStates
  <1>3. llmSeq' \in Nat
    BY Facts DEF LlmIdle
  <1> QED BY <1>1, <1>2, <1>3, Facts, ShrinkOK

TtsNext == TakeRequest \/ SynthFrame \/ SynthDone \/ SynthFails

LEMMA TtsOK == ASSUME IInv, TtsNext PROVE IInv' /\ LifeStep
  <1>1. UNCHANGED <<sm, gate, late, outVars, llmPc, llmSeq>>
    BY DEF TtsNext, TakeRequest, SynthFrame, SynthDone, SynthFails, llmVars
  <1> QED BY <1>1, QuietOK

InterruptionNext ==
    \/ SpeechStart \/ SpeechStop \/ (\E kind \in TranscriptKinds : Transcript(kind))
    \/ ClearPlayback \/ FinishConfirm \/ ReleaseOnSpeechEvent

LEMMA InterruptionOK == ASSUME IInv, InterruptionNext PROVE IInv' /\ LifeStep
  <1> USE DEF NotInterruption
  <1>1. CASE SpeechStart
    BY <1>1, ReleaseOK, QuietOK DEF SpeechStart
  <1>2. CASE SpeechStop
    BY <1>2, ReleaseOK, QuietOK DEF SpeechStop
  <1>3. ASSUME NEW kind \in TranscriptKinds, Transcript(kind) PROVE IInv' /\ LifeStep
    <2>1. UNCHANGED <<late, outVars>>
      BY <1>3 DEF Transcript
    <2>2. CASE ReleaseEstimated /\ UNCHANGED <<gate, llmPc, llmSeq>>
      BY <2>1, <2>2, ReleaseOK
    <2>3. CASE /\ UNCHANGED <<sm, llmPc, llmSeq>>
               /\ gate' \in {gate, SetSend(gate), SetWait(gate)}
      BY <2>1, <2>3, QuietOK
    <2>4. CASE Confirm
      BY <2>1, <2>4, TakeBackOK DEF Confirm
    <2> QED BY <1>3, <2>2, <2>3, <2>4 DEF Transcript
  <1>4. CASE ClearPlayback
    BY <1>4, QuietOK DEF ClearPlayback, llmVars
  <1>5. CASE FinishConfirm
    BY <1>5, QuietOK DEF FinishConfirm, llmVars
  <1>6. CASE ReleaseOnSpeechEvent
    BY <1>6, ReleaseOK DEF ReleaseOnSpeechEvent, llmVars
  <1> QED BY <1>1, <1>2, <1>3, <1>4, <1>5, <1>6 DEF InterruptionNext

PlaybackNext ==
    RemotePlays \/ HandlePlayed \/ HandleCleared \/ KeepTalking \/ RequestHangup \/ HangUp

LEMMA PlaybackOK == ASSUME IInv, PlaybackNext PROVE IInv' /\ LifeStep
  <1>1. CASE RemotePlays \/ HandleCleared \/ KeepTalking \/ HangUp
    <2>1. UNCHANGED <<sm, gate, late, outVars, llmPc, llmSeq>>
      BY <1>1 DEF RemotePlays, HandleCleared, KeepTalking, HangUp, llmVars
    <2> QED BY <2>1, QuietOK
  <1>2. CASE HandlePlayed
    <2>1. UNCHANGED <<gate, late, outVars, llmPc, llmSeq>> /\ \E s : sm' = Retire(sm, s)
      BY <1>2 DEF HandlePlayed, llmVars
    <2>2. /\ sm' \in ManagerStates /\ sm'.current = sm.current /\ sm'.valid \subseteq sm.valid
          /\ SYSTEM_SEQUENCE_ID \in sm'.valid /\ Live(sm') \subseteq Live(sm)
      BY <2>1, Facts, RetireOK
    <2> QED BY <2>1, <2>2, Facts, ShrinkOK
  <1>3. CASE RequestHangup
    BY <1>3, TakeBackOK DEF RequestHangup
  <1> QED BY <1>1, <1>2, <1>3 DEF PlaybackNext

TurnNext == EmitTurn \/ LateRepair \/ FinishRepair \/ StartRetry \/ FinishRetry

LEMMA TurnOK == ASSUME IInv, TurnNext PROVE IInv' /\ LifeStep
  <1>1. CASE EmitTurn
    BY <1>1, QuietOK DEF EmitTurn
  <1>2. CASE LateRepair
    <2>1. /\ UNCHANGED <<late, outVars>> /\ LlmIdle
          /\ sm' = Invalidate(sm, llmSeq) /\ gate' = BlockSequences(gate, {llmSeq})
      BY <1>2 DEF LateRepair
    <2>2. /\ sm' \in ManagerStates /\ sm'.current = sm.current /\ sm'.valid \subseteq sm.valid
          /\ SYSTEM_SEQUENCE_ID \in sm'.valid /\ Live(sm') \subseteq Live(sm)
      BY <2>1, Facts, InvalidateOK
    <2>3. gate' \in GateStates /\ gate'.state = gate.state
      BY <2>1, Facts DEF BlockSequences, GateStates
    <2>4. llmPc' = "idle" /\ llmSeq' \in Nat
      BY <2>1 DEF LlmIdle
    <2> QED BY <2>1, <2>2, <2>3, <2>4, Facts, ShrinkOK
  <1>3. CASE FinishRepair
    BY <1>3, QuietOK DEF FinishRepair
  <1>4. CASE StartRetry
    <2> DEFINE old == Live(sm)
               s0 == InvalidatePending(sm)
               g0 == BlockSequences(gate, old)
    <2>1. /\ s0 \in ManagerStates /\ s0.current = sm.current
          /\ s0.valid = {SYSTEM_SEQUENCE_ID} /\ Live(s0) = {}
      BY Facts, PendingOK
    <2>2. g0 \in GateStates
      BY Facts DEF BlockSequences, Live, ManagerStates, GateStates
    <2>3. EmptyRetry /\ UNCHANGED <<late, outVars, llmPc, llmSeq>>
      BY <1>4 DEF StartRetry, llmVars
    <2>4. CASE sm' = s0 /\ gate' = g0
      <3> HIDE DEF s0, g0
      <3> QED BY <2>1, <2>2, <2>3, <2>4, Facts, ShrinkOK
    <2>5. CASE \E q : BeginRetry(s0, g0, im, q)
      <3> HIDE DEF s0, g0
      <3> QED BY <2>1, <2>2, <2>3, <2>5, Facts, BirthOK DEF BeginRetry
    <2> QED BY <1>4, <2>4, <2>5 DEF StartRetry
  <1>5. CASE FinishRetry
    <2>1. EmptyRetry /\ UNCHANGED <<late, outVars, llmPc, llmSeq>>
      BY <1>5 DEF FinishRetry, llmVars
    <2>2. NextId(sm) <= MaxSeq /\ sm' = CreateSequence(sm) /\ gate' = SetSend(gate)
      BY <1>5 DEF FinishRetry, BeginRetry
    <2> QED BY <2>1, <2>2, Facts, BirthOK
  <1> QED BY <1>1, <1>2, <1>3, <1>4, <1>5 DEF TurnNext

LEMMA StepIInv == IInv /\ [Next]_vars => IInv' /\ LifeStep
  <1> SUFFICES ASSUME IInv, [Next]_vars PROVE IInv' /\ LifeStep
    OBVIOUS
  <1>1. CASE Next
    BY <1>1, LlmOK, TtsOK, OutputNextOK, InterruptionOK, PlaybackOK, TurnOK
       DEF Next, LlmNext, TtsNext, OutputNext, InterruptionNext, PlaybackNext, TurnNext
  <1>2. CASE UNCHANGED vars
    BY <1>2, QuietOK DEF vars, llmVars
  <1> QED BY <1>1, <1>2

\* The invariant of the ids, the gate and the late chunks holds throughout.
THEOREM Inductive == Spec => []IInv
  BY InitIInv, StepIInv, PTL DEF Spec

-----------------------------------------------------------------------------
(* The theorems.                                                            *)

\* However the loops interleave, at most one response may be heard at a time,
\* if the llm loop is the only task that creates responses after the greeting.
THEOREM OneLiveResponseHolds == ASSUME ~EmptyRetry PROVE Spec => []OneLiveResponse
  <1>1. IInv => OneLiveResponse
    BY DEF IInv, SeqInv, OneLiveResponse
  <1> QED BY <1>1, Inductive, PTL

\* The gate never blocks a response that may still be heard.
THEOREM BlockedGateHolds == Spec => []BlockedGateHasNoLiveResponse
  <1>1. IInv => BlockedGateHasNoLiveResponse
    BY DEF IInv, GateInv, BlockedGateHasNoLiveResponse
  <1> QED BY <1>1, Inductive, PTL

\* After a response is taken back or retired, at most one frame of it is sent.
THEOREM LateAudioHolds == Spec => []LateAudioIsOneFrame
  <1>1. IInv => LateAudioIsOneFrame
    BY DEF IInv, LateInv, LateAudioIsOneFrame
  <1> QED BY <1>1, Inductive, PTL

LEMMA InitLife == Init => Life!LifeInit
  <1> SUFFICES ASSUME Init PROVE Life!LifeInit
    OBVIOUS
  <1>1. late = [s \in Seqs |-> 0]
    BY DEF Init
  <1>2. sm.current = IF Greeting THEN 1 ELSE 0
    BY DEF Init, CreateSequence, SequenceInit, NextId, Manager
  <1>3. sm.valid = IF Greeting THEN {SYSTEM_SEQUENCE_ID, 1} ELSE {SYSTEM_SEQUENCE_ID}
    BY DEF Init, CreateSequence, SequenceInit, NextId, Manager
  <1>4. \A s \in Seqs : LifeOf(s) = IF Greeting /\ s = 1 THEN "live" ELSE "unborn"
    BY <1>2, <1>3, BoundsAssumption DEF LifeOf, IsValid
  <1> QED BY <1>1, <1>4 DEF Life!LifeInit

\* The barge-in core implements ResponseLife: every interleaving of its loops
\* is a life of responses as a caller may see it.
THEOREM LifeSpecRefined == Spec => LifeSpecHolds
  <1>1. IInv /\ [Next]_vars => LifeStep
    BY StepIInv
  <1>2. IInv /\ [Next]_vars => [Life!LifeNext]_<<[s \in Seqs |-> LifeOf(s)], late>>
    BY <1>1 DEF LifeStep, lifeMap
  <1> QED BY <1>2, InitLife, Inductive, PTL DEF Spec, LifeSpecHolds, Life!LifeSpec

-----------------------------------------------------------------------------
(* The interruption manager, the gate and the tracker.                      *)

\* The interruption manager's state.  Between taking a turn and creating its
\* response the llm loop has none.
ImStates == [active : Nat, speaking : BOOLEAN, candidate : BOOLEAN, stray : Nat]

ManagerInv ==
    /\ im \in ImStates /\ im.active <= sm.current
    /\ llmOld \in Nat /\ repairSeq \in Nat /\ retryOld \in Nat /\ turns \in Nat
    /\ llmPc \in {"idle", "cancelOld", "awaitCleanup"} => llmSeq = None

\* The active response is on the air, or a task that is suspended in the middle
\* of cancelling it is going to tell the manager.
ActiveInv ==
    phase = "open" =>
        \/ im.active \in Live(sm) \cup {None, repairSeq, retryOld}
        \/ llmPc = "cancelOld" /\ im.active = llmOld

\* Checkpoints and playback events are of responses that were made.
Events == [kind : {"played", "cleared"}, seq : Int]
PeerInv ==
    /\ marks \in Seq(Int) /\ \A i \in 1..Len(marks) : marks[i] <= sm.current
    /\ inbound \in Seq(Events)
    /\ \A i \in 1..Len(inbound) : inbound[i].seq <= sm.current

\* What was played was made before, and is not the active response.
TrackStates == [sent : SUBSET Int, chk : SUBSET Int, played : SUBSET Int, interrupted : SUBSET Int]
PlayedInv ==
    /\ track \in TrackStates
    /\ \A s \in track.played : s <= sm.current
    /\ im.active # None => im.active \notin track.played
    /\ PlayedOrInterrupted

\* mark_agent_response_finished, mark_agent_audio_sent.
LEMMA MarkOK ==
  ASSUME NEW i0 \in ImStates, NEW s
  PROVE  /\ MarkFinished(i0, s) \in ImStates
         /\ MarkFinished(i0, s).active = IF i0.active \in {None, s} THEN None ELSE i0.active
         /\ MarkFinished(i0, s).active # None => MarkFinished(i0, s) = i0
         /\ MarkAudioSent(i0, s) \in ImStates
         /\ MarkAudioSent(i0, s).active = i0.active
         /\ MarkAudioSent(i0, s).candidate = i0.candidate
         /\ MarkAudioSent(i0, s).stray = i0.stray
  BY DEF MarkFinished, MarkAudioSent, ImStates

\* A candidate is raised or dropped.
LEMMA CandidateOK ==
  ASSUME NEW i0 \in ImStates, NEW c \in BOOLEAN, NEW s \in Nat
  PROVE  LET i1 == [i0 EXCEPT !.candidate = c, !.stray = s] IN
         /\ i1 \in ImStates /\ i1.active = i0.active /\ i1.speaking = i0.speaking
         /\ i1.candidate = c /\ i1.stray = s
  BY DEF ImStates

\* retire and invalidate: the id is off the air, the others stay.
LEMMA OffAirOK ==
  ASSUME NEW s0 \in ManagerStates, NEW s \in Nat
  PROVE  /\ Live(Retire(s0, s)) = Live(s0) \ {s} /\ Retire(s0, s).current = s0.current
         /\ Live(Invalidate(s0, s)) = Live(s0) \ {s} /\ Invalidate(s0, s).current = s0.current
  BY DEF Retire, Invalidate, Manager, ManagerStates, Live

\* The estimated end of playback: no response is active any more.
LEMMA ReleaseDoes ==
  ASSUME IInv, im \in ImStates, ReleaseEstimated
  PROVE  /\ sm'.current = sm.current /\ im' \in ImStates /\ im'.active = None
         /\ track' = [track EXCEPT !.played = @ \cup {im.active}]
         /\ im.active \notin track.interrupted
  <1>1. im.active \in Nat
    BY DEF ImStates
  <1> QED BY <1>1, Facts, MarkOK, OffAirOK DEF ReleaseEstimated, ReleaseDue

\* A response is created, by the llm loop or by the retry.
Births(s0, g0, i0) == BeginResponse(s0, g0, i0) \/ \E q : BeginRetry(s0, g0, i0, q)

LEMMA BirthsOK ==
  ASSUME NEW s0 \in ManagerStates, NEW g0 \in GateStates, NEW i0 \in ImStates, Births(s0, g0, i0)
  PROVE  /\ im' \in ImStates /\ im'.active = s0.current + 1
         /\ sm'.current = s0.current + 1 /\ s0.current + 1 \in Live(sm') /\ s0.current + 1 \in Nat
         /\ Live(s0) \subseteq Live(sm')
         /\ gate'.state = "send"
  <1>1. /\ NextId(s0) = s0.current + 1 /\ NextId(s0) <= MaxSeq /\ sm' = CreateSequence(s0)
        /\ im' = [i0 EXCEPT !.active = NextId(s0)] /\ gate' = SetSend(g0)
    BY DEF Births, BeginResponse, BeginRetry, NextId
  <1>2. NextId(s0) \in Nat
    BY <1>1, BoundsAssumption DEF ManagerStates
  <1>3. im' \in ImStates /\ im'.active = NextId(s0)
    BY <1>1, <1>2 DEF ImStates
  <1>4. gate'.state = "send"
    BY <1>1 DEF SetSend, GateStates
  <1> QED BY <1>1, <1>2, <1>3, <1>4, CreateOK

LEMMA InitManager ==
  Init => ManagerInv /\ ActiveInv /\ PeerInv /\ PlayedInv /\ WaitIsOwed /\ IdleManagerLeavesGateOpen
  <1> SUFFICES ASSUME Init
               PROVE  /\ ManagerInv /\ ActiveInv /\ PeerInv /\ PlayedInv
                      /\ WaitIsOwed /\ IdleManagerLeavesGateOpen
    OBVIOUS
  <1>1. sm = IF Greeting THEN Manager(1, {SYSTEM_SEQUENCE_ID, 1}, {})
             ELSE Manager(0, {SYSTEM_SEQUENCE_ID}, {})
    BY DEF Init, CreateSequence, SequenceInit, NextId, Manager
  <1>2. ManagerInv
    BY <1>1 DEF Init, ManagerInv, ImStates, Manager
  <1>3. ActiveInv
    BY <1>1 DEF Init, ActiveInv, Live, Manager
  <1>4. PeerInv /\ PlayedInv
    BY <1>1 DEF Init, PeerInv, PlayedInv, TrackStates, PlayedOrInterrupted, Manager
  <1>5. WaitIsOwed /\ IdleManagerLeavesGateOpen
    BY DEF Init, WaitIsOwed, IdleManagerLeavesGateOpen, GateInit
  <1> QED BY <1>2, <1>3, <1>4, <1>5

\* What the tasks share with the interruption manager.
shared == <<sm, gate, im, phase, speech, llmPc, llmSeq, llmOld, turns, cancelVars>>

\* The actions that leave it alone; of the others, the manager's own.
Quiet ==
    \/ TtsNext \/ TakeAudio \/ GateReleased \/ GateTimeout \/ SendChunk \/ SendCheckpoint
    \/ ClearPlayback \/ RemotePlays \/ HandleCleared \/ KeepTalking \/ UNCHANGED vars
Speech == SpeechStart \/ SpeechStop \/ (\E kind \in TranscriptKinds : Transcript(kind))

LEMMA QuietLeaves == Quiet => UNCHANGED shared
  BY DEF Quiet, shared, TtsNext, TakeRequest, SynthFrame, SynthDone, SynthFails, TakeAudio, GateReleased,
         GateTimeout, SendChunk, SendCheckpoint, ClearPlayback, RemotePlays, HandleCleared,
         KeepTalking, vars, llmVars, cancelVars, intVars

LEMMA Steps ==
  ASSUME [Next]_vars
  PROVE  Quiet \/ LlmNext \/ TurnNext \/ Speech \/ AudioSent \/ FinishConfirm
         \/ ReleaseOnSpeechEvent \/ HandlePlayed \/ RequestHangup \/ HangUp
  BY DEF Next, Quiet, LlmNext, TurnNext, Speech, TtsNext

\* What the interruption loop may do to the active response.
LEMMA SpeechDoes ==
  ASSUME im \in ImStates, Speech
  PROVE  /\ \/ ReleaseEstimated /\ UNCHANGED <<llmPc, llmSeq, llmOld>>
            \/ Confirm
            \/ im' \in ImStates /\ im'.active = im.active /\ UNCHANGED <<sm, llmPc, llmSeq, llmOld>>
         /\ UNCHANGED <<turns, cancelVars>>
  <1> USE DEF NotInterruption, cancelVars
  <1>1. UNCHANGED <<turns, cancelVars>>
    BY DEF Speech, SpeechStart, SpeechStop, Transcript
  <1>2. im.active \in Nat /\ im.stray \in Nat /\ im.candidate \in BOOLEAN
    BY DEF ImStates
  <1>3. CASE SpeechStart
    <2>1. CASE im' = [im EXCEPT !.candidate = TRUE] \/ im' = im
      <3>1. im' \in ImStates /\ im'.active = im.active
        BY <2>1 DEF ImStates
      <3> QED BY <1>1, <1>3, <3>1 DEF SpeechStart
    <2> QED BY <1>1, <1>3, <2>1 DEF SpeechStart
  <1>4. CASE SpeechStop
    <2>1. CASE im' = [im EXCEPT !.candidate = FALSE, !.stray = None]
      <3>1. im' \in ImStates /\ im'.active = im.active
        BY <2>1, CandidateOK
      <3> QED BY <1>1, <1>4, <3>1 DEF SpeechStop
    <2> QED BY <1>1, <1>4, <2>1 DEF SpeechStop
  <1>5. ASSUME NEW kind \in TranscriptKinds, Transcript(kind)
        PROVE  \/ ReleaseEstimated /\ UNCHANGED <<llmPc, llmSeq, llmOld>>
               \/ Confirm
               \/ im' \in ImStates /\ im'.active = im.active
                  /\ UNCHANGED <<sm, llmPc, llmSeq, llmOld>>
    <2>1. CASE im' = [im EXCEPT !.candidate = FALSE, !.stray = None]
      <3>1. im' \in ImStates /\ im'.active = im.active
        BY <2>1, CandidateOK
      <3> QED BY <1>5, <3>1 DEF Transcript
    <2> DEFINE s == IF im.candidate \/ speech = "speaking" THEN im.stray ELSE im.active
    <2>2. CASE im' = [im EXCEPT !.candidate = TRUE, !.stray = s]
      <3>1. s \in Nat
        BY <1>2
      <3> HIDE DEF s
      <3>2. im' \in ImStates /\ im'.active = im.active
        BY <2>2, <3>1, CandidateOK
      <3> QED BY <1>5, <3>2 DEF Transcript
    <2> QED BY <1>5, <2>1, <2>2 DEF Transcript
  <1> QED BY <1>1, <1>3, <1>4, <1>5 DEF Speech

\* The manager's state, and what a step may do to the active response.
LEMMA ManagerStep ==
  ASSUME IInv, ManagerInv, [Next]_vars
  PROVE  /\ ManagerInv' /\ sm.current <= sm'.current
         /\ im'.active \in {im.active, None, sm.current + 1}
  <1> USE BoundsAssumption
  <1> USE DEF IInv, SeqInv, ManagerInv, ImStates, Manager, CreateSequence, NextId,
              InvalidatePending, Invalidate, LlmIdle, llmVars, cancelVars
  <1>1. CASE Quiet
    BY <1>1, QuietLeaves DEF shared
  <1>2. CASE LlmNext
    <2> USE DEF AwaitCleanup, BeginResponse
    <2>1. CASE TakeTurn
      BY <2>1 DEF TakeTurn
    <2>2. CASE FinishCancelOld
      <3>1. CASE Births(sm, gate, MarkFinished(im, llmOld)) /\ UNCHANGED <<turns, cancelVars>>
                 /\ llmPc' = "saving" /\ llmOld' = None
        BY <3>1, Facts, MarkOK, BirthsOK
      <3>2. CASE /\ sm' = sm /\ im' = MarkFinished(im, llmOld)
                 /\ llmPc' = "awaitCleanup" /\ llmOld' = None
                 /\ UNCHANGED <<llmSeq, turns, cancelVars>>
        BY <2>2, <3>2, MarkOK DEF FinishCancelOld
      <3> QED BY <2>2, <3>1, <3>2 DEF FinishCancelOld, Births
    <2>3. CASE CleanupOver
      BY <2>3 DEF CleanupOver
    <2>4. CASE LlmSaved
      BY <2>4 DEF LlmSaved
    <2>5. CASE StreamSentence
      BY <2>5 DEF StreamSentence
    <2>6. CASE StreamEnd
      BY <2>6 DEF StreamEnd
    <2> QED BY <1>2, <2>1, <2>2, <2>3, <2>4, <2>5, <2>6 DEF LlmNext
  <1>3. CASE TurnNext
    <2> USE DEF BeginRetry
    <2>1. CASE EmitTurn
      BY <2>1 DEF EmitTurn
    <2>2. CASE LateRepair
      BY <2>2 DEF LateRepair
    <2>3. CASE FinishRepair
      BY <2>3, MarkOK DEF FinishRepair
    <2>4. CASE StartRetry
      BY <2>4 DEF StartRetry
    <2>5. CASE FinishRetry
      <3>1. Births(sm, gate, MarkFinished(im, retryOld)) /\ retryOld' = None
            /\ UNCHANGED <<turns, repairSeq, llmPc, llmSeq, llmOld>>
        BY <2>5 DEF FinishRetry, Births
      <3> QED BY <3>1, Facts, MarkOK, BirthsOK
    <2> QED BY <1>3, <2>1, <2>2, <2>3, <2>4, <2>5 DEF TurnNext
  <1>4. CASE Speech
    <2>1. CASE ReleaseEstimated /\ UNCHANGED <<llmPc, llmSeq, llmOld, turns, cancelVars>>
      BY <2>1, ReleaseDoes
    <2>2. CASE /\ im' \in ImStates /\ im'.active = im.active
               /\ UNCHANGED <<sm, llmPc, llmSeq, llmOld, turns, cancelVars>>
      <3> HIDE DEF ImStates
      <3> QED BY <2>2
    <2>3. CASE Confirm /\ UNCHANGED <<turns, cancelVars>>
      BY <2>3 DEF Confirm
    <2> QED BY <1>4, <2>1, <2>2, <2>3, SpeechDoes
  <1>5. CASE AudioSent
    BY <1>5, MarkOK DEF AudioSent
  <1>6. CASE FinishConfirm \/ HangUp
    BY <1>6 DEF FinishConfirm, HangUp
  <1>7. CASE ReleaseOnSpeechEvent
    BY <1>7, ReleaseDoes DEF ReleaseOnSpeechEvent
  <1>8. CASE HandlePlayed
    <2>1. \E s : im' = MarkFinished(im, s) /\ sm' = Retire(sm, s)
      BY <1>8 DEF HandlePlayed
    <2>2. ManagerInv' /\ sm'.current = sm.current /\ im'.active \in {im.active, None}
      BY <1>8, <2>1, Facts, MarkOK, RetireOK DEF HandlePlayed
    <2> QED BY <2>2
  <1>9. CASE RequestHangup
    BY <1>9 DEF RequestHangup
  <1> QED BY <1>1, <1>2, <1>3, <1>4, <1>5, <1>6, <1>7, <1>8, <1>9, Steps

\* The active response stays on the air, or is being cancelled.
LEMMA ActiveStep == ASSUME IInv, ManagerInv, ActiveInv, [Next]_vars PROVE ActiveInv'
  <1> USE BoundsAssumption
  <1> USE DEF IInv, SeqInv, GateInv, ManagerInv, ImStates, ActiveInv,
              Manager, CreateSequence, NextId, InvalidatePending, Invalidate, Retire,
              Live, MarkFinished, MarkAudioSent, BeginResponse, AwaitCleanup, BeginRetry, LlmIdle,
              llmVars, cancelVars
  <1>1. CASE Quiet
    BY <1>1, QuietLeaves DEF shared
  <1>2. CASE LlmNext
    <2>1. CASE TakeTurn
      BY <2>1 DEF TakeTurn
    <2>2. CASE FinishCancelOld
      BY <2>2 DEF FinishCancelOld
    <2>3. CASE CleanupOver
      BY <2>3 DEF CleanupOver
    <2>4. CASE LlmSaved
      BY <2>4 DEF LlmSaved
    <2>5. CASE StreamSentence
      BY <2>5 DEF StreamSentence
    <2>6. CASE StreamEnd
      BY <2>6 DEF StreamEnd
    <2> QED BY <1>2, <2>1, <2>2, <2>3, <2>4, <2>5, <2>6 DEF LlmNext
  <1>3. CASE TurnNext
    <2>1. CASE EmitTurn
      BY <2>1 DEF EmitTurn
    <2>2. CASE LateRepair
      BY <2>2 DEF LateRepair
    <2>3. CASE FinishRepair
      BY <2>3 DEF FinishRepair
    <2>4. CASE StartRetry
      BY <2>4 DEF StartRetry
    <2>5. CASE FinishRetry
      BY <2>5 DEF FinishRetry
    <2> QED BY <1>3, <2>1, <2>2, <2>3, <2>4, <2>5 DEF TurnNext
  <1>4. CASE SpeechStart
    BY <1>4 DEF SpeechStart, NotInterruption, ReleaseEstimated
  <1>5. CASE SpeechStop
    <2>1. CASE ReleaseEstimated
      BY <1>5, <2>1 DEF SpeechStop, NotInterruption, ReleaseEstimated
    <2>2. CASE UNCHANGED sm /\ im' = [im EXCEPT !.candidate = FALSE, !.stray = None]
      <3>1. im' \in ImStates /\ im'.active = im.active /\ ~im'.candidate
        BY <2>2, CandidateOK
      <3> QED BY <1>5, <2>2, <3>1 DEF SpeechStop, NotInterruption
    <2> QED BY <1>5, <2>1, <2>2 DEF SpeechStop
  <1>6. ASSUME NEW kind \in TranscriptKinds, Transcript(kind) PROVE ActiveInv'
    <2> USE DEF NotInterruption
    <2>1. CASE ReleaseEstimated /\ UNCHANGED <<gate, intPc, cleanupDone, llmPc, llmSeq, llmOld>>
      BY <1>6, <2>1 DEF Transcript, ReleaseEstimated
    <2>2. CASE Confirm
      BY <1>6, <2>2 DEF Transcript, Confirm
    <2>3. CASE /\ gate' = SetSend(gate) /\ cleanupDone' = TRUE
               /\ im' = [im EXCEPT !.candidate = FALSE, !.stray = None]
               /\ UNCHANGED <<sm, intPc, llmPc, llmSeq, llmOld>>
      BY <1>6, <2>3 DEF Transcript
    <2>4. CASE /\ gate' = (IF im.candidate THEN gate ELSE SetWait(gate))
               /\ im' = [im EXCEPT !.candidate = TRUE,
                                    !.stray = IF im.candidate \/ speech = "speaking"
                                              THEN im.stray ELSE im.active]
               /\ UNCHANGED <<sm, intPc, cleanupDone, llmPc, llmSeq, llmOld>>
      BY <1>6, <2>4 DEF Transcript
    <2> QED BY <1>6, <2>1, <2>2, <2>3, <2>4 DEF Transcript
  <1>7. CASE AudioSent
    BY <1>7 DEF AudioSent
  <1>8. CASE FinishConfirm
    BY <1>8 DEF FinishConfirm
  <1>9. CASE ReleaseOnSpeechEvent
    BY <1>9 DEF ReleaseOnSpeechEvent, ReleaseEstimated
  <1>10. CASE HandlePlayed
    BY <1>10 DEF HandlePlayed
  <1>11. CASE RequestHangup
    BY <1>11 DEF RequestHangup
  <1>12. CASE HangUp
    BY <1>12 DEF HangUp
  <1> QED BY <1>1, <1>2, <1>3, <1>4, <1>5, <1>6, <1>7, <1>8, <1>9, <1>10, <1>11, <1>12,
             Steps DEF Speech

\* A gate that waits keeps somebody who will reopen it.
LEMMA WaitStep == ASSUME IInv, ManagerInv, WaitIsOwed, [Next]_vars PROVE WaitIsOwed'
  <1> USE BoundsAssumption
  <1> USE DEF IInv, SeqInv, GateInv, ManagerInv, ImStates, WaitIsOwed,
              SetSend, SetWait, SetBlock, BlockSequences, MarkFinished, MarkAudioSent,
              BeginResponse, AwaitCleanup, BeginRetry, LlmIdle, llmVars, cancelVars, intVars
  <1>1. CASE Quiet
    BY <1>1, QuietLeaves DEF shared
  <1>2. CASE LlmNext
    <2>1. CASE TakeTurn
      BY <2>1 DEF TakeTurn
    <2>2. CASE FinishCancelOld
      BY <2>2 DEF FinishCancelOld
    <2>3. CASE CleanupOver
      BY <2>3 DEF CleanupOver
    <2>4. CASE LlmSaved
      BY <2>4 DEF LlmSaved
    <2>5. CASE StreamSentence
      BY <2>5 DEF StreamSentence
    <2>6. CASE StreamEnd
      BY <2>6 DEF StreamEnd
    <2> QED BY <1>2, <2>1, <2>2, <2>3, <2>4, <2>5, <2>6 DEF LlmNext
  <1>3. CASE TurnNext
    <2>1. CASE EmitTurn
      BY <2>1 DEF EmitTurn
    <2>2. CASE LateRepair
      BY <2>2 DEF LateRepair
    <2>3. CASE FinishRepair
      BY <2>3 DEF FinishRepair
    <2>4. CASE StartRetry
      BY <2>4 DEF StartRetry
    <2>5. CASE FinishRetry
      BY <2>5 DEF FinishRetry
    <2> QED BY <1>3, <2>1, <2>2, <2>3, <2>4, <2>5 DEF TurnNext
  <1>4. CASE SpeechStart
    BY <1>4 DEF SpeechStart, NotInterruption, ReleaseEstimated
  <1>5. CASE SpeechStop
    <2>1. CASE ReleaseEstimated
      BY <1>5, <2>1 DEF SpeechStop, NotInterruption, ReleaseEstimated
    <2>2. CASE UNCHANGED sm /\ im' = [im EXCEPT !.candidate = FALSE, !.stray = None]
      <3>1. im' \in ImStates /\ im'.active = im.active /\ ~im'.candidate
        BY <2>2, CandidateOK
      <3>2. /\ im.candidate /\ im.active # None => gate'.state = "send"
            /\ gate' = gate \/ gate'.state = "send"
            /\ UNCHANGED <<turns, llmPc, phase>>
        BY <1>5, <2>2 DEF SpeechStop, NotInterruption, ReleaseEstimated
      <3> HIDE DEF ImStates
      <3> QED BY <3>1, <3>2
    <2> QED BY <1>5, <2>1, <2>2 DEF SpeechStop
  <1>6. ASSUME NEW kind \in TranscriptKinds, Transcript(kind) PROVE WaitIsOwed'
    <2> USE DEF NotInterruption
    <2>1. CASE ReleaseEstimated /\ UNCHANGED <<gate, intPc, cleanupDone, llmPc, llmSeq, llmOld>>
      BY <1>6, <2>1 DEF Transcript, ReleaseEstimated
    <2>2. CASE Confirm
      BY <1>6, <2>2 DEF Transcript, Confirm
    <2>3. CASE /\ gate' = SetSend(gate) /\ cleanupDone' = TRUE
               /\ im' = [im EXCEPT !.candidate = FALSE, !.stray = None]
               /\ UNCHANGED <<sm, intPc, llmPc, llmSeq, llmOld>>
      BY <1>6, <2>3 DEF Transcript
    <2>4. CASE /\ gate' = (IF im.candidate THEN gate ELSE SetWait(gate))
               /\ im' = [im EXCEPT !.candidate = TRUE,
                                    !.stray = IF im.candidate \/ speech = "speaking"
                                              THEN im.stray ELSE im.active]
               /\ UNCHANGED <<sm, intPc, cleanupDone, llmPc, llmSeq, llmOld>>
      <3> DEFINE s == IF im.candidate \/ speech = "speaking" THEN im.stray ELSE im.active
      <3>1. s \in Nat /\ im' = [im EXCEPT !.candidate = TRUE, !.stray = s]
        BY <2>4
      <3>2. ~im.candidate => s = im.active \/ speech = "speaking"
        OBVIOUS
      <3>3. im.candidate => s = im.stray
        OBVIOUS
      <3> HIDE DEF s
      <3>4. im' \in ImStates /\ im'.active = im.active /\ im'.candidate /\ im'.stray = s
        BY <3>1, CandidateOK
      <3>5. UNCHANGED <<turns, llmPc, phase, speech>> /\ (im.candidate => gate' = gate)
        BY <1>6, <2>4 DEF Transcript
      <3> HIDE DEF ImStates
      <3> QED BY <3>2, <3>3, <3>4, <3>5
    <2> QED BY <1>6, <2>1, <2>2, <2>3, <2>4 DEF Transcript
  <1>7. CASE AudioSent
    BY <1>7 DEF AudioSent
  <1>8. CASE FinishConfirm
    BY <1>8 DEF FinishConfirm
  <1>9. CASE ReleaseOnSpeechEvent
    BY <1>9 DEF ReleaseOnSpeechEvent, ReleaseEstimated
  <1>10. CASE HandlePlayed
    BY <1>10 DEF HandlePlayed
  <1>11. CASE RequestHangup
    BY <1>11 DEF RequestHangup
  <1>12. CASE HangUp
    BY <1>12 DEF HangUp
  <1> QED BY <1>1, <1>2, <1>3, <1>4, <1>5, <1>6, <1>7, <1>8, <1>9, <1>10, <1>11, <1>12,
             Steps DEF Speech

\* The interruption loop leaves no blocked gate and no unset cleanup event behind.
LEMMA IdleStep ==
  ASSUME IInv, ManagerInv, IdleManagerLeavesGateOpen, [Next]_vars
  PROVE  IdleManagerLeavesGateOpen'
  <1> USE BoundsAssumption
  <1> USE DEF IInv, SeqInv, GateInv, ManagerInv, ImStates, IdleManagerLeavesGateOpen,
              SetSend, SetWait, SetBlock, BlockSequences,
              BeginResponse, AwaitCleanup, BeginRetry, intVars, llmVars
  <1>1. CASE Quiet
    BY <1>1 DEF Quiet, TtsNext, TakeRequest, SynthFrame, SynthDone, SynthFails, TakeAudio, GateReleased,
              GateTimeout, SendChunk, SendCheckpoint, ClearPlayback, RemotePlays, HandleCleared,
              KeepTalking, vars
  <1>2. CASE LlmNext
    <2>1. CASE TakeTurn
      BY <2>1 DEF TakeTurn
    <2>2. CASE FinishCancelOld
      BY <2>2 DEF FinishCancelOld
    <2>3. CASE CleanupOver
      BY <2>3 DEF CleanupOver
    <2>4. CASE LlmSaved
      BY <2>4 DEF LlmSaved
    <2>5. CASE StreamSentence
      BY <2>5 DEF StreamSentence
    <2>6. CASE StreamEnd
      BY <2>6 DEF StreamEnd
    <2> QED BY <1>2, <2>1, <2>2, <2>3, <2>4, <2>5, <2>6 DEF LlmNext
  <1>3. CASE TurnNext
    <2>1. CASE EmitTurn
      BY <2>1 DEF EmitTurn
    <2>2. CASE LateRepair
      BY <2>2 DEF LateRepair
    <2>3. CASE FinishRepair
      BY <2>3 DEF FinishRepair
    <2>4. CASE StartRetry
      BY <2>4 DEF StartRetry
    <2>5. CASE FinishRetry
      BY <2>5 DEF FinishRetry
    <2> QED BY <1>3, <2>1, <2>2, <2>3, <2>4, <2>5 DEF TurnNext
  <1>4. CASE SpeechStart
    BY <1>4 DEF SpeechStart, NotInterruption, ReleaseEstimated
  <1>5. CASE SpeechStop
    BY <1>5 DEF SpeechStop, NotInterruption, ReleaseEstimated
  <1>6. ASSUME NEW kind \in TranscriptKinds, Transcript(kind) PROVE IdleManagerLeavesGateOpen'
    <2> USE DEF NotInterruption
    <2>1. CASE ReleaseEstimated /\ UNCHANGED <<gate, intPc, cleanupDone, llmPc, llmSeq, llmOld>>
      BY <1>6, <2>1 DEF Transcript, ReleaseEstimated
    <2>2. CASE Confirm
      BY <1>6, <2>2 DEF Transcript, Confirm
    <2>3. CASE /\ gate' = SetSend(gate) /\ cleanupDone' = TRUE
               /\ im' = [im EXCEPT !.candidate = FALSE, !.stray = None]
               /\ UNCHANGED <<sm, intPc, llmPc, llmSeq, llmOld>>
      BY <1>6, <2>3 DEF Transcript
    <2>4. CASE /\ gate' = (IF im.candidate THEN gate ELSE SetWait(gate))
               /\ im' = [im EXCEPT !.candidate = TRUE,
                                    !.stray = IF im.candidate \/ speech = "speaking"
                                              THEN im.stray ELSE im.active]
               /\ UNCHANGED <<sm, intPc, cleanupDone, llmPc, llmSeq, llmOld>>
      BY <1>6, <2>4 DEF Transcript
    <2> QED BY <1>6, <2>1, <2>2, <2>3, <2>4 DEF Transcript
  <1>7. CASE AudioSent
    BY <1>7 DEF AudioSent
  <1>8. CASE FinishConfirm
    BY <1>8 DEF FinishConfirm
  <1>9. CASE ReleaseOnSpeechEvent
    BY <1>9 DEF ReleaseOnSpeechEvent, ReleaseEstimated
  <1>10. CASE HandlePlayed
    BY <1>10 DEF HandlePlayed
  <1>11. CASE RequestHangup
    BY <1>11 DEF RequestHangup
  <1>12. CASE HangUp
    BY <1>12 DEF HangUp
  <1> QED BY <1>1, <1>2, <1>3, <1>4, <1>5, <1>6, <1>7, <1>8, <1>9, <1>10, <1>11,
             <1>12, Steps DEF Speech

\* Every event has a sequence id.
LEMMA EventSeq ==
  ASSUME NEW q \in Seq(Events)
  PROVE  \A i \in 1..Len(q) : q[i] \in Events /\ q[i].seq \in Int
  <1>1. \A i \in 1..Len(q) : q[i] \in Events
    OBVIOUS
  <1> QED BY <1>1 DEF Events

LEMMA EventsTogether ==
  ASSUME NEW p \in Seq(Events), NEW q \in Seq(Events), NEW c \in Int,
         \A i \in 1..Len(p) : p[i].seq <= c, \A i \in 1..Len(q) : q[i].seq <= c
  PROVE  p \o q \in Seq(Events) /\ \A i \in 1..Len(p \o q) : (p \o q)[i].seq <= c
  <1>1. p \o q \in Seq(Events) /\ Len(p \o q) = Len(p) + Len(q)
    OBVIOUS
  <1>2. \A i \in 1..Len(p \o q) : (p \o q)[i] = IF i <= Len(p) THEN p[i] ELSE q[i - Len(p)]
    OBVIOUS
  <1>3. \A i \in 1..Len(p \o q) : i <= Len(p) \/ i - Len(p) \in 1..Len(q)
    BY <1>1
  <1> QED BY <1>1, <1>2, <1>3

\* No checkpoint or playback event is of a response that was not made yet.
LEMMA PeerStep == ASSUME IInv, ManagerInv, PeerInv, [Next]_vars PROVE PeerInv'
  <1>0. sm.current \in Nat /\ sm'.current \in Nat /\ sm.current <= sm'.current
    BY ManagerStep, StepIInv, BoundsAssumption DEF IInv, SeqInv
  <1>a. /\ \A i \in 1..Len(marks) : marks[i] \in Int /\ marks[i] <= sm'.current
        /\ \A i \in 1..Len(inbound) : inbound[i] \in Events /\ inbound[i].seq <= sm'.current
    BY <1>0, EventSeq DEF PeerInv
  <1>1. CASE UNCHANGED <<marks, inbound>>
    BY <1>a, <1>1 DEF PeerInv
  <1>2. CASE SendCheckpoint
    <2>1. outSeq \in Int /\ outSeq <= sm.current
      BY <1>0, <1>2 DEF SendCheckpoint, IInv, LateInv
    <2> QED BY <1>0, <1>2, <2>1 DEF SendCheckpoint, PeerInv, Events
  <1>3. CASE ClearPlayback
    <2>1. PICK acked \in {<<>>, marks} :
             inbound' = inbound \o [i \in DOMAIN acked |-> [kind |-> "played", seq |-> acked[i]]]
                                \o <<[kind |-> "cleared", seq |-> 0]>>
      BY <1>3 DEF ClearPlayback
    <2> DEFINE reached == [i \in DOMAIN acked |-> [kind |-> "played", seq |-> acked[i]]]
    <2>2. /\ reached \in Seq(Events)
          /\ \A i \in 1..Len(reached) : reached[i].seq <= sm.current
      <3>1. acked \in Seq(Int) /\ \A i \in 1..Len(acked) : acked[i] <= sm.current
        <4>1. CASE acked = <<>>
          BY <4>1
        <4>2. CASE acked = marks
          BY <4>2 DEF PeerInv
        <4> QED BY <2>1, <4>1, <4>2
      <3>2. DOMAIN acked = 1..Len(acked) /\ \A i \in 1..Len(acked) : reached[i] \in Events
        BY <3>1 DEF Events
      <3>3. reached \in Seq(Events) /\ Len(reached) = Len(acked)
        BY <3>1, <3>2
      <3> QED BY <3>1, <3>2, <3>3
    <2> DEFINE done == <<[kind |-> "cleared", seq |-> 0]>>
    <2>3. done \in Seq(Events) /\ \A i \in 1..Len(done) : done[i].seq <= sm.current
      BY <1>0 DEF Events
    <2>4. inbound \in Seq(Events) /\ \A i \in 1..Len(inbound) : inbound[i].seq <= sm.current
      BY DEF PeerInv
    <2>5. sm' = sm /\ marks' = <<>> /\ inbound' = (inbound \o reached) \o done
      BY <1>3, <2>1 DEF ClearPlayback
    <2> HIDE DEF reached, done
    <2>6. inbound' \in Seq(Events) /\ \A i \in 1..Len(inbound') : inbound'[i].seq <= sm.current
      <3> DEFINE more == inbound \o reached
      <3>1. more \in Seq(Events) /\ \A i \in 1..Len(more) : more[i].seq <= sm.current
        BY <1>0, <2>2, <2>4, EventsTogether
      <3>2. inbound' = more \o done
        BY <2>5
      <3> HIDE DEF more
      <3>3. /\ more \o done \in Seq(Events)
            /\ \A i \in 1..Len(more \o done) : (more \o done)[i].seq <= sm.current
        BY <1>0, <2>3, <3>1, EventsTogether
      <3> QED BY <3>2, <3>3
    <2> QED BY <2>5, <2>6 DEF PeerInv
  <1>4. CASE RemotePlays
    BY <1>0, <1>4 DEF RemotePlays, PeerInv, Events
  <1>5. CASE HandlePlayed \/ HandleCleared
    <2>1. UNCHANGED marks /\ inbound # <<>> /\ inbound' = Tail(inbound)
      BY <1>5 DEF HandlePlayed, HandleCleared
    <2> QED BY <1>a, <2>1 DEF PeerInv
  <1>6. CASE TakeTurn \/ LlmNext \/ TurnNext
    BY <1>1, <1>6 DEF LlmNext, TurnNext, TakeTurn, FinishCancelOld, CleanupOver, LlmSaved,
       StreamSentence, StreamEnd, EmitTurn, LateRepair, FinishRepair, StartRetry, FinishRetry,
       playVars
  <1>7. CASE Speech
    BY <1>1, <1>7 DEF Speech, SpeechStart, SpeechStop, Transcript, NotInterruption
  <1>8. CASE Quiet
    BY <1>1, <1>2, <1>3, <1>4, <1>5, <1>8
       DEF Quiet, TtsNext, TakeRequest, SynthFrame, SynthDone, SynthFails, TakeAudio, GateReleased,
           GateTimeout, SendChunk, KeepTalking, vars, playVars
  <1> QED BY <1>1, <1>5, <1>6, <1>7, <1>8, Steps
          DEF AudioSent, FinishConfirm, ReleaseOnSpeechEvent, RequestHangup, HangUp, playVars

\* A response that was played stays out of the interrupted ones and is not active.
LEMMA PlayedStep == ASSUME IInv, ManagerInv, PeerInv, PlayedInv, [Next]_vars PROVE PlayedInv'
  <1>0. /\ sm.current \in Nat /\ sm'.current \in Nat /\ sm.current <= sm'.current
        /\ im \in ImStates /\ im.active \in Nat /\ im.active <= sm.current
        /\ im'.active \in {im.active, None, sm.current + 1}
    BY ManagerStep, StepIInv, BoundsAssumption DEF IInv, SeqInv, ManagerInv, ImStates
  <1>1. CASE /\ track'.played = track.played /\ track'.interrupted = track.interrupted
             /\ track' \in TrackStates
    BY <1>0, <1>1 DEF PlayedInv, TrackStates, PlayedOrInterrupted
  <1>2. CASE track' = track
    BY <1>1, <1>2 DEF PlayedInv
  <1>3. CASE ReleaseEstimated
    <2>1. /\ im'.active = None /\ im.active \notin track.interrupted
          /\ track' = [track EXCEPT !.played = @ \cup {im.active}]
      BY <1>0, <1>3, ReleaseDoes
    <2> QED BY <1>0, <2>1 DEF PlayedInv, TrackStates, PlayedOrInterrupted
  <1>4. CASE CanConsiderInterruption /\ Confirm
    <2>1. im.active # None /\ im'.active = None /\ track' = TrackInterrupted(im.active)
      BY <1>4 DEF CanConsiderInterruption, Confirm
    <2> QED BY <1>0, <2>1 DEF TrackInterrupted, PlayedInv, TrackStates, PlayedOrInterrupted
  <1>5. CASE AudioSent
    <2>1. outSeq \in Int /\ track' = [track EXCEPT !.sent = @ \cup {outSeq}]
      BY <1>0, <1>5 DEF AudioSent, IInv, LateInv
    <2> QED BY <1>1, <2>1 DEF PlayedInv, TrackStates
  <1>6. CASE SendCheckpoint
    <2>1. outSeq \in Int /\ track' = [track EXCEPT !.chk = @ \cup {outSeq}]
      BY <1>0, <1>6 DEF SendCheckpoint, IInv, LateInv
    <2> QED BY <1>1, <2>1 DEF PlayedInv, TrackStates
  <1>7. CASE HandlePlayed
    <2> DEFINE s == Head(inbound).seq
    <2>1. s \in Int /\ s <= sm.current
      <3>1. inbound # <<>> /\ inbound \in Seq(Events)
        BY <1>7 DEF HandlePlayed, PeerInv
      <3>2. 1 \in 1..Len(inbound) /\ s = inbound[1].seq
        BY <3>1
      <3> QED BY <3>1, <3>2, EventSeq DEF PeerInv
    <2>2. track' = TrackPlayed(s) /\ im' = MarkFinished(im, s)
      BY <1>7 DEF HandlePlayed
    <2>3. im'.active = IF im.active \in {None, s} THEN None ELSE im.active
      BY <2>2, MarkOK DEF ManagerInv
    <2> HIDE DEF s
    <2>4. /\ track' \in TrackStates /\ track'.played = track.played \cup {s}
          /\ track'.interrupted = track.interrupted \ {s}
      BY <2>1, <2>2 DEF TrackPlayed, PlayedInv, TrackStates
    <2>5. im'.active # None => im'.active \notin track'.played
      BY <2>3, <2>4 DEF PlayedInv
    <2>6. \A r \in track'.played : r <= sm'.current
      BY <1>0, <2>1, <2>4 DEF PlayedInv, TrackStates
    <2>7. PlayedOrInterrupted'
      BY <2>4 DEF PlayedInv, PlayedOrInterrupted
    <2> QED BY <2>4, <2>5, <2>6, <2>7 DEF PlayedInv
  <1>8. CASE HandleCleared
    <2>1. track' = TrackCleared
      BY <1>8 DEF HandleCleared
    <2> QED BY <1>0, <2>1 DEF TrackCleared, PlayedInv, TrackStates, PlayedOrInterrupted
  <1>9. CASE LlmNext \/ TurnNext
    BY <1>2, <1>9 DEF LlmNext, TurnNext, TakeTurn, FinishCancelOld, CleanupOver, LlmSaved,
       StreamSentence, StreamEnd, EmitTurn, LateRepair, FinishRepair, StartRetry, FinishRetry
  <1>10. CASE Speech
    BY <1>2, <1>3, <1>4, <1>10 DEF Speech, SpeechStart, SpeechStop, Transcript
  <1>11. CASE Quiet
    BY <1>2, <1>6, <1>8, <1>11
       DEF Quiet, TtsNext, TakeRequest, SynthFrame, SynthDone, SynthFails, TakeAudio, GateReleased,
           GateTimeout, SendChunk, ClearPlayback, RemotePlays, KeepTalking, vars
  <1>12. CASE FinishConfirm \/ RequestHangup \/ HangUp
    BY <1>2, <1>12 DEF FinishConfirm, RequestHangup, HangUp
  <1>13. CASE ReleaseOnSpeechEvent
    BY <1>3, <1>13 DEF ReleaseOnSpeechEvent
  <1> QED BY <1>5, <1>7, <1>9, <1>10, <1>11, <1>12, <1>13, Steps

-----------------------------------------------------------------------------
(* The theorems about the manager, the gate and the tracker.                *)

\* The invariant of what the tasks share: every part is needed by another's proof.
OwnedInv ==
    /\ IInv /\ ManagerInv /\ ActiveInv /\ PeerInv /\ PlayedInv
    /\ WaitIsOwed /\ IdleManagerLeavesGateOpen

\* It holds throughout.
THEOREM OwnedInductive == Spec => []OwnedInv
  <1>1. Init => OwnedInv
    BY InitIInv, InitManager DEF OwnedInv
  <1>2. OwnedInv /\ [Next]_vars => OwnedInv'
    BY StepIInv, ManagerStep, ActiveStep, PeerStep, PlayedStep, WaitStep, IdleStep DEF OwnedInv
  <1> QED BY <1>1, <1>2, PTL DEF Spec

\* No message of the agent is recorded both as played and as interrupted, in
\* whatever order the checkpoints, clears, confirmations and estimates come.
THEOREM PlayedOrInterruptedHolds == Spec => []PlayedOrInterrupted
  <1>1. OwnedInv => PlayedOrInterrupted
    BY DEF OwnedInv, PlayedInv
  <1> QED BY <1>1, OwnedInductive, PTL

\* An interruption would cancel a response that can still be heard, or one that
\* a suspended loop is already cancelling.
THEOREM ActiveResponseHolds == Spec => []ActiveResponseIsLive
  <1>1. OwnedInv => ActiveResponseIsLive
    BY DEF OwnedInv, ActiveInv, ActiveResponseIsLive
  <1> QED BY <1>1, OwnedInductive, PTL

\* A gate that waits while a response is active is reopened by the end of the
\* speech that closed it, or by the turn that is to be answered; a word heard
\* in silence holds up no response but the one it came in.
THEOREM WaitIsOwedHolds == Spec => []WaitIsOwed
  <1>1. OwnedInv => WaitIsOwed
    BY DEF OwnedInv
  <1> QED BY <1>1, OwnedInductive, PTL

\* Between two events the interruption loop leaves no blocked gate and no unset
\* cleanup event behind.
THEOREM IdleManagerHolds == Spec => []IdleManagerLeavesGateOpen
  <1>1. OwnedInv => IdleManagerLeavesGateOpen
    BY DEF OwnedInv
  <1> QED BY <1>1, OwnedInductive, PTL
=============================================================================
