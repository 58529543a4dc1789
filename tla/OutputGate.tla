------------------------------ MODULE OutputGate ------------------------------
(***************************************************************************)
(* core/interruption/output_gate.py: the gate in front of the telephony     *)
(* socket.  The setters take an uncontended lock and never suspend, so each *)
(* is an operator on the record [state, blocked].  wait_until_released, the *)
(* one method that does suspend, is an action of the output loop (BargeIn). *)
(***************************************************************************)
GateInit == [state |-> "send", blocked |-> {}]

\* decision_for: "drop", "wait" or "send".
DecisionFor(gate, s) ==
    CASE s \in gate.blocked \/ gate.state = "block" -> "drop"
      [] s \notin gate.blocked /\ gate.state = "wait" -> "wait"
      [] OTHER -> "send"

SetSend(gate)  == [gate EXCEPT !.state = "send"]
SetWait(gate)  == [gate EXCEPT !.state = "wait"]
SetBlock(gate) == [gate EXCEPT !.state = "block"]
BlockSequences(gate, ids) == [gate EXCEPT !.blocked = @ \cup ids]

\* What wait_until_released answers once the state has left "wait": it looks
\* at the state only, not at the blocked ids.
ReleaseDecision(gate) == IF gate.state = "block" THEN "drop" ELSE "send"
=============================================================================
