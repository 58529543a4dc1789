--------------------------- MODULE SequenceManager ---------------------------
(***************************************************************************)
(* core/interruption/sequence_manager.py: which assistant responses may     *)
(* still be heard.  Every response gets a fresh sequence id; an id is valid *)
(* until it is invalidated (the caller took over) or retired (it was        *)
(* played).  The methods are operators on the manager's state, a record     *)
(* [current, valid, invalidated], so that a handler that calls several of   *)
(* them is their composition.                                               *)
(***************************************************************************)
EXTENDS Integers

SYSTEM_SEQUENCE_ID == -1

\* The ids of real responses; 0 plays the part of Python's None.
ResponseId == Nat \ {0}
None == 0

Manager(c, v, i) == [current |-> c, valid |-> v, invalidated |-> i]

SequenceInit == Manager(0, {SYSTEM_SEQUENCE_ID}, {})

\* Mutant: an id that is no longer valid is used again.
NextId_Reused(sm) ==
    IF sm.current \in sm.valid \cup {0} THEN sm.current + 1 ELSE sm.current

\* create_sequence returns the new value of current.
NextId(sm) == sm.current + 1
CreateSequence(sm) == Manager(NextId(sm), sm.valid \cup {NextId(sm)}, sm.invalidated)

IsValid(sm, s) == s \in sm.valid

\* The valid ids an invalidation or a purge can touch.
Live(sm) == sm.valid \ {SYSTEM_SEQUENCE_ID}

Invalidate(sm, s) ==
    IF s = SYSTEM_SEQUENCE_ID THEN sm
    ELSE Manager(sm.current, sm.valid \ {s}, sm.invalidated \cup {s})

\* Mutant: the ids are recorded as invalidated and stay valid.
InvalidatePending_KeepsValid(sm) ==
    Manager(sm.current, sm.valid, sm.invalidated \cup Live(sm))

InvalidatePending(sm) ==
    Manager(sm.current, {SYSTEM_SEQUENCE_ID}, sm.invalidated \cup Live(sm))

Retire(sm, s) ==
    IF s = SYSTEM_SEQUENCE_ID THEN sm
    ELSE Manager(sm.current, sm.valid \ {s}, sm.invalidated)
=============================================================================
