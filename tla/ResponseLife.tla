----------------------------- MODULE ResponseLife -----------------------------
(***************************************************************************)
(* What the barge-in core promises, without its loops, queues and gates:    *)
(* responses are born in order and leave the air for good, whether played   *)
(* or taken back; after that the caller is sent at most TailChunks more     *)
(* chunks of one.  If Exclusive, each is on the air alone.                  *)
(***************************************************************************)
EXTENDS Integers

CONSTANTS Responses,   \* the ids of responses, positive integers
          TailChunks,  \* what may still be sent of a response off the air
          Exclusive    \* a birth takes every other response off the air

VARIABLES life,   \* of each response: "unborn", "live" or "gone"
          tail    \* chunks of it sent while it was off the air

\* A call may start with a greeting, response 1, on the air.
LifeInit ==
    /\ \E first \in {"unborn", "live"} :
          life = [r \in Responses |-> IF r = 1 THEN first ELSE "unborn"]
    /\ tail = [r \in Responses |-> 0]

OffAir(gone) == [r \in Responses |-> IF r \in gone /\ life[r] = "live" THEN "gone" ELSE life[r]]

\* The next response goes on the air; others may give way to it.
Birth(r) ==
    /\ life[r] = "unborn" /\ \A q \in Responses : q < r => life[q] # "unborn"
    /\ \E gone \in SUBSET Responses :
          /\ Exclusive => gone = Responses
          /\ life' = [OffAir(gone) EXCEPT ![r] = "live"]
    /\ UNCHANGED tail

LeaveAir == (\E gone \in SUBSET Responses : life' = OffAir(gone)) /\ UNCHANGED tail

LateChunk(r) ==
    /\ life[r] = "gone" /\ tail[r] < TailChunks
    /\ tail' = [tail EXCEPT ![r] = @ + 1]
    /\ UNCHANGED life

LifeNext == LeaveAir \/ \E r \in Responses : Birth(r) \/ LateChunk(r)

LifeSpec == LifeInit /\ [][LifeNext]_<<life, tail>>
=============================================================================
