--------------------------- MODULE Lifecycle_proofs ---------------------------
(***************************************************************************)
(* Proofs about the two components that start providers and have to stop    *)
(* them: the warm-up pool (ProviderWarmup), for any number of ids, aliases, *)
(* bundles and sessions, and the session (SessionLifecycle), for every      *)
(* choice of the loops that an instance leaves out or lets fail.  The two   *)
(* parts of this module share nothing.                                      *)
(***************************************************************************)
EXTENDS ProviderWarmup, SessionLifecycle, TLAPS

(***************************************************************************)
(* The warm-up pool.  Its invariant has two halves: what the pool's four    *)
(* tables say of each other (PoolInv) and who owns a bundle (OwnInv).       *)
(***************************************************************************)

PoolTypes ==
    /\ entries \in [Ids -> Bundles \cup {NoBundle}]
    /\ alias \in [Aliases -> Ids \cup {NoId}]
    /\ idOf \in [Bundles -> Ids \cup {NoId}] /\ names \in [Bundles -> SUBSET Aliases]
    /\ expiry \in [Bundles -> Tasks] /\ monitor \in [Bundles -> Tasks]

OwnTypes ==
    /\ preparing \subseteq Bundles /\ starting \subseteq Bundles
    /\ stopping \subseteq Bundles /\ stopped \subseteq Bundles
    /\ by \in [Bundles -> Bundles \cup Sessions \cup {NoBundle}]
    /\ sibling \subseteq Bundles /\ left \subseteq Bundles
    /\ session \in [Sessions -> [pc : {"idle", "claiming", "checking", "running", "own",
                                       "cancelled"},
                                 bundle : Bundles \cup {NoBundle}]]
    /\ dead \subseteq Bundles /\ old \subseteq Bundles

\* An entry is under the id its bundle was prewarmed under.
EntryKnowsId == \A id \in Ids : entries[id] # NoBundle => idOf[entries[id]] = id

\* An alias is among the names of the entry it leads to.
AliasIsNamed ==
    \A a \in Aliases :
        alias[a] # NoId => entries[alias[a]] # NoBundle /\ a \in names[entries[alias[a]]]

PoolInv == PoolTypes /\ EntryKnowsId /\ AliasIsNamed /\ TasksFollowEntries

\* Bundles whose providers somebody stops, has stopped or has left to themselves.
Gone == stopping \cup stopped \cup left

HeldBundle(b) == \E w \in Sessions : session[w].bundle = b

\* A bundle that was never prewarmed is nowhere.
UnbornIsNowhere ==
    \A b \in Bundles :
        b \in preparing \cup starting \cup Gone \/ HeldBundle(b) => idOf[b] # NoId

OneHolder ==
    \A v, w \in Sessions :
        session[v].bundle = session[w].bundle /\ session[v].bundle # NoBundle => v = w

\* The owners of a bundle exclude each other.
OwnersDisjoint ==
    \A b \in Bundles :
        /\ b \in Pooled => b \notin preparing \cup starting \cup Gone
        /\ b \in preparing => b \notin starting \cup Gone
        /\ b \in starting => b \notin Gone
        /\ b \in stopping => b \notin stopped
        /\ b \in sibling => b \in Gone
        /\ HeldBundle(b) => b \notin Pooled \cup preparing \cup starting \cup Gone

OwnInv == OwnTypes /\ UnbornIsNowhere /\ OneHolder /\ OwnersDisjoint

PoolIInv == PoolInv /\ OwnInv

-----------------------------------------------------------------------------
(* The shapes of the steps.                                                  *)

\* A bundle of the pool is under its own id and nowhere else.
LEMMA PooledUnderItsId ==
    ASSUME PoolInv, WarmupAssumption
    PROVE  \A b \in Bundles : b \in Pooled <=> (idOf[b] \in Ids /\ entries[idOf[b]] = b)
BY DEF PoolInv, PoolTypes, EntryKnowsId, Pooled, WarmupAssumption

\* Taking any set of entries out of the pool keeps its tables in step: discard,
\* expire_stale, claim and close all come down to it.
LEMMA UnpoolOK ==
    ASSUME PoolInv, WarmupAssumption, NEW S, S \subseteq Pooled, Unpool(S), names' = names,
           idOf' \in [Bundles -> Ids \cup {NoId}],
           \A b \in Bundles : idOf[b] # NoId => idOf'[b] = idOf[b]
    PROVE  PoolInv' /\ Pooled' = Pooled \ S
<1>0. NoBundle \notin Bundles /\ NoId \notin Ids
  BY DEF WarmupAssumption
<1>1. S \subseteq Bundles /\ PoolTypes
  BY DEF Pooled, PoolInv
<1>2. \A id \in Ids : entries'[id] = IF entries[id] \in S THEN NoBundle ELSE entries[id]
  BY DEF Unpool, EntriesWithout
<1>3. \A a \in Aliases : alias'[a] = IF \E b \in S : a \in names[b] THEN NoId ELSE alias[a]
  BY DEF Unpool, AliasWithout
<1>4. \A b \in Bundles : /\ expiry'[b] = IF b \in S THEN "done" ELSE expiry[b]
                         /\ monitor'[b] = IF b \in S THEN "done" ELSE monitor[b]
  BY DEF Unpool, TasksWithout
<1>5. PoolTypes'
  <2>1. entries' \in [Ids -> Bundles \cup {NoBundle}]
    BY <1>1 DEF Unpool, EntriesWithout, PoolTypes
  <2>2. alias' \in [Aliases -> Ids \cup {NoId}]
    BY <1>1 DEF Unpool, AliasWithout, PoolTypes
  <2>3. expiry' \in [Bundles -> Tasks] /\ monitor' \in [Bundles -> Tasks]
    BY <1>1 DEF Unpool, TasksWithout, PoolTypes, Tasks
  <2> QED BY <1>1, <2>1, <2>2, <2>3 DEF PoolTypes
<1>6. Pooled' = Pooled \ S
  BY <1>0, <1>1, <1>2 DEF Pooled
<1>7. EntryKnowsId'
  BY <1>0, <1>1, <1>2 DEF PoolInv, PoolTypes, EntryKnowsId
<1>8. AliasIsNamed'
  BY <1>0, <1>1, <1>2, <1>3 DEF PoolInv, PoolTypes, AliasIsNamed
<1>9. TasksFollowEntries'
  BY <1>1, <1>4, <1>6 DEF PoolInv, TasksFollowEntries
<1> QED BY <1>5, <1>6, <1>7, <1>8, <1>9 DEF PoolInv

\* Bundles that leave the pool to be stopped have one owner.
LEMMA StopOK ==
    ASSUME OwnInv, NEW S, S \subseteq Pooled, Pooled' = Pooled \ S,
           NEW r \in Bundles \cup Sessions \cup {NoBundle}, Stop(S, r),
           UNCHANGED <<preparing, starting, stopped, sibling, session, idOf>>,
           \A b \in Pooled : idOf[b] # NoId,
           dead' \subseteq Bundles, old' \subseteq Bundles
    PROVE  OwnInv'
<1>1. S \subseteq Bundles
  BY DEF Pooled
<1>2. Gone' = Gone \cup S
  BY DEF Stop, Gone
<1>3. OwnTypes'
  BY <1>1 DEF OwnInv, OwnTypes, Stop
<1>4. UnbornIsNowhere'
  BY <1>1, <1>2 DEF OwnInv, UnbornIsNowhere, HeldBundle
<1>5. OneHolder'
  BY DEF OwnInv, OneHolder
<1>6. S \cap stopped = {}
  BY <1>1 DEF OwnInv, OwnersDisjoint, Gone
<1>7. OwnersDisjoint'
  BY <1>1, <1>2, <1>6 DEF OwnInv, OwnersDisjoint, HeldBundle, Stop
<1> QED BY <1>3, <1>4, <1>5, <1>7 DEF OwnInv

\* Steps that leave the tables alone.
LEMMA PoolSame ==
    ASSUME PoolInv, UNCHANGED <<tables, idOf, names>>
    PROVE  PoolInv' /\ Pooled' = Pooled
BY DEF PoolInv, PoolTypes, EntryKnowsId, AliasIsNamed, TasksFollowEntries, Pooled, tables

-----------------------------------------------------------------------------
(* One lemma for each kind of step.                                          *)

LEMMA BeginPrewarmOK ==
    ASSUME PoolIInv, WarmupAssumption, NEW id \in Ids, NEW b \in Bundles, BeginPrewarm(id, b)
    PROVE  PoolIInv'
<1>1. PoolInv /\ OwnInv /\ PoolTypes /\ OwnTypes /\ NoId \notin Ids /\ NoBundle \notin Bundles
  BY DEF PoolIInv, PoolInv, OwnInv, WarmupAssumption
<1>2. idOf[b] = NoId /\ Stale \subseteq Pooled /\ Stale \subseteq Bundles
  BY DEF BeginPrewarm, Unborn, Stale, Pooled
<1>3. PoolInv' /\ Pooled' = Pooled \ Stale
  <2>1. idOf' \in [Bundles -> Ids \cup {NoId}]
    BY <1>1 DEF BeginPrewarm, PoolTypes
  <2>2. \A c \in Bundles : idOf[c] # NoId => idOf'[c] = idOf[c]
    BY <1>1, <1>2 DEF BeginPrewarm, PoolTypes
  <2>3. Unpool(Stale) /\ names' = names
    BY DEF BeginPrewarm, ExpireStale
  <2> QED BY <1>1, <1>2, <2>1, <2>2, <2>3, UnpoolOK
<1>4. /\ preparing' = preparing \cup {b} /\ Stop(Stale, b)
      /\ UNCHANGED <<starting, stopped, sibling, session, dead, old>>
      /\ \A c \in Bundles : idOf'[c] = IF c = b THEN id ELSE idOf[c]
  BY <1>1 DEF BeginPrewarm, ExpireStale, PoolTypes
<1>5. \A c \in Pooled : idOf[c] # NoId
  BY <1>1, PooledUnderItsId DEF Pooled
<1>6. OwnTypes'
  BY <1>1, <1>2, <1>4 DEF OwnTypes, Stop
<1>7. Gone' = Gone \cup Stale /\ stopping' = stopping \cup Stale
  BY <1>4 DEF Stop, Gone
<1>8. UnbornIsNowhere'
  BY <1>1, <1>2, <1>4, <1>5, <1>7 DEF OwnInv, UnbornIsNowhere, HeldBundle
<1>9. OneHolder'
  BY <1>1, <1>4 DEF OwnInv, OneHolder
<1>10. b \notin preparing \cup starting \cup Gone \cup Pooled /\ ~HeldBundle(b)
  BY <1>1, <1>2, <1>5 DEF OwnInv, UnbornIsNowhere
<1>11. Stale \cap stopped = {}
  BY <1>1, <1>2 DEF OwnInv, OwnersDisjoint, Gone
<1>12. OwnersDisjoint'
  BY <1>1, <1>2, <1>3, <1>4, <1>7, <1>10, <1>11 DEF OwnInv, OwnersDisjoint, HeldBundle
<1> QED BY <1>3, <1>6, <1>8, <1>9, <1>12 DEF PoolIInv, OwnInv

LEMMA PrewarmReadyOK ==
    ASSUME PoolIInv, WarmupAssumption, NEW b \in Bundles, PrewarmReady(b)
    PROVE  PoolIInv'
<1> DEFINE id == idOf[b]
           S  == {entries[id]} \cap Bundles
<1>1. PoolInv /\ OwnInv /\ PoolTypes /\ OwnTypes /\ NoId \notin Ids /\ NoBundle \notin Bundles
  BY DEF PoolIInv, PoolInv, OwnInv, WarmupAssumption
<1>2. b \in starting /\ id \in Ids /\ b \notin Pooled
  BY <1>1 DEF PrewarmReady, OwnInv, UnbornIsNowhere, OwnersDisjoint, PoolTypes
<1>3. S \subseteq Pooled /\ S \subseteq Bundles /\ b \notin S
  BY <1>2 DEF Pooled
<1>4. /\ entries' = [EntriesWithout(S) EXCEPT ![id] = b]
      /\ alias' = AliasWithout(S)
      /\ expiry' = [TasksWithout(expiry, S) EXCEPT ![b] = "sleeping"]
      /\ monitor' = [TasksWithout(monitor, S) EXCEPT ![b] = "sleeping"]
      /\ Stop(S, b) /\ starting' = starting \ {b}
      /\ UNCHANGED <<idOf, names, preparing, stopped, sibling, session, dead, old>>
  BY DEF PrewarmReady
<1> HIDE DEF id, S
<1>5. \A i \in Ids : entries'[i] = IF i = id THEN b
                                   ELSE IF entries[i] \in S THEN NoBundle ELSE entries[i]
  BY <1>4 DEF EntriesWithout
<1>6. \A a \in Aliases : alias'[a] = IF \E c \in S : a \in names[c] THEN NoId ELSE alias[a]
  BY <1>4 DEF AliasWithout
<1>7. \A c \in Bundles :
         /\ expiry'[c] = IF c = b THEN "sleeping" ELSE IF c \in S THEN "done" ELSE expiry[c]
         /\ monitor'[c] = IF c = b THEN "sleeping" ELSE IF c \in S THEN "done" ELSE monitor[c]
  BY <1>4 DEF TasksWithout
<1>8. S = {entries[id]} \cap Bundles /\ idOf[b] = id
  BY DEF id, S
<1>9. \A c \in Bundles : c \in Pooled' <=> (c = b \/ c \in Pooled \ S)
  <2>1. \A c \in S : c = entries[id] /\ idOf[c] = id
    BY <1>1, <1>2, <1>8 DEF PoolInv, EntryKnowsId
  <2> QED BY <1>1, <1>2, <1>3, <1>5, <1>8, <2>1 DEF Pooled, PoolTypes
<1>10. PoolTypes'
  <2>1. entries' \in [Ids -> Bundles \cup {NoBundle}]
    BY <1>1, <1>2, <1>4 DEF EntriesWithout, PoolTypes
  <2>2. alias' \in [Aliases -> Ids \cup {NoId}]
    BY <1>1, <1>4 DEF AliasWithout, PoolTypes
  <2>3. expiry' \in [Bundles -> Tasks] /\ monitor' \in [Bundles -> Tasks]
    BY <1>1, <1>4 DEF TasksWithout, PoolTypes, Tasks
  <2> QED BY <1>1, <1>4, <2>1, <2>2, <2>3 DEF PoolTypes
<1>11. EntryKnowsId'
  BY <1>1, <1>4, <1>5, <1>8 DEF PoolInv, EntryKnowsId
<1>12. AliasIsNamed'
  <2> SUFFICES ASSUME NEW a \in Aliases, alias'[a] # NoId
               PROVE  entries'[alias'[a]] # NoBundle /\ a \in names'[entries'[alias'[a]]]
    BY DEF AliasIsNamed
  <2>1. alias'[a] = alias[a] /\ alias[a] \in Ids /\ \A c \in S : a \notin names[c]
    BY <1>1, <1>6 DEF PoolTypes
  <2>2. entries[alias[a]] \in Bundles /\ a \in names[entries[alias[a]]]
    BY <1>1, <2>1 DEF PoolInv, PoolTypes, AliasIsNamed
  <2>3. alias[a] # id
    BY <1>8, <2>1, <2>2
  <2>4. entries'[alias[a]] = entries[alias[a]]
    BY <1>5, <2>1, <2>2, <2>3
  <2> QED BY <1>1, <1>4, <2>1, <2>2, <2>4
<1>13. TasksFollowEntries'
  BY <1>1, <1>7, <1>9 DEF PoolInv, TasksFollowEntries
<1>14. OwnTypes'
  BY <1>1, <1>3, <1>4 DEF OwnTypes, Stop
<1>15. \A c \in Pooled : idOf[c] # NoId
  BY <1>1, PooledUnderItsId DEF Pooled
<1>16. Gone' = Gone \cup S /\ stopping' = stopping \cup S
  BY <1>4 DEF Stop, Gone
<1>17. UnbornIsNowhere' /\ OneHolder'
  BY <1>1, <1>3, <1>4, <1>15, <1>16 DEF OwnInv, UnbornIsNowhere, OneHolder, HeldBundle
<1>18. S \cap stopped = {}
  BY <1>1, <1>3 DEF OwnInv, OwnersDisjoint, Gone
<1>19. OwnersDisjoint'
  BY <1>1, <1>2, <1>3, <1>4, <1>9, <1>16, <1>18 DEF OwnInv, OwnersDisjoint, HeldBundle
<1> QED BY <1>10, <1>11, <1>12, <1>13, <1>14, <1>17, <1>19 DEF PoolIInv, PoolInv, OwnInv

\* Steps of a session: it may take its bundle out of the pool, keep it, or give
\* it away to be stopped.
LEMMA SessionOK ==
    ASSUME PoolIInv, WarmupAssumption, NEW w \in Sessions, NEW S, NEW T, NEW c,
           S \subseteq Pooled, PoolInv', Pooled' = Pooled \ S,
           UNCHANGED <<idOf, preparing, starting, stopped, sibling, dead, old>>, Stop(T, w),
           session' = [session EXCEPT ![w] = c],
           c \in [pc : {"idle", "claiming", "checking", "running", "own", "cancelled"},
                  bundle : Bundles \cup {NoBundle}],
           \/ c.bundle = session[w].bundle /\ T = S
           \/ c.bundle = NoBundle /\ S = {} /\ T = {}
           \/ S = {c.bundle} /\ T = {}
           \/ /\ c.bundle = NoBundle /\ S = {} /\ session[w].bundle \in Bundles
              /\ T = {session[w].bundle}
    PROVE  PoolIInv'
<1>1. PoolInv /\ OwnInv /\ PoolTypes /\ OwnTypes /\ NoBundle \notin Bundles
  BY DEF PoolIInv, PoolInv, OwnInv, WarmupAssumption
<1>3. \A v \in Sessions : session'[v] = IF v = w THEN c ELSE session[v]
  BY <1>1 DEF OwnTypes
<1>4. S \subseteq Bundles /\ T \subseteq Bundles /\ \A b \in Pooled : idOf[b] # NoId
  BY <1>1, PooledUnderItsId DEF Pooled, WarmupAssumption
<1>5. Gone' = Gone \cup T /\ stopping' = stopping \cup T
  BY DEF Stop, Gone
<1>6. OwnTypes'
  BY <1>1, <1>4 DEF OwnTypes, Stop
<1>7. \A b \in T : b \in S \/ (HeldBundle(b) /\ b = session[w].bundle)
  BY <1>1 DEF HeldBundle
<1>8. \A b \in T : idOf[b] # NoId /\ b \notin stopped
  BY <1>1, <1>4, <1>7 DEF OwnInv, UnbornIsNowhere, OwnersDisjoint, Gone
<1>9. \A b \in Bundles : HeldBundle(b)' => HeldBundle(b) \/ b \in S
  BY <1>1, <1>3, <1>4 DEF HeldBundle
<1>10. UnbornIsNowhere'
  BY <1>1, <1>4, <1>5, <1>8, <1>9 DEF OwnInv, UnbornIsNowhere
<1>11. OneHolder'
  BY <1>1, <1>3, <1>4 DEF OwnInv, OneHolder, OwnersDisjoint, HeldBundle
<1>12. OwnersDisjoint'
  <2>1. \A b \in Bundles : HeldBundle(b)' /\ S = {} /\ c.bundle = NoBundle
           => b # session[w].bundle
    BY <1>1, <1>3 DEF HeldBundle, OwnInv, OneHolder
  <2>2. CASE c.bundle = session[w].bundle /\ T = S
    <3>1. \A b \in Bundles : HeldBundle(b)' => HeldBundle(b)
      BY <1>1, <1>3, <2>2 DEF HeldBundle
    <3> QED BY <1>1, <1>4, <1>5, <1>8, <2>2, <3>1 DEF OwnInv, OwnersDisjoint
  <2>3. CASE S = {} /\ T = {}
    BY <1>1, <1>5, <1>9, <2>3 DEF OwnInv, OwnersDisjoint
  <2>4. CASE S = {c.bundle} /\ T = {}
    BY <1>1, <1>4, <1>5, <1>9, <2>4 DEF OwnInv, OwnersDisjoint
  <2>5. CASE /\ c.bundle = NoBundle /\ S = {} /\ session[w].bundle \in Bundles
             /\ T = {session[w].bundle}
    <3>1. HeldBundle(session[w].bundle)
      BY DEF HeldBundle
    <3> QED BY <1>1, <1>5, <1>8, <1>9, <2>1, <2>5, <3>1 DEF OwnInv, OwnersDisjoint
  <2> QED BY <2>2, <2>3, <2>4, <2>5
<1> QED BY <1>6, <1>10, <1>11, <1>12 DEF PoolIInv, OwnInv

\* A cancelled request or session abandons its stops: what it stopped is left,
\* and what it was starting.
LEMMA GiveUpOK ==
    ASSUME OwnInv, NEW r, NEW L, L \subseteq starting, GiveUp(r, L),
           preparing' \subseteq preparing, starting' \subseteq starting \ L,
           Pooled' = Pooled, UNCHANGED <<idOf, stopped, sibling, dead, old>>,
           OwnTypes', \A w \in Sessions : session'[w].bundle = session[w].bundle
    PROVE  OwnInv'
<1>1. OwnTypes /\ StoppedBy(r) \subseteq stopping
  BY DEF OwnInv, StoppedBy
<1>2. Gone' = Gone \cup L /\ stopping' \subseteq stopping
  BY <1>1 DEF GiveUp, Gone
<1>3. \A b : HeldBundle(b)' <=> HeldBundle(b)
  BY DEF HeldBundle
<1>4. UnbornIsNowhere'
  BY <1>2, <1>3 DEF OwnInv, UnbornIsNowhere
<1>5. OneHolder'
  BY DEF OwnInv, OneHolder
<1>6. OwnersDisjoint'
  BY <1>1, <1>2, <1>3 DEF OwnInv, OwnTypes, OwnersDisjoint
<1> QED BY <1>4, <1>5, <1>6 DEF OwnInv

\* The types of what GiveUp writes.
LEMMA GiveUpTypes ==
    ASSUME OwnTypes, NEW r, NEW L, L \subseteq Bundles, GiveUp(r, L)
    PROVE  /\ stopping' \subseteq Bundles /\ left' \subseteq Bundles
           /\ by' \in [Bundles -> Bundles \cup Sessions \cup {NoBundle}]
BY DEF OwnTypes, GiveUp, StoppedBy

LEMMA SessionStepOK ==
    ASSUME PoolIInv, WarmupAssumption, NEW w \in Sessions, SessionStep(w)
    PROVE  PoolIInv'
<1>1. PoolInv /\ OwnInv /\ OwnTypes
  BY DEF PoolIInv, OwnInv
<1>2. session[w] \in [pc : {"idle", "claiming", "checking", "running", "own", "cancelled"},
                      bundle : Bundles \cup {NoBundle}]
  BY <1>1 DEF OwnTypes
<1>3. CASE BeginClaim(w)
  <2> DEFINE c == [session[w] EXCEPT !.pc = "claiming"]
  <2>1. session' = [session EXCEPT ![w] = c] /\ c.bundle = session[w].bundle
    BY <1>2, <1>3 DEF BeginClaim
  <2>2. c \in [pc : {"idle", "claiming", "checking", "running", "own", "cancelled"},
               bundle : Bundles \cup {NoBundle}]
    BY <1>2
  <2>3. Stale \subseteq Pooled
    BY DEF Stale
  <2>4. PoolInv' /\ Pooled' = Pooled \ Stale
    BY <1>1, <1>3, <2>3, UnpoolOK DEF BeginClaim, ExpireStale, PoolInv, PoolTypes
  <2> HIDE DEF c
  <2>5. /\ Stop(Stale, w)
        /\ UNCHANGED <<idOf, preparing, starting, stopped, sibling, dead, old>>
    BY <1>3 DEF BeginClaim, ExpireStale
  <2> QED BY <2>1, <2>2, <2>3, <2>4, <2>5, SessionOK
<1>4. CASE FinishClaim(w)
  <2>1. PoolInv' /\ Pooled' = Pooled \ {}
    BY <1>1, <1>4, PoolSame DEF FinishClaim
  <2>2. UNCHANGED <<idOf, preparing, starting, stopped, sibling, dead, old>>
    BY <1>4 DEF FinishClaim
  <2>3. CASE session[w].bundle \in dead
    <3> DEFINE c == [pc |-> "own", bundle |-> NoBundle]
    <3>1. session[w].bundle \in Bundles
      BY <1>1, <2>3 DEF OwnTypes
    <3>2. session' = [session EXCEPT ![w] = c] /\ Stop({session[w].bundle}, w)
      BY <1>4, <2>3 DEF FinishClaim
    <3>3. c.bundle = NoBundle
       /\ c \in [pc : {"idle", "claiming", "checking", "running", "own", "cancelled"},
                 bundle : Bundles \cup {NoBundle}]
      OBVIOUS
    <3> HIDE DEF c
    <3> QED BY <2>1, <2>2, <3>1, <3>2, <3>3, SessionOK
  <2>4. CASE session[w].bundle \notin dead
    <3> DEFINE c == [pc |-> "running", bundle |-> session[w].bundle]
    <3>1. session' = [session EXCEPT ![w] = c] /\ UNCHANGED stops
      BY <1>4, <2>4 DEF FinishClaim
    <3>2. Stop({}, w)
      BY <1>1, <3>1 DEF Stop, stops, OwnTypes
    <3>3. c.bundle = session[w].bundle
       /\ c \in [pc : {"idle", "claiming", "checking", "running", "own", "cancelled"},
                 bundle : Bundles \cup {NoBundle}]
      BY <1>2
    <3> HIDE DEF c
    <3> QED BY <2>1, <2>2, <3>1, <3>2, <3>3, SessionOK
  <2> QED BY <2>3, <2>4
<1>5. CASE CancelClaim(w)
  <2>1. GiveUp(w, {}) /\ session' = [session EXCEPT ![w].pc = "cancelled"]
    BY <1>5 DEF CancelClaim
  <2>2. UNCHANGED <<tables, idOf, names, preparing, starting, stopped, sibling, dead, old>>
    BY <1>5 DEF CancelClaim
  <2>3. PoolInv' /\ Pooled' = Pooled
    BY <1>1, <2>2, PoolSame
  <2>4. /\ \A v \in Sessions : session'[v].bundle = session[v].bundle
        /\ session' \in [Sessions -> [pc : {"idle", "claiming", "checking", "running", "own",
                                            "cancelled"},
                                      bundle : Bundles \cup {NoBundle}]]
    BY <1>1, <2>1 DEF OwnTypes
  <2>5. OwnTypes'
    BY <1>1, <2>1, <2>2, <2>4, GiveUpTypes DEF OwnTypes
  <2>6. OwnInv'
    BY <1>1, <2>1, <2>2, <2>3, <2>4, <2>5, GiveUpOK
  <2> QED BY <2>3, <2>6 DEF PoolIInv
<1>6. ASSUME NEW id \in Ids \cup {NoId}, NEW a \in Aliases \cup {NoId}, TakeEntry(w, id, a)
      PROVE  PoolIInv'
  <2>1. \A key : Lookup(key) \in Pooled \cup {NoBundle}
    BY <1>1 DEF Lookup, Pooled, PoolInv, PoolTypes
  <2> DEFINE b == IF Lookup(id) # NoBundle THEN Lookup(id) ELSE Lookup(a)
             S == {b} \cap Bundles
             c == [pc |-> IF b = NoBundle THEN "own" ELSE "checking", bundle |-> b]
  <2>2. Unpool(S) /\ session' = [session EXCEPT ![w] = c]
    BY <1>6 DEF TakeEntry
  <2>3. b \in Pooled \cup {NoBundle} /\ Pooled \subseteq Bundles /\ NoBundle \notin Bundles
    BY <2>1 DEF Pooled, WarmupAssumption
  <2> HIDE DEF b
  <2>4. S \subseteq Pooled
    BY <2>3
  <2>5. PoolInv' /\ Pooled' = Pooled \ S
    BY <1>1, <1>6, <2>2, <2>4, UnpoolOK DEF TakeEntry, PoolInv, PoolTypes
  <2>6. c \in [pc : {"idle", "claiming", "checking", "running", "own", "cancelled"},
               bundle : Bundles \cup {NoBundle}] /\ c.bundle = b
    BY <2>3
  <2>7. \/ S = {} /\ c.bundle = NoBundle
        \/ S = {c.bundle}
    BY <2>3, <2>6
  <2> HIDE DEF S, c
  <2>8. UNCHANGED <<idOf, preparing, starting, stops, stopped, sibling, dead, old>>
    BY <1>6 DEF TakeEntry
  <2>9. Stop({}, w)
    BY <1>1, <2>8 DEF Stop, stops, OwnTypes
  <2>10. CASE S = {} /\ c.bundle = NoBundle
    BY <2>2, <2>4, <2>5, <2>6, <2>8, <2>9, <2>10, SessionOK
  <2>11. CASE S = {c.bundle}
    BY <2>2, <2>4, <2>5, <2>6, <2>8, <2>9, <2>11, SessionOK
  <2> QED BY <2>7, <2>10, <2>11
<1> QED BY <1>3, <1>4, <1>5, <1>6 DEF SessionStep

\* discard and its callers: what is under an id, if anything is, leaves the pool.
LEMMA DiscardOK ==
    ASSUME PoolIInv, WarmupAssumption, NEW S, S \subseteq Pooled, Unpool(S),
           NEW r \in Bundles \cup Sessions \cup {NoBundle}, Stop(S, r),
           UNCHANGED <<idOf, names, preparing, starting, stopped, sibling, session, dead, old>>
    PROVE  PoolIInv'
<1>1. PoolInv /\ OwnInv /\ OwnTypes
  BY DEF PoolIInv, OwnInv
<1>2. PoolInv' /\ Pooled' = Pooled \ S
  BY <1>1, UnpoolOK DEF PoolInv, PoolTypes
<1>3. \A b \in Pooled : idOf[b] # NoId
  BY <1>1, PooledUnderItsId DEF Pooled, WarmupAssumption
<1> QED BY <1>1, <1>2, <1>3, StopOK DEF PoolIInv, OwnTypes

\* The tasks of an entry know it by id; as they live no longer than the entry,
\* what they find under the id is their own entry.
LEMMA TaskFindsItsEntry ==
    ASSUME PoolInv, WarmupAssumption, NEW b \in Bundles,
           expiry[b] = "sleeping" \/ monitor[b] \in {"sleeping", "checking"}
    PROVE  b \in Pooled /\ entries[idOf[b]] = b
BY PooledUnderItsId DEF PoolInv, TasksFollowEntries

LEMMA TaskOK ==
    ASSUME PoolIInv, WarmupAssumption, NEW b \in Bundles,
           ExpiryFires(b) \/ MonitorLooks(b) \/ MonitorDecides(b)
    PROVE  PoolIInv'
<1>1. PoolInv /\ OwnInv /\ PoolTypes
  BY DEF PoolIInv, PoolInv
<1>2. b \in Pooled /\ entries[idOf[b]] = b /\ {entries[idOf[b]]} \cap Bundles = {b}
  BY <1>1, TaskFindsItsEntry DEF ExpiryFires, MonitorLooks, MonitorDecides
<1>3. \A t \in [Bundles -> Tasks] : [TasksWithout(t, {b}) EXCEPT ![b] = "done"]
                                       = TasksWithout(t, {b})
  BY DEF TasksWithout
<1>4. CASE ExpiryFires(b)
  <2>1. /\ entries' = EntriesWithout({b}) /\ alias' = AliasWithout({b})
        /\ expiry' = [TasksWithout(expiry, {b}) EXCEPT ![b] = "done"]
        /\ monitor' = TasksWithout(monitor, {b}) /\ Stop({b}, NoBundle)
        /\ UNCHANGED <<idOf, names, preparing, starting, stopped, sibling, session, dead, old>>
    BY <1>2, <1>4 DEF ExpiryFires
  <2>2. Unpool({b})
    BY <1>1, <1>3, <2>1 DEF Unpool, PoolTypes
  <2> QED BY <1>2, <2>1, <2>2, DiscardOK
<1>5. CASE MonitorDecides(b) /\ b \in dead
  <2>1. /\ entries' = EntriesWithout({b}) /\ alias' = AliasWithout({b})
        /\ monitor' = [TasksWithout(monitor, {b}) EXCEPT ![b] = "done"]
        /\ expiry' = TasksWithout(expiry, {b}) /\ Stop({b}, NoBundle)
        /\ UNCHANGED <<idOf, names, preparing, starting, stopped, sibling, session, dead, old>>
    BY <1>2, <1>5 DEF MonitorDecides
  <2>2. Unpool({b})
    BY <1>1, <1>3, <2>1 DEF Unpool, PoolTypes
  <2> QED BY <1>2, <2>1, <2>2, DiscardOK
<1>6. CASE MonitorLooks(b) \/ (MonitorDecides(b) /\ b \notin dead)
  <2>1. /\ UNCHANGED <<entries, alias, expiry, idOf, names>>
        /\ UNCHANGED <<preparing, starting, stops, stopped, sibling, session, dead, old>>
        /\ \E p \in {"sleeping", "checking"} : monitor' = [monitor EXCEPT ![b] = p]
    BY <1>2, <1>6 DEF MonitorLooks, MonitorDecides, Pooled, WarmupAssumption
  <2>2. Pooled' = Pooled
    BY <2>1 DEF Pooled
  <2>3. PoolTypes' /\ \A c \in Bundles : c # b => monitor'[c] = monitor[c]
    BY <1>1, <2>1 DEF PoolTypes, Tasks
  <2>4. monitor'[b] \in {"sleeping", "checking"}
    BY <1>1, <2>1 DEF PoolTypes
  <2>5. TasksFollowEntries'
    BY <1>1, <1>2, <2>1, <2>2, <2>3, <2>4 DEF PoolInv, TasksFollowEntries
  <2>6. EntryKnowsId' /\ AliasIsNamed'
    BY <1>1, <2>1 DEF PoolInv, EntryKnowsId, AliasIsNamed
  <2>7. OwnInv'
    BY <1>1, <2>1, <2>2
       DEF OwnInv, OwnTypes, UnbornIsNowhere, OneHolder, OwnersDisjoint, HeldBundle, Gone, stops
  <2> QED BY <2>3, <2>5, <2>6, <2>7 DEF PoolIInv, PoolInv
<1> QED BY <1>4, <1>5, <1>6

LEMMA CloseOK ==
    ASSUME PoolIInv, WarmupAssumption, Close
    PROVE  PoolIInv'
<1>1. PoolInv /\ PoolTypes
  BY DEF PoolIInv, PoolInv
<1>2. entries' = EntriesWithout(Pooled)
  BY <1>1 DEF Close, EntriesWithout, Pooled, PoolTypes
<1>3. alias' = AliasWithout(Pooled)
  BY <1>1 DEF Close, AliasWithout, Pooled, PoolTypes, PoolInv, AliasIsNamed
<1> QED BY <1>2, <1>3, DiscardOK DEF Close, Unpool

LEMMA AddAliasOK ==
    ASSUME PoolIInv, WarmupAssumption, NEW a \in Aliases, NEW id \in Ids, AddAlias(a, id)
    PROVE  PoolIInv'
<1>1. PoolInv /\ PoolTypes /\ OwnInv
  BY DEF PoolIInv, PoolInv
<1>2. /\ UNCHANGED <<entries, expiry, monitor, idOf, preparing, starting, stops, stopped,
                     sibling, session, dead, old>>
      /\ entries[id] \in Bundles
      /\ \A x \in Aliases : alias'[x] = IF x = a THEN id ELSE alias[x]
      /\ \A b \in Bundles : names'[b] = IF b = entries[id] THEN names[b] \cup {a} ELSE names[b]
  BY <1>1 DEF AddAlias, PoolTypes
<1>3. PoolTypes'
  BY <1>1, <1>2 DEF AddAlias, PoolTypes
<1>4. AliasIsNamed'
  <2> SUFFICES ASSUME NEW x \in Aliases, alias'[x] # NoId
               PROVE  entries'[alias'[x]] # NoBundle /\ x \in names'[entries'[alias'[x]]]
    BY DEF AliasIsNamed
  <2>1. CASE x = a
    BY <1>2, <2>1 DEF WarmupAssumption
  <2>2. CASE x # a
    <3>1. /\ alias'[x] = alias[x] /\ entries[alias[x]] \in Bundles
          /\ x \in names[entries[alias[x]]]
      BY <1>1, <1>2, <2>2 DEF PoolInv, PoolTypes, AliasIsNamed
    <3> QED BY <1>2, <3>1 DEF WarmupAssumption
  <2> QED BY <2>1, <2>2
<1>5. EntryKnowsId' /\ TasksFollowEntries'
  BY <1>1, <1>2 DEF PoolInv, EntryKnowsId, TasksFollowEntries, Pooled
<1>6. OwnInv'
  BY <1>1, <1>2
     DEF OwnInv, OwnTypes, UnbornIsNowhere, OneHolder, OwnersDisjoint, HeldBundle, Pooled, Gone,
         stops
<1> QED BY <1>3, <1>4, <1>5, <1>6 DEF PoolIInv, PoolInv

\* Steps of one bundle that do not touch the tables.
LEMMA BundleOK ==
    ASSUME PoolIInv, WarmupAssumption, NEW b \in Bundles,
           \/ StartBundle(b) \/ PrewarmFails(b) \/ SiblingEnds(b) \/ CancelRequest(b)
           \/ StopDone(b) \/ ProviderDrops(b) \/ GrowsOld(b)
    PROVE  PoolIInv'
<1>1. PoolInv /\ OwnInv /\ OwnTypes
  BY DEF PoolIInv, OwnInv
<1>2. PoolInv' /\ Pooled' = Pooled
  BY <1>1, PoolSame DEF StartBundle, PrewarmFails, SiblingEnds, CancelRequest, StopDone,
                        ProviderDrops, GrowsOld
<1>3. CASE StartBundle(b)
  BY <1>1, <1>2, <1>3 DEF StartBundle, PoolIInv, OwnInv, OwnTypes, UnbornIsNowhere, OneHolder,
                          OwnersDisjoint, HeldBundle, Gone, stops
<1>4. CASE PrewarmFails(b)
  <2>1. /\ starting' = starting \ {b} /\ b \in starting /\ stopping' = stopping \cup {b}
        /\ Gone' = Gone \cup {b} /\ sibling' \subseteq sibling \cup {b}
        /\ UNCHANGED <<idOf, preparing, stopped, session, dead, old>>
    BY <1>4 DEF PrewarmFails, Stop, Gone
  <2>2. OwnTypes'
    BY <1>1, <1>4, <2>1 DEF PrewarmFails, OwnTypes, Stop
  <2>3. UnbornIsNowhere' /\ OneHolder'
    BY <1>1, <2>1 DEF OwnInv, UnbornIsNowhere, OneHolder, HeldBundle
  <2>4. b \notin stopped
    BY <1>1, <2>1 DEF OwnInv, OwnersDisjoint, Gone
  <2>5. OwnersDisjoint'
    BY <1>1, <1>2, <2>1, <2>4 DEF OwnInv, OwnersDisjoint, HeldBundle
  <2> QED BY <1>2, <2>2, <2>3, <2>5 DEF PoolIInv, OwnInv
<1>5. CASE SiblingEnds(b)
  <2>1. /\ Gone' = Gone /\ sibling' = sibling \ {b} /\ stopping' = stopping
        /\ UNCHANGED <<idOf, preparing, starting, stopped, session, dead, old>>
    BY <1>1, <1>5 DEF SiblingEnds, OwnInv, OwnersDisjoint, Gone
  <2>2. OwnTypes'
    BY <1>1, <1>5 DEF SiblingEnds, OwnTypes
  <2>3. UnbornIsNowhere' /\ OneHolder' /\ OwnersDisjoint'
    BY <1>1, <1>2, <2>1 DEF OwnInv, UnbornIsNowhere, OneHolder, OwnersDisjoint, HeldBundle
  <2> QED BY <1>2, <2>2, <2>3 DEF PoolIInv, OwnInv
<1>6. CASE CancelRequest(b)
  <2>1. /\ GiveUp(b, starting \cap {b}) /\ starting \cap {b} \subseteq Bundles
        /\ preparing' = preparing \ {b} /\ starting' = starting \ {b}
        /\ UNCHANGED <<idOf, stopped, sibling, session, dead, old>>
    BY <1>6 DEF CancelRequest
  <2>2. OwnTypes'
    BY <1>1, <2>1, GiveUpTypes DEF OwnTypes
  <2>3. OwnInv'
    BY <1>1, <1>2, <2>1, <2>2, GiveUpOK
  <2> QED BY <1>2, <2>3 DEF PoolIInv
<1>7. CASE StopDone(b)
  <2>1. /\ Gone' = Gone /\ stopping' = stopping \ {b} /\ stopped' = stopped \cup {b}
        /\ UNCHANGED <<idOf, preparing, starting, sibling, left, session, dead, old>>
    BY <1>7 DEF StopDone, Gone
  <2>2. OwnTypes'
    BY <1>1, <1>7 DEF StopDone, OwnTypes
  <2>3. UnbornIsNowhere' /\ OneHolder' /\ OwnersDisjoint'
    BY <1>1, <1>2, <2>1 DEF OwnInv, UnbornIsNowhere, OneHolder, OwnersDisjoint, HeldBundle
  <2> QED BY <1>2, <2>2, <2>3 DEF PoolIInv, OwnInv
<1>8. CASE ProviderDrops(b) \/ GrowsOld(b)
  BY <1>1, <1>2, <1>8 DEF ProviderDrops, GrowsOld, PoolIInv, OwnInv, OwnTypes, UnbornIsNowhere,
                          OneHolder, OwnersDisjoint, HeldBundle, Gone, stops
<1> QED BY <1>3, <1>4, <1>5, <1>6, <1>7, <1>8

-----------------------------------------------------------------------------
(* The theorems                                                              *)

LEMMA IInvInit ==
    ASSUME PoolInit, WarmupAssumption
    PROVE  PoolIInv
<1>1. Pooled = {} /\ \A b : ~HeldBundle(b) \/ b = NoBundle
  BY DEF PoolInit, Pooled, HeldBundle, WarmupAssumption
<1>2. PoolInv
  BY <1>1 DEF PoolInit, PoolInv, PoolTypes, EntryKnowsId, AliasIsNamed, TasksFollowEntries,
     Tasks
<1>3. OwnInv
  BY <1>1 DEF PoolInit, OwnInv, OwnTypes, UnbornIsNowhere, OneHolder, OwnersDisjoint, Gone,
              WarmupAssumption
<1> QED BY <1>2, <1>3 DEF PoolIInv

LEMMA IInvStep ==
    ASSUME PoolIInv, WarmupAssumption, [PoolNext]_poolVars
    PROVE  PoolIInv'
<1>1. ASSUME NEW b \in Bundles, BundleStep(b)
      PROVE  PoolIInv'
  <2>1. CASE CallFailed(b)
    BY <2>1, DiscardOK DEF CallFailed
  <2> QED BY <1>1, <2>1, BeginPrewarmOK, PrewarmReadyOK, TaskOK, BundleOK DEF BundleStep
<1>2. ASSUME NEW w \in Sessions, SessionStep(w)
      PROVE  PoolIInv'
  BY <1>2, SessionStepOK
<1>3. ASSUME NEW id \in Ids, NEW a \in Aliases, AddAlias(a, id)
      PROVE  PoolIInv'
  BY <1>3, AddAliasOK
<1>4. CASE Close
  BY <1>4, CloseOK
<1>5. CASE UNCHANGED poolVars
  BY <1>5, PoolSame DEF poolVars, PoolIInv, OwnInv, OwnTypes, UnbornIsNowhere, OneHolder,
                        OwnersDisjoint, HeldBundle, Gone, stops
<1> QED BY <1>1, <1>2, <1>3, <1>4, <1>5 DEF PoolNext

LEMMA IInvAlways == PoolSpec => []PoolIInv
BY IInvInit, IInvStep, WarmupAssumption, PTL DEF PoolSpec

\* Type correctness of the warm-up pool.
THEOREM PoolTypesHold == PoolSpec => []PoolTypeOK
<1>1. PoolIInv => PoolTypeOK
  BY DEF PoolIInv, PoolInv, OwnInv, PoolTypes, OwnTypes, PoolTypeOK
<1> QED BY <1>1, IInvAlways, PTL

\* A prewarmed bundle of providers never has two owners: not two calls, and not
\* a call and the pool's expiry, health check, replacement or shutdown.
THEOREM SoleOwnerHolds == PoolSpec => []SoleOwner
<1>1. PoolIInv => SoleOwner
  BY WarmupAssumption DEF PoolIInv, PoolInv, OwnInv, OneHolder, OwnersDisjoint, HeldBundle,
                          EntryKnowsId, SoleOwner, Gone
<1> QED BY <1>1, IInvAlways, PTL

\* The expiry and health tasks of an entry live exactly as long as the entry.
THEOREM TasksFollowEntriesHolds == PoolSpec => []TasksFollowEntries
<1>1. PoolIInv => TasksFollowEntries
  BY DEF PoolIInv, PoolInv
<1> QED BY <1>1, IInvAlways, PTL

\* An alias never outlives the entry it leads to.
THEOREM AliasesResolveHolds == PoolSpec => []AliasesResolve
<1>1. PoolIInv => AliasesResolve
  BY DEF PoolIInv, PoolInv, AliasIsNamed, AliasesResolve
<1> QED BY <1>1, IInvAlways, PTL

(***************************************************************************)
(* The inductive invariant of RecordIsFinal.                                *)
(***************************************************************************)

\* Until the providers are up there is no loop, and nobody shuts down.
Starting ==
    main \in {"connecting", "failed"} =>
        state = "starting" /\ shut.by = "none" /\ \A l \in Loops : pc[l] = "none"

Active == shut.step \notin {"none", "done", "aborted"}

\* Who runs shutdown is in it, or has left it for good; the server alone aborts it.
Runner ==
    /\ shut.by = "none" <=> shut.step = "none"
    /\ shut.by \in {"none", "session", "output", "interruption_manager", "playback"}
    /\ shut.by = "session" => main \in {"shutting", "ended"}
    /\ main = "shutting" => shut.by = "session"
    /\ shut.by \in Loops =>
         pc[shut.by] \in {"shutting", "hung_up", "cancelling", "done", "failed"}
    /\ \A l \in Loops : pc[l] \in {"hanging_up", "hung_up"} => l = "playback"
    /\ main = "waiting" => shut.step # "aborted" /\ \A l \in Loops : pc[l] # "none"
    /\ shut.step \in {"storing", "stored", "done"} => state = "closed"

\* As long as the server does not cancel the session, one task at most is about
\* to store the record, and none once it is stored.
Saving ==
    ~cancelled =>
        /\ saved = 1 => state = "closed" /\ main # "storing" /\ shut.step # "storing"
        /\ main = "storing" => state = "closed" /\ shut.step # "storing"
        /\ main \notin {"shutting", "cancelling"}

IInv == TypeOK /\ Starting /\ Runner /\ Saving /\ RecordIsFinal

\* The loops an instance may not leave out.
LEMMA Modelled == {"receive_audio", "stt_sender", "stt_receiver", "turn_manager",
                   "interruption_manager", "llm", "tts", "output", "playback"} \subseteq Loops
  BY LifecycleAssumption DEF Loops

LEMMA ConstantsOK ==
  /\ "none" \notin Loops /\ "session" \notin Loops
  /\ \A p \in Providers : Stopper[p] \in Loops /\ Readers[p] \subseteq Loops
  /\ \A l \in Loops : Consumers(l) \subseteq Loops
  /\ QueueLoops \subseteq Loops
  BY Modelled DEF Loops, Providers, Stopper, Readers, Consumers, QueueLoops

-----------------------------------------------------------------------------
LEMMA InitOK == Init => IInv
  <1> SUFFICES ASSUME Init PROVE IInv
    OBVIOUS
  <1>1. prov \in [Providers -> NotStopped \cup {"stopping", "stopped", "abandoned"}]
    BY DEF Init, NotStopped
  <1>2. shut.by = "none" /\ shut.step = "none" /\ saved = 0 /\ pc \in [Loops -> {"none"}]
    BY DEF Init
  <1>3. shut \in [by : {"none"}, step : {"none"}]
    BY DEF Init
  <1>4. pc \in [Loops -> {"none", "running", "responding", "stopping", "hanging_up", "hung_up",
                          "shutting", "cancelling", "done", "failed"}]
    BY <1>2
  <1>5. shut \in [by : Loops \cup {"none", "session"},
                 step : {"none", "saving", "tts", "stt", "telephony", "gathering", "storing",
                         "stored", "done", "aborted"}]
    BY <1>3
  <1>6. /\ state = "starting" /\ main = "connecting" /\ cancelled = FALSE /\ eos \subseteq Loops
        /\ saved \in Nat
    BY DEF Init
  <1>7. TypeOK
    BY <1>1, <1>2, <1>4, <1>5, <1>6 DEF TypeOK
  <1> QED
    BY <1>2, <1>7, ConstantsOK DEF Init, IInv, Starting, Runner, Saving, RecordIsFinal

\* The steps of run().
LEMMA RunOK == ASSUME IInv, Started \/ StartFails \/ LoopsOver \/ Stored PROVE IInv'
  <1> USE ConstantsOK
  <1>1. CASE Started
    BY <1>1 DEF IInv, TypeOK, Starting, Runner, Saving, RecordIsFinal, Started, NotStopped,
                Providers, Over
  <1>2. CASE StartFails
    <2>1. prov' \in [Providers -> NotStopped \cup {"stopping", "stopped", "abandoned"}]
      BY <1>2 DEF IInv, TypeOK, StartFails, NotStopped
    <2> QED
      BY <1>2, <2>1 DEF IInv, TypeOK, Starting, Runner, Saving, RecordIsFinal, StartFails, Over
  <1>3. CASE LoopsOver
    <2>1. TypeOK'
      BY <1>3 DEF IInv, TypeOK, LoopsOver
    <2>2. Starting' /\ Runner' /\ RecordIsFinal'
      BY <1>3 DEF IInv, TypeOK, Starting, Runner, RecordIsFinal, LoopsOver, Over
    <2>3. Saving'
      BY <1>3 DEF IInv, TypeOK, Runner, Saving, LoopsOver
    <2> QED
      BY <2>1, <2>2, <2>3 DEF IInv
  <1>4. CASE Stored
    <2>1. saved' = saved + 1 /\ saved \in Nat /\ main = "storing" /\ main' = "ended"
      BY <1>4 DEF IInv, TypeOK, Stored
    <2>2. ~cancelled => saved = 0
      BY <2>1 DEF IInv, Saving, RecordIsFinal
    <2> QED
      BY <1>4, <2>1, <2>2 DEF IInv, TypeOK, Starting, Runner, Saving, RecordIsFinal, Stored,
         Over
  <1> QED
    BY <1>1, <1>2, <1>3, <1>4

\* A step that only moves a loop which does not run shutdown, between states in
\* which it is not over, or ends it.
LEMMA MovesLoop ==
  ASSUME IInv, NEW l \in Loops, l # shut.by \/ pc[l] = "hung_up", ~Over(l), pc[l] # "none",
         NEW there \in {"running", "responding", "stopping", "hanging_up", "done", "failed"},
         l = shut.by => there \in {"done", "failed"}, there = "hanging_up" => l = "playback",
         pc' = [pc EXCEPT ![l] = there],
         state' \in {state, "open"}, state = "closed" => state' = state \/ l # shut.by,
         UNCHANGED <<main, cancelled, shut, saved>>,
         prov' \in [Providers -> NotStopped \cup {"stopping", "stopped", "abandoned"}],
         eos' \subseteq Loops
  PROVE  IInv'
  <1>1. state' = state \/ (state # "closed" /\ state' = "open")
    BY DEF IInv, RecordIsFinal, TypeOK
  <1>2. TypeOK'
    BY ConstantsOK, <1>1 DEF IInv, TypeOK
  <1>3. Starting' /\ Runner'
    BY ConstantsOK, <1>1 DEF IInv, TypeOK, Starting, Runner
  <1>4. Saving' /\ RecordIsFinal'
    BY ConstantsOK, <1>1 DEF IInv, TypeOK, Saving, RecordIsFinal, Over, Runner, Starting
  <1> QED
    BY <1>2, <1>3, <1>4 DEF IInv

\* What the loops do on their own.
LEMMA LoopsOK ==
  ASSUME IInv, NEW l \in Loops, TakeEos(l) \/ StopReturns(l) \/ LoopFails(l) \/ SetState(l)
  PROVE  IInv'
  <1> USE ConstantsOK
  <1>0. /\ pc \in [Loops -> {"none", "running", "responding", "stopping", "hanging_up", "hung_up",
                           "shutting", "cancelling", "done", "failed"}]
        /\ eos \subseteq Loops
        /\ l = shut.by => pc[l] \in {"shutting", "hung_up", "cancelling", "done", "failed"}
        /\ prov \in [Providers -> NotStopped \cup {"stopping", "stopped", "abandoned"}]
    BY DEF IInv, TypeOK, Runner
  <1>1. CASE TakeEos(l)
    <2>1. CASE \E p \in Providers : Stopper[p] = l /\ (p = "telephony" \/ prov[p] \in NotStopped)
      <3>1. PICK q \in Providers :
               /\ Stopper[q] = l
               /\ prov' = [prov EXCEPT ![q] = IF q = "telephony" THEN @ ELSE "stopping"]
        BY <1>1, <2>1 DEF TakeEos
      <3>2. prov' \in [Providers -> NotStopped \cup {"stopping", "stopped", "abandoned"}]
        BY <1>0, <3>1
      <3>3. l # "playback"
        BY <3>1 DEF Providers, Stopper
      <3>4. l # shut.by
        BY <1>0, <1>1, <3>3 DEF IInv, Runner, TakeEos
      <3> QED
        BY <1>0, <1>1, <2>1, <3>2, <3>4, MovesLoop DEF TakeEos, Over
    <2>2. CASE ~\E p \in Providers : Stopper[p] = l /\ (p = "telephony" \/ prov[p] \in NotStopped)
      BY <1>0, <1>1, <2>2, MovesLoop DEF TakeEos, Over
    <2> QED
      BY <2>1, <2>2
  <1>2. CASE StopReturns(l)
    <2>1. PICK p \in Providers : /\ prov' = [prov EXCEPT ![p] = "stopped"]
                                 /\ eos' = eos \cup Readers[p] \cup Consumers(l)
      BY <1>2 DEF StopReturns
    <2>2. prov' \in [Providers -> NotStopped \cup {"stopping", "stopped", "abandoned"}]
      BY <1>0, <2>1
    <2>3. eos' \subseteq Loops
      BY <1>0, <2>1
    <2> QED
      BY <1>0, <1>2, <2>2, <2>3, MovesLoop DEF StopReturns, Over
  <1>3. CASE LoopFails(l)
    BY <1>0, <1>3, MovesLoop DEF LoopFails, Working, Over
  <1>4. CASE SetState(l)
    <2>1. pc' = [pc EXCEPT ![l] = "running"]
      BY <1>0, <1>4 DEF SetState
    <2> QED
      BY <1>0, <1>4, <2>1, MovesLoop DEF SetState, Over
  <1> QED
    BY <1>1, <1>2, <1>3, <1>4
LEMMA ResponseOK == ASSUME IInv, BeginResponse \/ EndResponse \/ RemoteEnds PROVE IInv'
  <1> USE ConstantsOK, Modelled
  <1>0. /\ pc \in [Loops -> {"none", "running", "responding", "stopping", "hanging_up", "hung_up",
                           "shutting", "cancelling", "done", "failed"}]
        /\ eos \subseteq Loops /\ shut.by # "llm"
        /\ prov \in [Providers -> NotStopped \cup {"stopping", "stopped", "abandoned"}]
    BY DEF IInv, TypeOK, Runner
  <1>1. CASE BeginResponse
    BY <1>0, <1>1, MovesLoop DEF BeginResponse, Over
  <1>2. CASE EndResponse
    BY <1>0, <1>2, MovesLoop DEF EndResponse, Over
  <1>3. CASE RemoteEnds
    <2>1. prov' \in [Providers -> NotStopped \cup {"stopping", "stopped", "abandoned"}]
      BY <1>0, <1>3 DEF RemoteEnds, NotStopped
    <2>2. eos' \subseteq Loops
      BY <1>0, <1>3 DEF RemoteEnds, Providers
    <2>3. TypeOK'
      BY <2>1, <2>2, <1>3 DEF IInv, TypeOK, RemoteEnds
    <2> QED
      BY <1>3, <2>3 DEF IInv, Starting, Runner, Saving, RecordIsFinal, RemoteEnds, Over
  <1> QED
    BY <1>1, <1>2, <1>3

\* A loop calls shutdown; whoever finds it running goes on.
LEMMA LoopShutsDown ==
  ASSUME IInv, NEW l \in {"output", "interruption_manager", "playback"},
         NEW there \in {"done", "hung_up"}, there = "hung_up" => l = "playback",
         pc[l] \in {"running", "hanging_up"}, Shutdown(l, there), UNCHANGED <<cancelled, saved>>,
         prov' \in [Providers -> NotStopped \cup {"stopping", "stopped", "abandoned"}],
         eos' \subseteq Loops
  PROVE  IInv'
  <1> USE ConstantsOK, Modelled
  <1>0. l \in Loops /\ main' = main
    BY DEF Shutdown
  <1>1. CASE shut.by = "none"
    <2>1. /\ shut' = [by |-> l, step |-> "saving"] /\ state' = "closing"
          /\ pc' = [pc EXCEPT ![l] = "shutting"]
      BY <1>0, <1>1 DEF Shutdown
    <2>2. state # "closed" /\ main \notin {"connecting", "failed"}
      BY <1>0, <1>1 DEF IInv, RecordIsFinal, Over, Starting
    <2>3. TypeOK'
      BY <1>0, <2>1 DEF IInv, TypeOK
    <2>4. Starting' /\ Runner' /\ RecordIsFinal'
      BY <1>0, <1>1, <2>1, <2>2 DEF IInv, TypeOK, Starting, Runner, RecordIsFinal
    <2>5. Saving'
      BY <1>0, <1>1, <2>1, <2>2 DEF IInv, Saving
    <2> QED
      BY <2>3, <2>4, <2>5 DEF IInv
  <1>2. CASE shut.by # "none"
    <2>1. shut' = shut /\ state' = state /\ pc' = [pc EXCEPT ![l] = there]
      BY <1>0, <1>2 DEF Shutdown
    <2>2. l # shut.by
      BY <1>0 DEF IInv, Runner
    <2>3. TypeOK'
      BY <1>0, <2>1, <2>2 DEF IInv, TypeOK
    <2>4. Starting' /\ Runner'
      BY <1>0, <2>1, <2>2 DEF IInv, TypeOK, Starting, Runner
    <2>5. Saving' /\ RecordIsFinal'
      BY <1>0, <2>1, <2>2 DEF IInv, TypeOK, Saving, RecordIsFinal, Over
    <2> QED
      BY <2>3, <2>4, <2>5 DEF IInv
  <1> QED
    BY <1>1, <1>2

LEMMA EndsOK == ASSUME IInv, (\E l \in Loops : SendFails(l)) \/ RequestHangup \/ HangUp PROVE IInv'
  <1> USE ConstantsOK, Modelled
  <1>0. /\ pc \in [Loops -> {"none", "running", "responding", "stopping", "hanging_up", "hung_up",
                           "shutting", "cancelling", "done", "failed"}]
        /\ eos \subseteq Loops
        /\ prov \in [Providers -> NotStopped \cup {"stopping", "stopped", "abandoned"}]
    BY DEF IInv, TypeOK
  <1>1. CASE \E l \in Loops : SendFails(l)
    BY <1>0, <1>1, LoopShutsDown DEF SendFails
  <1>2. CASE HangUp
    <2>1. prov' \in [Providers -> NotStopped \cup {"stopping", "stopped", "abandoned"}]
      BY <1>0, <1>2 DEF HangUp
    <2>2. eos' \subseteq Loops
      BY <1>0, <1>2 DEF HangUp, Providers
    <2> QED
      BY <1>0, <1>2, <2>1, <2>2, LoopShutsDown DEF HangUp
  <1>3. CASE RequestHangup
    <2>1. shut.by \notin {"playback", "llm"}
      BY <1>3 DEF IInv, Runner, RequestHangup
    <2>2. /\ pc' \in [Loops -> {"none", "running", "responding", "stopping", "hanging_up", "hung_up",
                           "shutting", "cancelling", "done", "failed"}]
          /\ \A l \in Loops \ {"playback"} : pc'[l] = pc[l] \/ (l = "llm" /\ pc[l] = "responding" /\ pc'[l] = "running")
          /\ pc'["playback"] = "hanging_up"
      BY <1>0, <1>3 DEF RequestHangup
    <2>3. pc["playback"] = "running" /\ UNCHANGED <<state, main, cancelled, eos, prov, shut, saved>>
      BY <1>3 DEF RequestHangup
    <2>4. TypeOK'
      BY <2>1, <2>2, <2>3 DEF IInv, TypeOK
    <2>5. Starting' /\ Runner' /\ Saving'
      BY <2>1, <2>2, <2>3 DEF IInv, TypeOK, Starting, Runner, Saving
    <2>6. RecordIsFinal'
      BY <2>1, <2>2, <2>3 DEF IInv, RecordIsFinal, Over
    <2> QED
      BY <2>4, <2>5, <2>6 DEF IInv
  <1> QED
    BY <1>1, <1>2, <1>3

-----------------------------------------------------------------------------
(* shutdown                                                                  *)

\* A step of shutdown that moves no loop and does not close the call.
LEMMA ShutdownGoesOn ==
  ASSUME IInv, Active, NEW there \in {"tts", "stt", "telephony"},
         shut' = [shut EXCEPT !.step = there], shut.step \in {"saving", "tts", "stt"},
         UNCHANGED <<state, main, cancelled, pc, saved>>,
         prov' \in [Providers -> NotStopped \cup {"stopping", "stopped", "abandoned"}],
         eos' \subseteq Loops
  PROVE  IInv'
  <1>1. TypeOK'
    BY ConstantsOK DEF IInv, TypeOK, Active
  <1>2. shut'.by = shut.by /\ shut'.step = there
    BY DEF IInv, TypeOK
  <1> QED
    BY <1>1, <1>2 DEF IInv, Starting, Runner, Saving, RecordIsFinal, Over, Active

LEMMA StopsOK == ASSUME IInv, TellQueues \/ \E p \in Providers : StopNext(p) PROVE IInv'
  <1>0. /\ eos \subseteq Loops
        /\ prov \in [Providers -> NotStopped \cup {"stopping", "stopped", "abandoned"}]
    BY DEF IInv, TypeOK
  <1>1. CASE TellQueues
    <2>1. prov' \in [Providers -> NotStopped \cup {"stopping", "stopped", "abandoned"}]
      BY <1>0, <1>1 DEF TellQueues, BeginStop
    <2> QED
      BY <1>0, <1>1, <2>1, ConstantsOK, ShutdownGoesOn DEF TellQueues, Active
  <1>2. CASE \E p \in Providers : StopNext(p)
    <2>1. PICK p \in Providers : StopNext(p)
      BY <1>2
    <2>2. EndStop(p) \in [Providers -> NotStopped \cup {"stopping", "stopped", "abandoned"}]
      BY <1>0 DEF EndStop
    <2>3. prov' \in [Providers -> NotStopped \cup {"stopping", "stopped", "abandoned"}]
      BY <2>1, <2>2 DEF StopNext
    <2>4. eos' \subseteq Loops
      BY <1>0, <2>1, ConstantsOK DEF StopNext
    <2>5. After(p) \in {"stt", "telephony"} /\ p \in {"stt", "tts"}
      BY <2>1 DEF StopNext, After, Providers
    <2> QED
      BY <2>1, <2>3, <2>4, <2>5, ShutdownGoesOn DEF StopNext, Active
  <1> QED
    BY <1>1, <1>2

LEMMA CancelLoopsOK == ASSUME IInv, CancelLoops PROVE IInv'
  <1> USE ConstantsOK
  <1> DEFINE S == {l \in Loops : ~Over(l) /\ l # shut.by /\ pc[l] # "none"}
  <1>1. PICK deaf \in SUBSET {l \in S : InStop(l)} :
          /\ pc' = [l \in Loops |-> IF l \in S \ deaf THEN "cancelling" ELSE pc[l]]
          /\ prov' = [Abandon(S \ deaf) EXCEPT !["telephony"] = "stopped"]
    BY DEF CancelLoops
  <1>2. /\ shut.step = "telephony" /\ shut' = [shut EXCEPT !.step = "gathering"]
        /\ eos' = eos \cup Readers["telephony"] /\ UNCHANGED <<state, main, cancelled, saved>>
    BY DEF CancelLoops
  <1>3. \A l \in Loops : \/ pc'[l] = pc[l]
                         \/ pc'[l] = "cancelling" /\ ~Over(l) /\ l # shut.by /\ pc[l] # "none"
    BY <1>1
  <1>4. pc' \in [Loops -> {"none", "running", "responding", "stopping", "hanging_up", "hung_up",
                           "shutting", "cancelling", "done", "failed"}]
    BY <1>1 DEF IInv, TypeOK
  <1>5. prov' \in [Providers -> NotStopped \cup {"stopping", "stopped", "abandoned"}]
    BY <1>1 DEF IInv, TypeOK, Abandon
  <1>6. shut'.by = shut.by /\ shut'.step = "gathering"
    BY <1>2 DEF IInv, TypeOK
  <1>7. eos' \subseteq Loops
    BY <1>2 DEF IInv, TypeOK, Providers
  <1>8. TypeOK'
    BY <1>2, <1>3, <1>4, <1>5, <1>6, <1>7 DEF IInv, TypeOK
  <1>9. Starting' /\ Runner' /\ Saving'
    BY <1>2, <1>3, <1>6 DEF IInv, TypeOK, Starting, Runner, Saving
  <1>10. RecordIsFinal'
    BY <1>2, <1>3, <1>6 DEF IInv, RecordIsFinal, Over
  <1> QED
    BY <1>8, <1>9, <1>10 DEF IInv

LEMMA FinishOK ==
  ASSUME IInv, (\E l \in Loops : CancelArrives(l)) \/ Finalize \/ ShutdownDone PROVE IInv'
  <1> USE ConstantsOK
  <1>1. CASE \E l \in Loops : CancelArrives(l)
    BY <1>1 DEF IInv, TypeOK, Starting, Runner, Saving, RecordIsFinal, CancelArrives, Over
  <1>2. CASE Finalize
    <2>1. shut' \in {[shut EXCEPT !.step = "stored"], [shut EXCEPT !.step = "storing"]}
      BY <1>2 DEF Finalize
    <2>2. /\ shut'.by = shut.by /\ shut.by # "none" /\ state' = "closed"
          /\ \/ shut'.step = "stored" /\ state = "closed"
             \/ shut'.step = "storing" /\ state # "closed"
      BY <1>2, <2>1 DEF IInv, TypeOK, Runner, Finalize
    <2>3. TypeOK'
      BY <1>2, <2>1, <2>2 DEF IInv, TypeOK, Finalize
    <2>4. Starting' /\ Runner' /\ Saving'
      BY <1>2, <2>2 DEF IInv, TypeOK, Starting, Runner, Saving, Finalize
    <2>5. RecordIsFinal'
      BY <1>2, <2>2 DEF IInv, RecordIsFinal, Finalize, Over
    <2> QED
      BY <2>3, <2>4, <2>5 DEF IInv
  <1>3. CASE ShutdownDone
    <2>1. /\ shut'.by = shut.by /\ shut'.step = "done" /\ shut.by # "none" /\ state = "closed"
          /\ saved \in Nat /\ saved' \in {saved, saved + 1} /\ UNCHANGED <<state, cancelled, eos, prov>>
          /\ shut' = [shut EXCEPT !.step = "done"]
      BY <1>3 DEF IInv, TypeOK, Runner, ShutdownDone
    <2>2. \/ /\ shut.by = "session" /\ main' = "ended" /\ pc' = pc
          \/ /\ shut.by \in Loops /\ main' = main
             /\ pc' = [pc EXCEPT ![shut.by] = IF shut.by = "playback" THEN "hung_up" ELSE "done"]
      BY <1>3, <2>1 DEF IInv, TypeOK, Runner, ShutdownDone
    <2>3. TypeOK'
      BY <2>1, <2>2 DEF IInv, TypeOK
    <2>4. Starting' /\ Runner'
      BY <2>1, <2>2 DEF IInv, TypeOK, Starting, Runner
    <2>5. Saving' /\ RecordIsFinal'
      <3>1. ~cancelled => (shut.step = "storing" => saved = 0) /\ saved <= 1
        BY <2>1 DEF IInv, Saving, RecordIsFinal
      <3>2. shut.step = "storing" \/ saved' = saved
        BY <1>3, <2>1 DEF ShutdownDone
      <3>3. ~cancelled => saved' <= 1 /\ (main = "storing" => shut.step # "storing")
        BY <2>1, <3>1, <3>2 DEF IInv, Saving
      <3>4. Saving'
        BY <1>3, <2>1, <2>2, <3>1, <3>2, <3>3 DEF IInv, Saving
      <3>5. RecordIsFinal'
        BY <2>1, <2>2, <3>3 DEF IInv, TypeOK, RecordIsFinal, Over
      <3> QED
        BY <3>4, <3>5
    <2> QED
      BY <2>3, <2>4, <2>5 DEF IInv
  <1> QED
    BY <1>1, <1>2, <1>3

-----------------------------------------------------------------------------
(* The server cancels the session's task                                     *)

\* The session's task calls shutdown, or finds it called.
LEMMA SessionShutsDown ==
  ASSUME IInv, main \in {"connecting", "storing", "cancelling"}, Shutdown("session", "ended"),
         cancelled', saved' \in Nat, UNCHANGED <<eos, prov>>
  PROVE  IInv'
  <1> USE ConstantsOK
  <1>1. pc' = pc /\ cancelled' \in BOOLEAN
    BY DEF Shutdown, IInv, TypeOK
  <1>2. CASE shut.by = "none"
    <2>1. shut' = [by |-> "session", step |-> "saving"] /\ state' = "closing" /\ main' = "shutting"
      BY <1>2 DEF Shutdown
    <2>2. TypeOK'
      BY <1>1, <2>1 DEF IInv, TypeOK
    <2> QED
      BY <1>1, <2>1, <2>2 DEF IInv, Starting, Runner, Saving, RecordIsFinal
  <1>3. CASE shut.by # "none"
    <2>1. shut' = shut /\ state' = state /\ main' = "ended"
      BY <1>3 DEF Shutdown
    <2>2. TypeOK'
      BY <1>1, <1>3, <2>1 DEF IInv, TypeOK, Runner
    <2> QED
      BY <1>1, <1>3, <2>1, <2>2 DEF IInv, Starting, Runner, Saving, RecordIsFinal, Over
  <1> QED
    BY <1>2, <1>3

LEMMA ServerCancelOK == ASSUME IInv, ServerCancel PROVE IInv'
  <1> USE ConstantsOK
  <1>0. cancelled' = TRUE /\ saved' \in Nat /\ eos' = eos
    BY DEF IInv, TypeOK, ServerCancel
  <1>1. CASE main \in {"connecting", "storing"}
    BY <1>0, <1>1, SessionShutsDown DEF ServerCancel
  <1>2. CASE main = "waiting"
    <2>1. PICK deaf \in SUBSET {l \in Loops : ~Over(l) /\ InStop(l)} :
             LET S == {l \in Loops : ~Over(l)} \ deaf IN
             /\ pc' = [l \in Loops |->
                          IF l \notin S THEN pc[l]
                          ELSE IF pc[l] = "responding" /\ shut.by = "none" THEN "running"
                          ELSE "cancelling"]
             /\ prov' = Abandon(S)
             /\ shut' = IF shut.by \notin S \/ shut.step = "done" THEN shut
                        ELSE [shut EXCEPT !.step = "aborted"]
      BY <1>2 DEF ServerCancel
    <2> DEFINE S == {l \in Loops : ~Over(l)} \ deaf
    <2>2. main' = "cancelling" /\ state' = state
      BY <1>2 DEF ServerCancel
    <2>3. \A l \in Loops :
             IF l \notin S THEN pc'[l] = pc[l]
             ELSE ~Over(l) /\ pc'[l] = (IF pc[l] = "responding" /\ shut.by = "none" THEN "running"
                                       ELSE "cancelling")
      BY <2>1
    <2>4. pc' \in [Loops -> {"none", "running", "responding", "stopping", "hanging_up", "hung_up",
                            "shutting", "cancelling", "done", "failed"}]
      BY <2>1 DEF IInv, TypeOK
    <2>5. prov' \in [Providers -> NotStopped \cup {"stopping", "stopped", "abandoned"}]
      BY <2>1 DEF IInv, TypeOK, Abandon
    <2>6. /\ shut'.by = shut.by
          /\ \/ shut' = shut /\ (shut.by \notin S \/ shut.step = "done")
             \/ shut'.step = "aborted" /\ shut.by \in S /\ shut' = [shut EXCEPT !.step = "aborted"]
      BY <2>1 DEF IInv, TypeOK
    <2>7. TypeOK'
      BY <1>0, <1>2, <2>2, <2>3, <2>4, <2>5, <2>6 DEF IInv, TypeOK, Runner
    <2>8. Starting' /\ Runner' /\ Saving'
      BY <1>0, <1>2, <2>2, <2>3, <2>6 DEF IInv, TypeOK, Starting, Runner, Saving
    <2>9. RecordIsFinal'
      BY <1>0, <1>2, <2>2, <2>3, <2>6 DEF IInv, RecordIsFinal, Runner, Over
    <2> QED
      BY <2>7, <2>8, <2>9 DEF IInv
  <1> QED
    BY <1>1, <1>2 DEF ServerCancel

LEMMA CancelledMainOK == ASSUME IInv, CancelledMain PROVE IInv'
  <1>1. cancelled
    BY DEF IInv, TypeOK, Saving, CancelledMain
  <1> QED
    BY <1>1, SessionShutsDown DEF IInv, TypeOK, CancelledMain

-----------------------------------------------------------------------------
LEMMA StepOK == ASSUME IInv, Next PROVE IInv'
  BY RunOK, LoopsOK, ResponseOK, EndsOK, StopsOK, CancelLoopsOK, FinishOK, ServerCancelOK,
     CancelledMainOK DEF Next, LoopStep

LEMMA StutterOK == ASSUME IInv, UNCHANGED vars PROVE IInv'
  BY DEF IInv, TypeOK, Starting, Runner, Saving, RecordIsFinal, Over, vars

LEMMA IInvHolds == Spec => []IInv
  BY InitOK, StepOK, StutterOK, PTL DEF Spec

\* The variables have their types, and the task that runs shutdown is in it.
THEOREM TypesHold == Spec => []TypeOK
  BY IInvHolds, PTL DEF IInv

\* The record of a call is stored once, unless the server cancels the session, and
\* no loop can change what it says: whichever loops may fail, and whoever ends the
\* call, the loops that are over, one that hangs up or finds the stream dead, or
\* the session's own task.
THEOREM RecordIsFinalHolds == Spec => []RecordIsFinal
  BY IInvHolds, PTL DEF IInv

-----------------------------------------------------------------------------
(* Providers are stopped.                                                    *)

\* While nobody shuts down, the loop that stops a provider is not over before it has
\* or it fails, and no loop is being cancelled; a shutdown stops one after the other;
\* and a call that is closed has only those left to stop whose loops have failed.
Stops ==
    /\ shut.by = "none" /\ main = "waiting" =>
          /\ \A p \in Providers : Over(Stopper[p]) => Begun(p) \/ pc[Stopper[p]] = "failed"
          /\ \A l \in Loops : pc[l] # "cancelling"
    /\ shut.step \in {"tts", "stt", "telephony", "gathering"} => Begun("tts")
    /\ shut.step \in {"stt", "telephony", "gathering"} => Begun("stt")
    /\ shut.step = "gathering" => Begun("telephony")
    /\ ClosedStopsProviders

\* A provider only goes on towards its stop.
Onward == \A p \in Providers : \/ prov'[p] = prov[p]
                               \/ prov'[p] = "stopped"
                               \/ p # "telephony" /\ prov'[p] \in {"stopping", "abandoned"}
                               \/ prov[p] = "up"

LEMMA OnwardOK ==
  ASSUME IInv, Next, ~Started, ~StartFails
  PROVE  Onward
  <1> USE DEF Onward
  <1>0. prov \in [Providers -> NotStopped \cup {"stopping", "stopped", "abandoned"}]
    BY DEF IInv, TypeOK
  <1>1. CASE prov' = prov
    BY <1>1
  <1>2. CASE \E l \in Loops : TakeEos(l)
    <2>1. PICK l \in Loops : TakeEos(l)
      BY <1>2
    <2>2. prov' = prov \/ \E q \in Providers :
                             prov' = [prov EXCEPT ![q] = IF q = "telephony" THEN @ ELSE "stopping"]
      <3>1. CASE \E p \in Providers : Stopper[p] = l /\ (p = "telephony" \/ prov[p] \in NotStopped)
        <4>1. PICK q \in Providers : prov' = [prov EXCEPT ![q] = IF q = "telephony" THEN @ ELSE "stopping"]
          BY <2>1, <3>1 DEF TakeEos
        <4> QED
          BY <4>1
      <3>2. CASE ~\E p \in Providers : Stopper[p] = l /\ (p = "telephony" \/ prov[p] \in NotStopped)
        BY <2>1, <3>2 DEF TakeEos
      <3> QED
        BY <3>1, <3>2
    <2> QED
      BY <1>0, <2>2
  <1>3. CASE \E l \in Loops : StopReturns(l)
    BY <1>0, <1>3 DEF StopReturns
  <1>4. CASE RemoteEnds \/ HangUp
    BY <1>0, <1>4 DEF RemoteEnds, HangUp
  <1>5. CASE TellQueues
    BY <1>0, <1>5 DEF TellQueues, BeginStop
  <1>7. CASE \E p \in Providers : StopNext(p)
    <2>1. PICK p \in Providers : StopNext(p)
      BY <1>7
    <2>2. /\ EndStop(p) \in [Providers -> NotStopped \cup {"stopping", "stopped", "abandoned"}]
          /\ \A q \in Providers : EndStop(p)[q] = prov[q] \/ EndStop(p)[q] = "stopped"
      BY <1>0 DEF EndStop
    <2>3. \A q \in Providers : \/ prov'[q] = EndStop(p)[q]
                               \/ q # "telephony" /\ prov'[q] = "stopping"
      BY <2>1, <2>2 DEF StopNext
    <2> QED
      BY <2>2, <2>3
  <1>6. CASE CancelLoops \/ ServerCancel
    BY <1>0, <1>6 DEF CancelLoops, ServerCancel, Abandon
  <1> QED
    BY <1>1, <1>2, <1>3, <1>4, <1>5, <1>6, <1>7
       DEF Next, LoopStep, LoopsOver, Stored, LoopFails, SetState, SendFails, CancelArrives,
           BeginResponse, EndResponse, RequestHangup, Finalize, ShutdownDone, CancelledMain

LEMMA BegunStays == ASSUME Onward, NEW p \in Providers, Begun(p) PROVE Begun(p)'
  BY DEF Onward, Begun, NotStopped

\* A loop that has failed stays as it is.
LEMMA FailedStays ==
  ASSUME IInv, Next, ~Started
  PROVE  \A l \in Loops : pc[l] = "failed" => pc'[l] = "failed"
  <1> USE ConstantsOK
  <1>0. /\ pc \in [Loops -> {"none", "running", "responding", "stopping", "hanging_up", "hung_up",
                           "shutting", "cancelling", "done", "failed"}]
        /\ shut.step \notin {"none", "done", "aborted"} /\ shut.by \in Loops
             => pc[shut.by] = "shutting"
    BY DEF IInv, TypeOK
  <1>1. CASE \E l \in Loops : LoopStep(l)
    BY <1>0, <1>1 DEF LoopStep, TakeEos, StopReturns, LoopFails, SetState, SendFails,
       CancelArrives,
                      Shutdown, Working
  <1>2. CASE BeginResponse \/ EndResponse \/ RequestHangup \/ HangUp
    BY <1>0, <1>2, Modelled DEF BeginResponse, EndResponse, RequestHangup, HangUp, Shutdown
  <1>3. CASE CancelLoops
    BY <1>0, <1>3 DEF CancelLoops, Over
  <1>4. CASE ShutdownDone
    BY <1>0, <1>4 DEF ShutdownDone
  <1>5. CASE ServerCancel
    BY <1>0, <1>5 DEF ServerCancel, Shutdown, Over
  <1>6. CASE pc' = pc
    BY <1>6
  <1>7. CASE CancelledMain
    BY <1>0, <1>7 DEF CancelledMain, Shutdown
  <1> QED
    BY <1>1, <1>2, <1>3, <1>4, <1>5, <1>6, <1>7
       DEF Next, StartFails, LoopsOver, Stored, RemoteEnds, TellQueues, StopNext, Finalize

LEMMA StopsStep == ASSUME IInv, Stops, Next PROVE Stops'
  <1> USE ConstantsOK DEF ClosedStopsProviders
  <1>0. /\ pc \in [Loops -> {"none", "running", "responding", "stopping", "hanging_up", "hung_up",
                           "shutting", "cancelling", "done", "failed"}]
        /\ prov \in [Providers -> NotStopped \cup {"stopping", "stopped", "abandoned"}]
        /\ {"stt", "tts", "telephony"} = Providers
        /\ shut \in [by : Loops \cup {"none", "session"},
                     step : {"none", "saving", "tts", "stt", "telephony", "gathering", "storing",
                             "stored", "done", "aborted"}]
    BY DEF IInv, TypeOK, Providers
  <1>1. CASE Started
    BY <1>0, <1>1 DEF Started, Stops, Over, IInv, Starting, Runner
  <1>2. CASE StartFails
    BY <1>0, <1>2 DEF StartFails, Stops, IInv, Starting, Runner
  <1>3. CASE LoopsOver
    <2>1. prov' = prov /\ shut' = shut /\ main' # "waiting"
      BY <1>3 DEF LoopsOver
    <2>2. state # "closed" => shut.by = "none" /\ main = "waiting"
      BY <1>0, <1>3 DEF LoopsOver, IInv, TypeOK, Runner, Over
    <2>3. /\ \A p \in Providers : Begun(p) \/ (pc[Stopper[p]] = "failed" /\ shut.by = "none")
          /\ pc' = pc
      BY <1>0, <1>3, <2>2 DEF Stops, LoopsOver
    <2> QED
      BY <2>1, <2>3, <1>0 DEF Stops, Begun
  <1>4. CASE ~Started /\ ~StartFails /\ ~LoopsOver
    <2>1. /\ \A p \in Providers : Begun(p) => Begun(p)'
          /\ \A p \in Providers : pc[Stopper[p]] = "failed" => pc'[Stopper[p]] = "failed"
      BY <1>0, <1>4, OnwardOK, BegunStays, FailedStays DEF Stopper
    <2>2. CASE TellQueues
      <3>1. Begun("tts")'
        BY <1>0, <2>2 DEF TellQueues, BeginStop, Begun, NotStopped
      <3> QED
        BY <1>0, <2>1, <2>2, <3>1 DEF TellQueues, Stops, IInv, Runner
    <2>3. CASE \E p \in Providers : StopNext(p)
      <3>1. PICK p \in {"stt", "tts"} : StopNext(p)
        BY <1>0, <2>3 DEF StopNext
      <3>2. p = "tts" => Begun("stt")'
        BY <1>0, <3>1 DEF StopNext, EndStop, After, Begun, NotStopped
      <3> QED
        BY <1>0, <2>1, <3>1, <3>2 DEF StopNext, After, Stops, IInv, Runner
    <2>4. CASE CancelLoops
      <3>1. Begun("telephony")'
        BY <1>0, <2>4 DEF CancelLoops, Abandon, Begun
      <3> QED
        BY <1>0, <2>1, <2>4, <3>1 DEF CancelLoops, Stops, IInv, Runner
    <2>5. CASE Finalize
      BY <1>0, <2>1, <2>5 DEF Finalize, Stops, IInv, Runner
    <2>6. CASE ShutdownDone
      BY <1>0, <2>1, <2>6 DEF ShutdownDone, Stops, IInv, Runner
    <2>7. CASE ServerCancel
      <3>1. /\ main' # "waiting" /\ shut'.step \in {shut.step, "saving", "aborted"}
            /\ state' = "closing" \/ (state' = state /\ shut'.by = shut.by)
        <4>1. CASE main \in {"connecting", "storing"}
          BY <1>0, <2>7, <4>1 DEF ServerCancel, Shutdown
        <4>2. CASE main = "waiting"
          <5>1. main' = "cancelling" /\ state' = state
                /\ (shut' = shut \/ shut' = [shut EXCEPT !.step = "aborted"])
            BY <2>7, <4>2 DEF ServerCancel
          <5> QED
            BY <1>0, <5>1
        <4> QED
          BY <2>7, <4>1, <4>2 DEF ServerCancel
      <3>2. ClosedStopsProviders'
        BY <2>1, <3>1 DEF Stops
      <3> QED
        BY <1>0, <2>1, <3>1, <3>2 DEF Stops
    <2>8. CASE CancelledMain
      BY <1>0, <2>1, <2>8 DEF CancelledMain, Shutdown, Stops
    <2>9. CASE Stored
      BY <1>0, <2>1, <2>9 DEF Stored, Stops
    <2>10. CASE RemoteEnds \/ BeginResponse \/ EndResponse \/ RequestHangup
      BY <1>0, <2>1, <2>10, Modelled DEF RemoteEnds, BeginResponse, EndResponse, RequestHangup,
         Stops, Over
    <2>11. CASE HangUp
      BY <1>0, <2>1, <2>11 DEF HangUp, Shutdown, Stops
    <2>12. CASE \E l \in Loops : LoopStep(l)
      <3>1. PICK l \in Loops : LoopStep(l)
        BY <2>12
      <3>2. CASE TakeEos(l) \/ StopReturns(l) \/ LoopFails(l) \/ SetState(l) \/ CancelArrives(l)
        <4>1. shut' = shut /\ main' = main /\ state' \in {state, "open"}
          BY <3>2 DEF TakeEos, StopReturns, LoopFails, SetState, CancelArrives
        <4>2. \A k \in Loops : pc'[k] = pc[k] \/ (k = l /\ pc'[k] \in {"stopping", "done", "failed"})
          BY <1>0, <3>2 DEF TakeEos, StopReturns, LoopFails, SetState, CancelArrives
        <4>3. ASSUME NEW p \in Providers, Over(Stopper[p])', ~Over(Stopper[p]),
                     shut.by = "none", main = "waiting"
              PROVE  Begun(p)' \/ pc'[Stopper[p]] = "failed"
          <5>1. Stopper[p] = l /\ pc[l] # "cancelling" /\ pc'[l] \in {"done", "failed"}
            BY <4>2, <4>3 DEF Over, Stops
          <5>2. CASE TakeEos(l)
            <6>1. ~\E q \in Providers : Stopper[q] = l /\ (q = "telephony" \/ prov[q] \in NotStopped)
              BY <1>0, <5>1, <5>2 DEF TakeEos
            <6> QED
              BY <2>1, <5>1, <6>1 DEF Begun
          <5>3. CASE StopReturns(l)
            <6>1. PICK q \in Providers : Stopper[q] = l /\ prov' = [prov EXCEPT ![q] = "stopped"]
              BY <5>3 DEF StopReturns
            <6>2. q = p
              BY <5>1, <6>1 DEF Stopper, Providers
            <6> QED
              BY <1>0, <6>1, <6>2 DEF Begun, NotStopped
          <5>4. CASE LoopFails(l) \/ SetState(l) \/ CancelArrives(l)
            BY <1>0, <4>3, <5>1, <5>4 DEF LoopFails, SetState, CancelArrives, Over
          <5> QED
            BY <3>2, <5>2, <5>3, <5>4
        <4> QED
          BY <1>0, <2>1, <4>1, <4>2, <4>3 DEF Stops
      <3>3. CASE SendFails(l)
        BY <1>0, <2>1, <3>3 DEF SendFails, Shutdown, Stops, Over
      <3> QED
        BY <3>1, <3>2, <3>3 DEF LoopStep
    <2> QED
      BY <1>4, <2>2, <2>3, <2>4, <2>5, <2>6, <2>7, <2>8, <2>9, <2>10, <2>11, <2>12 DEF Next
  <1> QED
    BY <1>1, <1>2, <1>3, <1>4

LEMMA StopsInit == Init => Stops
  BY ConstantsOK DEF Init, Stops, ClosedStopsProviders

LEMMA StopsStutter == ASSUME Stops, UNCHANGED vars PROVE Stops'
  BY DEF Stops, ClosedStopsProviders, Begun, Over, vars

\* Whichever loops fail and whoever closes a call, it has begun the stop of every
\* provider, but of one whose loop failed in a call that no shutdown closed.
THEOREM ClosedStopsHolds == Spec => []ClosedStopsProviders
  <1>1. IInv /\ Stops /\ [Next]_vars => Stops'
    BY StopsStep, StopsStutter
  <1>2. Stops => ClosedStopsProviders
    BY DEF Stops
  <1> QED
    BY <1>1, <1>2, StopsInit, IInvHolds, PTL DEF Spec
===============================================================================
