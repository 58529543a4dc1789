---------------------------- MODULE ProviderWarmup ----------------------------
(***************************************************************************)
(* core/provider_warmup.py: bundles of speech providers that are connected  *)
(* before an outbound call is answered and handed to the call's websocket.  *)
(*                                                                          *)
(* The pool's lock is never held across a suspension, so what a method does *)
(* under it, with the task cancellations around it, is one action; starting *)
(* a bundle, checking its health and stopping it are the suspensions.  Ids  *)
(* are the caller's: the API draws a fresh one per call, the pool does not  *)
(* rely on that.  Every entry has an expiry task and a health task of its   *)
(* own.  What a request or a session stops, it waits for; when the server   *)
(* cancels it, those stops are abandoned half-way.  A request is named by   *)
(* the bundle it prewarms.                                                  *)
(***************************************************************************)
EXTENDS FiniteSets

CONSTANTS
    Ids,       \* prewarm ids
    Aliases,   \* call ids a prewarmed call may turn out to have
    Bundles,   \* bound: the bundles that are ever created
    Sessions,  \* websocket sessions, each claiming once
    NoBundle, NoId

ASSUME WarmupAssumption ==
    /\ NoBundle \notin Bundles \cup Sessions /\ Bundles \cap Sessions = {}
    /\ NoId \notin Ids \cup Aliases /\ Ids \cap Aliases = {}

VARIABLES
    entries,   \* _entries: id -> bundle
    alias,     \* _aliases: alias -> id
    idOf,      \* of a bundle: the id it was prewarmed under
    names,     \* entry.aliases of a bundle's entry
    expiry, monitor,             \* a bundle's _expiry_task and _health_task
    preparing, \* bundles whose request has yet to create them
    starting, stopping, stopped, \* bundles whose providers are
    by,        \* the request or session that stops a bundle; NoBundle is a task's
    sibling,   \* bundles with one start() still running after the other failed
    left,      \* bundles that may keep a connection nobody will close
    session,   \* a session: [pc, bundle]
    dead,      \* bundles one of whose speech providers dropped
    old        \* entries past outbound_provider_prewarm_ttl_seconds

tables == <<entries, alias, expiry, monitor>>
stops == <<stopping, by, left>>
poolVars == <<tables, idOf, names, preparing, starting, stops, stopped, sibling, session, dead,
              old>>

Pooled == {b \in Bundles : \E id \in Ids : entries[id] = b}
Unborn == {b \in Bundles : idOf[b] = NoId}
Held(pc) == {session[w].bundle : w \in {v \in Sessions : session[v].pc = pc}}

PoolInit ==
    /\ entries = [id \in Ids |-> NoBundle] /\ alias = [a \in Aliases |-> NoId]
    /\ idOf = [b \in Bundles |-> NoId] /\ names = [b \in Bundles |-> {}]
    /\ expiry = [b \in Bundles |-> "none"] /\ monitor = [b \in Bundles |-> "none"]
    /\ preparing = {} /\ starting = {} /\ stopping = {} /\ stopped = {}
    /\ by = [b \in Bundles |-> NoBundle] /\ sibling = {} /\ left = {}
    /\ session = [w \in Sessions |-> [pc |-> "idle", bundle |-> NoBundle]]
    /\ dead = {} /\ old = {}

------------------------------------------------------------------------------
(* What is left of the tables without the entries of the bundles S, their    *)
(* aliases, and with their tasks cancelled.                                  *)
EntriesWithout(S) == [id \in Ids |-> IF entries[id] \in S THEN NoBundle ELSE entries[id]]

AliasWithout(S) ==
    [a \in Aliases |-> IF \E b \in S : a \in names[b] THEN NoId ELSE alias[a]]

\* Mutant: the tasks are taken out of their table and go on running.
TasksWithout_Running(t, S) == [b \in Bundles |-> t[b]]

TasksWithout(t, S) == [b \in Bundles |-> IF b \in S THEN "done" ELSE t[b]]

Unpool(S) ==
    /\ entries' = EntriesWithout(S) /\ alias' = AliasWithout(S)
    /\ expiry' = TasksWithout(expiry, S) /\ monitor' = TasksWithout(monitor, S)

\* _stop_bundle for each bundle of S, carried out by r.
Stop(S, r) ==
    /\ stopping' = stopping \cup S
    /\ by' = [b \in Bundles |-> IF b \in S THEN r ELSE by[b]]
    /\ UNCHANGED left

StoppedBy(r) == {b \in stopping : by[b] = r}

\* The stops that r was waiting for are cancelled with it; L is left besides.
GiveUp(r, L) ==
    /\ stopping' = stopping \ StoppedBy(r)
    /\ by' = [b \in Bundles |-> IF b \in StoppedBy(r) THEN NoBundle ELSE by[b]]
    /\ left' = left \cup StoppedBy(r) \cup L

\* expire_stale
Stale == Pooled \cap old
ExpireStale(r) == Unpool(Stale) /\ Stop(Stale, r)

-----------------------------------------------------------------------------
(* prewarm, by a request of the API                                          *)

BeginPrewarm(id, b) ==
    /\ b \in Unborn
    /\ ExpireStale(b)
    /\ idOf' = [idOf EXCEPT ![b] = id]
    /\ preparing' = preparing \cup {b}
    /\ UNCHANGED <<names, starting, stopped, sibling, session, dead, old>>

\* The stale entries are stopped: the bundle is created and started.
StartBundle(b) ==
    /\ b \in preparing /\ StoppedBy(b) = {}
    /\ preparing' = preparing \ {b} /\ starting' = starting \cup {b}
    /\ UNCHANGED <<tables, idOf, names, stops, stopped, sibling, session, dead, old>>

\* One provider's start() raises and the bundle is stopped; gather has not
\* cancelled the other start(), which may still be connecting.
PrewarmFails(b) ==
    /\ b \in starting
    /\ starting' = starting \ {b} /\ Stop({b}, b)
    /\ sibling' \in {sibling, sibling \cup {b}}
    /\ UNCHANGED <<tables, idOf, names, preparing, stopped, session, dead, old>>

\* The other start() ends: it fails too, or it connects what was stopped.
SiblingEnds(b) ==
    /\ b \in sibling /\ sibling' = sibling \ {b}
    /\ left' \in {left, left \cup {b}}
    /\ UNCHANGED <<tables, idOf, names, preparing, starting, stopping, by, stopped, session,
                   dead, old>>

\* The providers are up: the entry replaces the one under the same id.
PrewarmReady(b) ==
    /\ b \in starting /\ starting' = starting \ {b}
    /\ LET id == idOf[b]
           S  == {entries[id]} \cap Bundles
       IN /\ entries' = [EntriesWithout(S) EXCEPT ![id] = b]
          /\ alias' = AliasWithout(S)
          /\ expiry' = [TasksWithout(expiry, S) EXCEPT ![b] = "sleeping"]
          /\ monitor' = [TasksWithout(monitor, S) EXCEPT ![b] = "sleeping"]
          /\ Stop(S, b)
    /\ UNCHANGED <<idOf, names, preparing, stopped, sibling, session, dead, old>>

\* The server cancels the request: CancelledError is no Exception, so a bundle
\* that was being started is not stopped.
CancelRequest(b) ==
    /\ b \in preparing \cup starting \/ StoppedBy(b) # {}
    /\ preparing' = preparing \ {b} /\ starting' = starting \ {b}
    /\ GiveUp(b, starting \cap {b})
    /\ UNCHANGED <<tables, idOf, names, stopped, sibling, session, dead, old>>

-----------------------------------------------------------------------------
(* claim, by a websocket session                                             *)

BeginClaim(w) ==
    /\ session[w].pc = "idle"
    /\ ExpireStale(w)
    /\ session' = [session EXCEPT ![w].pc = "claiming"]
    /\ UNCHANGED <<idOf, names, preparing, starting, stopped, sibling, dead, old>>

\* The bundle a key leads to.
Lookup(key) ==
    IF key \in Ids THEN entries[key]
    ELSE IF key \in Aliases /\ alias[key] # NoId THEN entries[alias[key]]
    ELSE NoBundle

\* Mutant: the entry is read and not taken out.
TakeEntry_Peeks(w, id, a) ==
    /\ session[w].pc = "claiming" /\ StoppedBy(w) = {}
    /\ LET b == IF Lookup(id) # NoBundle THEN Lookup(id) ELSE Lookup(a) IN
       session' = [session EXCEPT ![w] =
                       [pc |-> IF b = NoBundle THEN "own" ELSE "checking", bundle |-> b]]
    /\ UNCHANGED <<tables, idOf, names, preparing, starting, stops, stopped, sibling, dead, old>>

\* The first key that leads to an entry takes it out of the pool.  A session
\* without one makes a bundle of its own.
TakeEntry(w, id, a) ==
    /\ session[w].pc = "claiming" /\ StoppedBy(w) = {}
    /\ LET b == IF Lookup(id) # NoBundle THEN Lookup(id) ELSE Lookup(a) IN
       /\ Unpool({b} \cap Bundles)
       /\ session' = [session EXCEPT ![w] =
                          [pc |-> IF b = NoBundle THEN "own" ELSE "checking", bundle |-> b]]
    /\ UNCHANGED <<idOf, names, preparing, starting, stops, stopped, sibling, dead, old>>

\* The health check is over: the bundle is the session's, or it is stopped.
FinishClaim(w) ==
    /\ session[w].pc = "checking"
    /\ LET b == session[w].bundle IN
       IF b \in dead
       THEN /\ session' = [session EXCEPT ![w] = [pc |-> "own", bundle |-> NoBundle]]
            /\ Stop({b}, w)
       ELSE /\ session' = [session EXCEPT ![w] = [pc |-> "running", bundle |-> b]]
            /\ UNCHANGED stops
    /\ UNCHANGED <<tables, idOf, names, preparing, starting, stopped, sibling, dead, old>>

\* The server cancels the session while it claims, or stops what it found dead;
\* its handler stops the telephony only.
CancelClaim(w) ==
    /\ session[w].pc \in {"claiming", "checking"} \/ StoppedBy(w) # {}
    /\ session' = [session EXCEPT ![w].pc = "cancelled"]
    /\ GiveUp(w, {})
    /\ UNCHANGED <<tables, idOf, names, preparing, starting, stopped, sibling, dead, old>>

-----------------------------------------------------------------------------
(* The other methods and the tasks                                           *)

AddAlias(a, id) ==
    /\ entries[id] # NoBundle
    /\ alias' = [alias EXCEPT ![a] = id]
    /\ names' = [names EXCEPT ![entries[id]] = @ \cup {a}]
    /\ UNCHANGED <<entries, expiry, monitor, idOf, preparing, starting, stops, stopped, sibling,
                   session, dead, old>>

\* The outbound call could not be placed: the request that prewarmed the entry,
\* and has returned from it, discards it.
CallFailed(b) ==
    /\ b \in Pooled /\ StoppedBy(b) = {}
    /\ Unpool({b}) /\ Stop({b}, b)
    /\ UNCHANGED <<idOf, names, preparing, starting, stopped, sibling, session, dead, old>>

\* Mutant: the expiry task ends without discarding its entry.
ExpiryFires_Idle(b) ==
    /\ expiry[b] = "sleeping" /\ b \in old
    /\ expiry' = [expiry EXCEPT ![b] = "done"]
    /\ UNCHANGED <<entries, alias, monitor, idOf, names, preparing, starting, stops, stopped,
                   sibling, session, dead, old>>

\* _expire_after wakes up; it knows its entry by id only.
ExpiryFires(b) ==
    /\ expiry[b] = "sleeping" /\ b \in old
    /\ LET S == {entries[idOf[b]]} \cap Bundles IN
       /\ entries' = EntriesWithout(S) /\ alias' = AliasWithout(S)
       /\ expiry' = [TasksWithout(expiry, S) EXCEPT ![b] = "done"]
       /\ monitor' = TasksWithout(monitor, S)
       /\ Stop(S, NoBundle)
    /\ UNCHANGED <<idOf, names, preparing, starting, stopped, sibling, session, dead, old>>

\* _monitor_health looks its entry up and asks the providers, ...
MonitorLooks(b) ==
    /\ monitor[b] = "sleeping"
    /\ monitor' = [monitor EXCEPT ![b] =
                       IF entries[idOf[b]] = NoBundle THEN "done" ELSE "checking"]
    /\ UNCHANGED <<entries, alias, expiry, idOf, names, preparing, starting, stops, stopped,
                   sibling, session, dead, old>>

\* ... and goes on, or discards what is under the id by now.
MonitorDecides(b) ==
    /\ monitor[b] = "checking"
    /\ IF b \notin dead
       THEN monitor' = [monitor EXCEPT ![b] = "sleeping"]
            /\ UNCHANGED <<entries, alias, expiry, stops>>
       ELSE LET S == {entries[idOf[b]]} \cap Bundles IN
            /\ entries' = EntriesWithout(S) /\ alias' = AliasWithout(S)
            /\ expiry' = TasksWithout(expiry, S)
            /\ monitor' = [TasksWithout(monitor, S) EXCEPT ![b] = "done"]
            /\ Stop(S, NoBundle)
    /\ UNCHANGED <<idOf, names, preparing, starting, stopped, sibling, session, dead, old>>

\* close; the pool goes on afterwards.
Close ==
    /\ entries' = [id \in Ids |-> NoBundle] /\ alias' = [a \in Aliases |-> NoId]
    /\ expiry' = TasksWithout(expiry, Pooled) /\ monitor' = TasksWithout(monitor, Pooled)
    /\ Stop(Pooled, NoBundle)
    /\ UNCHANGED <<idOf, names, preparing, starting, stopped, sibling, session, dead, old>>

\* _stop_bundle has returned.
StopDone(b) ==
    /\ b \in stopping
    /\ stopping' = stopping \ {b} /\ stopped' = stopped \cup {b}
    /\ by' = [by EXCEPT ![b] = NoBundle]
    /\ UNCHANGED <<tables, idOf, names, preparing, starting, sibling, left, session, dead, old>>

\* A provider loses its connection; the time to live of an entry passes.
ProviderDrops(b) ==
    /\ b \in (Pooled \cup Held("checking")) \ dead /\ dead' = dead \cup {b}
    /\ UNCHANGED <<tables, idOf, names, preparing, starting, stops, stopped, sibling, session, old>>

GrowsOld(b) ==
    /\ b \in Pooled \ old /\ old' = old \cup {b}
    /\ UNCHANGED <<tables, idOf, names, preparing, starting, stops, stopped, sibling, session, dead>>

BundleStep(b) ==
    \/ \E id \in Ids : BeginPrewarm(id, b)
    \/ StartBundle(b) \/ PrewarmFails(b) \/ SiblingEnds(b) \/ PrewarmReady(b)
    \/ CancelRequest(b) \/ CallFailed(b) \/ ExpiryFires(b)
    \/ MonitorLooks(b) \/ MonitorDecides(b) \/ StopDone(b) \/ ProviderDrops(b) \/ GrowsOld(b)

SessionStep(w) ==
    \/ BeginClaim(w) \/ FinishClaim(w) \/ CancelClaim(w)
    \/ \E id \in Ids \cup {NoId}, a \in Aliases \cup {NoId} : TakeEntry(w, id, a)

PoolNext ==
    \/ \E b \in Bundles : BundleStep(b)
    \/ \E w \in Sessions : SessionStep(w)
    \/ \E id \in Ids, a \in Aliases : AddAlias(a, id)
    \/ Close

PoolSpec == PoolInit /\ [][PoolNext]_poolVars

-----------------------------------------------------------------------------
(* Properties                                                                *)

Tasks == {"none", "sleeping", "checking", "done"}

\* Every variable stays in its domain.
PoolTypeOK ==
    /\ entries \in [Ids -> Bundles \cup {NoBundle}]
    /\ alias \in [Aliases -> Ids \cup {NoId}]
    /\ idOf \in [Bundles -> Ids \cup {NoId}] /\ names \in [Bundles -> SUBSET Aliases]
    /\ expiry \in [Bundles -> Tasks] /\ monitor \in [Bundles -> Tasks]
    /\ preparing \subseteq Bundles /\ starting \subseteq Bundles
    /\ stopping \subseteq Bundles /\ stopped \subseteq Bundles
    /\ by \in [Bundles -> Bundles \cup Sessions \cup {NoBundle}]
    /\ sibling \subseteq Bundles /\ left \subseteq Bundles
    /\ session \in [Sessions -> [pc : {"idle", "claiming", "checking", "running", "own",
                                       "cancelled"},
                                 bundle : Bundles \cup {NoBundle}]]
    /\ dead \subseteq Bundles /\ old \subseteq Bundles

\* A bundle has one owner: the prewarm that starts it, one entry of the pool,
\* one session, or whoever stops it; what was left to nobody is in no pool and
\* no call.  So no two calls speak over one connection, and the pool never
\* stops the providers of a running call.
SoleOwner ==
    /\ \A i, j \in Ids : entries[i] = entries[j] /\ entries[i] # NoBundle => i = j
    /\ \A v, w \in Sessions :
          session[v].bundle = session[w].bundle /\ session[v].bundle # NoBundle => v = w
    /\ \A b \in Bundles :
          /\ b \in Pooled => b \notin starting \cup stopping \cup stopped \cup left
          /\ b \in starting => b \notin stopping \cup stopped \cup left
          /\ b \in stopping => b \notin stopped
          /\ (\E w \in Sessions : session[w].bundle = b)
                => b \notin Pooled \cup starting \cup stopping \cup stopped \cup left

\* The tasks of an entry live exactly as long as the entry: a bundle in the pool
\* expires and is watched, and no task that outlived its entry discards, by id,
\* the entry that came after it.
TasksFollowEntries ==
    \A b \in Bundles :
        /\ b \in Pooled <=> expiry[b] = "sleeping"
        /\ b \in Pooled <=> monitor[b] \in {"sleeping", "checking"}

\* An alias leads to an entry of the pool or nowhere.
AliasesResolve ==
    \A a \in Aliases : alias[a] # NoId => entries[alias[a]] # NoBundle

-----------------------------------------------------------------------------
(* Fairness: asyncio runs ready tasks, provider calls return or time out, and *)
(* the time to live passes.                                                  *)
PoolFairness ==
    /\ \A b \in Bundles : /\ WF_poolVars(PrewarmFails(b) \/ PrewarmReady(b))
                          /\ WF_poolVars(GrowsOld(b)) /\ WF_poolVars(ExpiryFires(b))
                          /\ WF_poolVars(StopDone(b)) /\ WF_poolVars(SiblingEnds(b))
    /\ \A w \in Sessions : WF_poolVars(FinishClaim(w))

PoolFairSpec == PoolSpec /\ PoolFairness

\* No bundle is forgotten: its providers are stopped in the end, with no start
\* of them under way, unless a call has taken it.  The exceptions are the
\* code's: a session the server cancels while it takes a bundle, a request or
\* session the server cancels while it starts or stops one, and a start() that
\* connects after the other one has failed.
BundlesSettle ==
    \A b \in Bundles :
        b \in starting ~> \/ b \in stopped \ sibling \/ b \in Held("running")
                         \/ b \in Held("cancelled") \/ b \in left
=============================================================================
