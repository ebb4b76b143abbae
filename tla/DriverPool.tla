----------------------------- MODULE DriverPool -----------------------------
(***************************************************************************)
(* backend/services/matching_service.py: the matching pool in Redis.       *)
(*                                                                         *)
(* A driver in the pool is a member of a GEO set, and is fresh as long as  *)
(* a companion heartbeat key lives; Redis expires the key but not the      *)
(* member.  Drivers' calls are one MULTI or one Lua script each.  A search *)
(* for candidates and the sweep of stale members take many calls, and      *)
(* other clients' calls run between any two, also within a pipeline.       *)
(***************************************************************************)
EXTENDS Integers, FiniteSets

CONSTANTS Driver,
          Search,       \* running _candidates_from_redis calls
          Count,        \* DRIVER_SEARCH_CANDIDATES
          Radius, Far   \* distances are 0 .. Far, the search reaches Radius

ASSUME DriverAssumption == IsFiniteSet(Driver)
ASSUME CountAssumption == Count \in Nat \ {0}
ASSUME RadiusAssumption == Radius \in Nat /\ Far \in Nat /\ Radius <= Far

Distance == 0 .. Far

VARIABLES members,  \* the GEO set
          pos,      \* members' distance from the pickup
          fresh,    \* drivers whose heartbeat key exists
          search,   \* what each search has read
          steady,   \* history: members fresh and unmoved since it began
          sweep     \* what the sweep has read

vars == <<members, pos, fresh, search, steady, sweep>>

-----------------------------------------------------------------------------
\* raw: the GEOSEARCH result, with the distances in seen; todo: members whose
\* EXISTS is not read yet; out and stale: what the others were.
SearchState == [pc : {"idle", "look", "probe", "done"},
                exclude : SUBSET Driver, limit : Nat,
                raw : SUBSET Driver, seen : [Driver -> Distance],
                todo : SUBSET Driver, out : SUBSET Driver, stale : SUBSET Driver]

NoDistance == [d \in Driver |-> 0]

IdleSearch == [pc |-> "idle", exclude |-> {}, limit |-> 0, raw |-> {},
               seen |-> NoDistance, todo |-> {}, out |-> {}, stale |-> {}]

IdleSweep == [pc |-> "idle", todo |-> {}, stale |-> {}]

TypeOK ==
  /\ members \subseteq Driver /\ fresh \subseteq Driver
  /\ pos \in [Driver -> Distance]
  /\ search \in [Search -> SearchState]
  /\ steady \in [Search -> SUBSET Driver]
  /\ sweep \in [pc : {"idle", "probe"},
                todo : SUBSET Driver, stale : SUBSET Driver]

Init ==
  /\ members = {} /\ fresh = {}
  /\ pos = NoDistance
  /\ search = [s \in Search |-> IdleSearch]
  /\ steady = [s \in Search |-> {}]
  /\ sweep = IdleSweep

-----------------------------------------------------------------------------
(* Drivers.                                                                *)

Disturb(d) == steady' = [s \in Search |-> steady[s] \ {d}]

Locate(d, p) ==
  /\ pos' = [pos EXCEPT ![d] = p]
  /\ IF d \in members \cap fresh /\ p = pos[d] THEN UNCHANGED steady ELSE Disturb(d)

\* upsert_driver_location: SETEX and GEOADD in one MULTI.
Upsert(d, p) ==
  /\ members' = members \cup {d}
  /\ fresh' = fresh \cup {d}
  /\ Locate(d, p)
  /\ UNCHANGED <<search, sweep>>

\* refresh_driver_heartbeat: the script does nothing unless d is a member.
Refresh(d, p) ==
  /\ d \in members
  /\ fresh' = fresh \cup {d}
  /\ Locate(d, p)
  /\ UNCHANGED <<members, search, sweep>>

\* remove_driver_location: ZREM and DEL in one MULTI.
Remove(d) ==
  /\ d \in members
  /\ members' = members \ {d}
  /\ fresh' = fresh \ {d}
  /\ pos' = [pos EXCEPT ![d] = 0]
  /\ Disturb(d)
  /\ UNCHANGED <<search, sweep>>

\* The heartbeat key's TTL runs out.
HeartbeatExpires(d) ==
  /\ d \in fresh
  /\ fresh' = fresh \ {d}
  /\ Disturb(d)
  /\ UNCHANGED <<members, pos, search, sweep>>

\* Mutant: what an earlier EXISTS said is not checked again.
RemoveAnyway(d) ==
  /\ members' = members \ {d}
  /\ pos' = [pos EXCEPT ![d] = 0]
  /\ Disturb(d)

\* Mutant: the reply of EXISTS is taken the wrong way round.
RemoveIfFresh(d) ==
  IF d \in fresh
  THEN members' = members \ {d} /\ pos' = [pos EXCEPT ![d] = 0] /\ Disturb(d)
  ELSE UNCHANGED <<members, pos, steady>>

\* remove_if_stale: EXISTS and ZREM in one script.
RemoveIfStale(d) ==
  IF d \notin fresh
  THEN members' = members \ {d} /\ pos' = [pos EXCEPT ![d] = 0] /\ Disturb(d)
  ELSE UNCHANGED <<members, pos, steady>>

-----------------------------------------------------------------------------
(* _candidates_from_redis                                                  *)

InRadius == {d \in members : pos[d] <= Radius}

\* The limit nearest of set by dist (ties in any order), or all of it.
Nearest(set, dist, limit) ==
  {near \in SUBSET set :
     /\ Cardinality(near) = IF Cardinality(set) < limit THEN Cardinality(set) ELSE limit
     /\ \A d \in near, e \in set \ near : dist[d] <= dist[e]}

BeginSearch(s, exclude) ==
  /\ search[s].pc = "idle"
  /\ search' = [search EXCEPT ![s] =
       [IdleSearch EXCEPT !.pc = "look", !.exclude = exclude,
                          !.limit = Count + Cardinality(exclude)]]
  /\ steady' = [steady EXCEPT ![s] = members \cap fresh]
  /\ UNCHANGED <<members, pos, fresh, sweep>>

GeoSearch(s) ==
  /\ search[s].pc = "look"
  /\ \E raw \in Nearest(InRadius, pos, search[s].limit) :
       search' = [search EXCEPT
         ![s].pc = "probe", ![s].raw = raw, ![s].todo = raw \ search[s].exclude,
         ![s].seen = [d \in Driver |-> IF d \in raw THEN pos[d] ELSE 0]]
  /\ UNCHANGED <<members, pos, fresh, steady, sweep>>

Probe(s, d) ==
  /\ search[s].pc = "probe" /\ d \in search[s].todo
  /\ search' = [search EXCEPT
       ![s].todo = @ \ {d},
       ![s].out = IF d \in fresh THEN @ \cup {d} ELSE @,
       ![s].stale = IF d \in fresh THEN @ ELSE @ \cup {d}]
  /\ UNCHANGED <<members, pos, fresh, steady, sweep>>

Clean(s, d) ==
  /\ search[s].pc = "probe" /\ search[s].todo = {} /\ d \in search[s].stale
  /\ RemoveIfStale(d)
  /\ search' = [search EXCEPT ![s].stale = @ \ {d}]
  /\ UNCHANGED <<fresh, sweep>>

Finished(s) ==
  search[s].pc = "probe" /\ search[s].todo = {} /\ search[s].stale = {}

\* Mutant: the search is not widened, whatever the first one found.
Complete(s) == TRUE

\* Mutant: a search that found all there is is widened all the same.
OnlyFull(s) == Cardinality(search[s].out) >= Count

Enough(s) ==
  \/ Cardinality(search[s].out) >= Count
  \/ Cardinality(search[s].raw) < search[s].limit

\* Mutant: the next search is as narrow as the last.
SearchAgain(s) ==
  /\ Finished(s) /\ ~Enough(s)
  /\ search' = [search EXCEPT
       ![s] = [IdleSearch EXCEPT !.pc = "look", !.exclude = search[s].exclude,
                                 !.limit = search[s].limit]]
  /\ UNCHANGED <<members, pos, fresh, steady, sweep>>

Widen(s) ==
  /\ Finished(s) /\ ~Enough(s)
  /\ search' = [search EXCEPT
       ![s] = [IdleSearch EXCEPT !.pc = "look", !.exclude = search[s].exclude,
                                 !.limit = 2 * search[s].limit]]
  /\ UNCHANGED <<members, pos, fresh, steady, sweep>>

Answer(s) ==
  /\ Finished(s) /\ Enough(s)
  /\ \E out \in Nearest(search[s].out, search[s].seen, Count) :
       search' = [search EXCEPT ![s].pc = "done", ![s].out = out]
  /\ UNCHANGED <<members, pos, fresh, steady, sweep>>

Return(s) ==
  /\ search[s].pc = "done"
  /\ search' = [search EXCEPT ![s] = IdleSearch]
  /\ steady' = [steady EXCEPT ![s] = {}]
  /\ UNCHANGED <<members, pos, fresh, sweep>>

-----------------------------------------------------------------------------
(* sweep_stale_drivers                                                     *)

BeginSweep ==
  /\ sweep.pc = "idle" /\ members # {}
  /\ sweep' = [pc |-> "probe", todo |-> members, stale |-> {}]
  /\ UNCHANGED <<members, pos, fresh, search, steady>>

SweepProbe(d) ==
  /\ sweep.pc = "probe" /\ d \in sweep.todo
  /\ sweep' = [sweep EXCEPT !.todo = @ \ {d},
                            !.stale = IF d \in fresh THEN @ ELSE @ \cup {d}]
  /\ UNCHANGED <<members, pos, fresh, search, steady>>

SweepRemove(d) ==
  /\ sweep.pc = "probe" /\ sweep.todo = {} /\ d \in sweep.stale
  /\ RemoveIfStale(d)
  /\ sweep' = [sweep EXCEPT !.stale = @ \ {d}]
  /\ UNCHANGED <<fresh, search>>

EndSweep ==
  /\ sweep.pc = "probe" /\ sweep.todo = {} /\ sweep.stale = {}
  /\ sweep' = IdleSweep
  /\ UNCHANGED <<members, pos, fresh, search, steady>>

-----------------------------------------------------------------------------
DriverStep(d) ==
  \/ \E p \in Distance : Upsert(d, p) \/ Refresh(d, p)
  \/ Remove(d)
  \/ HeartbeatExpires(d)

SearchStep(s) ==
  \/ GeoSearch(s)
  \/ \E d \in Driver : Probe(s, d) \/ Clean(s, d)
  \/ Widen(s)
  \/ Answer(s)
  \/ Return(s)

SweepStep ==
  \/ BeginSweep
  \/ \E d \in Driver : SweepProbe(d) \/ SweepRemove(d)
  \/ EndSweep

Next ==
  \/ \E d \in Driver : DriverStep(d)
  \/ \E s \in Search, exclude \in SUBSET Driver : BeginSearch(s, exclude)
  \/ \E s \in Search : SearchStep(s)
  \/ SweepStep

Spec == Init /\ [][Next]_vars

(* Redis answers; the maintenance loop sweeps again and again.             *)
FairSpec ==
  Spec /\ WF_vars(SweepStep) /\ \A s \in Search : WF_vars(SearchStep(s))

-----------------------------------------------------------------------------
\* Whoever has a heartbeat is in the pool: no driver is told "online" by a
\* heartbeat and yet never matched, although searches and the sweep remove
\* members by what they read earlier (matching_service.py:50).
FreshAreMembers == fresh \subseteq members

\* A finished search has missed nobody: a driver who was fresh and did not
\* move while it ran, and is not excluded, is in the result, unless Count
\* others are that are no further away; stale and excluded members, however
\* many and near, hide nobody and are not in the result (matching_service.py:118).
NobodyHidden ==
  \A s \in Search :
    search[s].pc = "done" =>
      /\ search[s].out \cap search[s].exclude = {}
      /\ \A d \in steady[s] \ search[s].exclude :
           pos[d] <= Radius /\ d \notin search[s].out =>
             /\ Cardinality(search[s].out) = Count
             /\ \A e \in search[s].out : search[s].seen[e] <= pos[d]

\* A search is widened only as long as that can show it more drivers: it asks
\* for what it began with, or for more than that and at most for twice the
\* drivers there are, however the pool changes while it looks
\* (matching_service.py:126).
SearchesStayBounded ==
  \A s \in Search :
    search[s].pc # "idle" =>
      LET first == Count + Cardinality(search[s].exclude)
      IN search[s].limit \in {first} \cup (first + 1 .. 2 * Cardinality(Driver))

\* Every search ends, also while drivers come, go and fall silent.
EverySearchReturns ==
  \A s \in Search : search[s].pc # "idle" ~> search[s].pc = "idle"

\* A driver whose app died leaves the index or comes back.
SilentDriversLeave ==
  \A d \in Driver : d \in members \ fresh ~> d \notin members \ fresh

=============================================================================
