-------------------------- MODULE DriverPool_proofs --------------------------
(***************************************************************************)
(* For any drivers and any number of searches: whoever has a heartbeat is  *)
(* in the pool, and a finished search has missed nobody.  The invariant    *)
(* follows a search from what GEOSEARCH found to what is left of it.       *)
(***************************************************************************)
EXTENDS DriverPool, FiniteSetTheorems, TLAPS

\* What the search still knows of a driver d who was there all along.
Accounted(s, d) ==
  IF d \in search[s].raw
  THEN /\ search[s].seen[d] = pos[d]
       /\ d \notin search[s].exclude => d \in search[s].todo \cup search[s].out
  ELSE \/ pos[d] > Radius
       \/ /\ Cardinality(search[s].raw) = search[s].limit
          /\ \A e \in search[s].raw : search[s].seen[e] <= pos[d]

ProbeOK(s) ==
  /\ search[s].todo \subseteq search[s].raw \ search[s].exclude
  /\ search[s].out \subseteq search[s].raw \ search[s].exclude
  /\ \A d \in steady[s] : Accounted(s, d)

DoneOK(s) ==
  /\ search[s].out \cap search[s].exclude = {}
  /\ \A d \in steady[s] \ search[s].exclude :
       pos[d] <= Radius /\ d \notin search[s].out =>
         /\ Cardinality(search[s].out) = Count
         /\ \A e \in search[s].out : search[s].seen[e] <= pos[d]

SearchOK(s) ==
  /\ steady[s] \subseteq members \cap fresh
  /\ search[s].pc = "look" => search[s].out = {}
  /\ search[s].pc = "probe" => ProbeOK(s)
  /\ search[s].pc = "done" => DoneOK(s)

IInv == TypeOK /\ FreshAreMembers /\ \A s \in Search : SearchOK(s)

-----------------------------------------------------------------------------
(* Nearest                                                                 *)

LEMMA DriversFinite ==
  ASSUME NEW set \in SUBSET Driver
  PROVE  IsFiniteSet(set) /\ Cardinality(set) \in Nat
  BY DriverAssumption, FS_Subset, FS_CardinalityType

\* Whoever is left out of the nearest is left out for nearer ones.
LEMMA NearestLeavesFarther ==
  ASSUME NEW set \in SUBSET Driver, NEW dist, NEW limit \in Nat,
         NEW near \in Nearest(set, dist, limit), NEW d \in set, d \notin near
  PROVE  Cardinality(near) = limit /\ \A e \in near : dist[e] <= dist[d]
  <1>1. /\ near \subseteq set
        /\ Cardinality(near) = IF Cardinality(set) < limit THEN Cardinality(set) ELSE limit
        /\ \A e \in near : dist[e] <= dist[d]
    BY DEF Nearest
  <1>2. Cardinality(near) # Cardinality(set)
    BY <1>1, DriversFinite, FS_Subset
  <1> QED
    BY <1>1, <1>2

-----------------------------------------------------------------------------
\* A step that is not the search's own, and spares whoever stays steady.
LEMMA Undisturbed ==
  ASSUME NEW s \in Search, SearchOK(s), search'[s] = search[s],
         steady'[s] \subseteq steady[s],
         \A d \in steady'[s] : pos'[d] = pos[d] /\ d \in members' \cap fresh'
  PROVE  SearchOK(s)'
  <1>1. ASSUME ProbeOK(s) PROVE ProbeOK(s)'
    BY <1>1 DEF ProbeOK, Accounted
  <1>2. ASSUME DoneOK(s) PROVE DoneOK(s)'
    BY <1>2 DEF DoneOK
  <1> QED
    BY <1>1, <1>2 DEF SearchOK

\* A step of the drivers or a removal: whoever stays steady was left alone.
Spares ==
  /\ members' \subseteq Driver /\ fresh' \subseteq members'
  /\ pos' \in [Driver -> Distance] /\ steady' \in [Search -> SUBSET Driver]
  /\ \A s \in Search :
       steady'[s] \subseteq steady[s]
         /\ \A e \in steady'[s] : pos'[e] = pos[e] /\ e \in fresh'

LEMMA SparingKeeps ==
  ASSUME IInv, Spares, NEW s \in Search, search'[s] = search[s] PROVE SearchOK(s)'
  BY Undisturbed DEF IInv, Spares

LEMMA LocateSpares ==
  ASSUME IInv, NEW d \in Driver, NEW p \in Distance, Locate(d, p),
         members' \subseteq Driver, fresh' = fresh \cup {d}, fresh' \subseteq members'
  PROVE  Spares
  <1>1. pos \in [Driver -> Distance] /\ steady \in [Search -> SUBSET Driver]
        /\ \A s \in Search : steady[s] \subseteq members \cap fresh
    BY DEF IInv, TypeOK, SearchOK
  <1>2. pos' = [pos EXCEPT ![d] = p]
    BY DEF Locate
  <1>3. CASE d \in members \cap fresh /\ p = pos[d]
    <2>1. steady' = steady /\ pos' = pos
      BY <1>1, <1>2, <1>3 DEF Locate
    <2> QED
      BY <1>1, <2>1 DEF Spares
  <1>4. CASE ~(d \in members \cap fresh /\ p = pos[d])
    <2>1. steady' = [s \in Search |-> steady[s] \ {d}]
      BY <1>4 DEF Locate, Disturb
    <2> QED
      BY <1>1, <1>2, <2>1 DEF Spares
  <1> QED
    BY <1>3, <1>4

LEMMA DriverStepSpares ==
  ASSUME IInv, NEW d \in Driver, DriverStep(d)
  PROVE  Spares /\ UNCHANGED <<search, sweep>>
  <1>1. members \subseteq Driver /\ fresh \subseteq members /\ pos \in [Driver -> Distance]
        /\ steady \in [Search -> SUBSET Driver]
        /\ \A s \in Search : steady[s] \subseteq members \cap fresh
    BY DEF IInv, TypeOK, FreshAreMembers, SearchOK
  <1>2. ASSUME NEW p \in Distance, Upsert(d, p) PROVE Spares /\ UNCHANGED <<search, sweep>>
    BY <1>1, <1>2, LocateSpares DEF Upsert
  <1>3. ASSUME NEW p \in Distance, Refresh(d, p) PROVE Spares /\ UNCHANGED <<search, sweep>>
    BY <1>1, <1>3, LocateSpares DEF Refresh
  <1>4. CASE Remove(d)
    <2>1. 0 \in Distance
      BY RadiusAssumption DEF Distance
    <2> QED
      BY <1>1, <1>4, <2>1 DEF Remove, Disturb, Spares
  <1>5. CASE HeartbeatExpires(d)
    BY <1>1, <1>5 DEF HeartbeatExpires, Disturb, Spares
  <1> QED
    BY <1>2, <1>3, <1>4, <1>5 DEF DriverStep

\* remove_if_stale takes nobody out of the pool who has a heartbeat.
LEMMA RemoveIfStaleSpares ==
  ASSUME IInv, NEW d \in Driver, RemoveIfStale(d), UNCHANGED fresh PROVE Spares
  <1>1. members \subseteq Driver /\ fresh \subseteq members /\ pos \in [Driver -> Distance]
        /\ steady \in [Search -> SUBSET Driver]
        /\ \A s \in Search : steady[s] \subseteq members \cap fresh
    BY DEF IInv, TypeOK, FreshAreMembers, SearchOK
  <1>2. CASE d \notin fresh
    <2>1. 0 \in Distance
      BY RadiusAssumption DEF Distance
    <2> QED
      BY <1>1, <1>2, <2>1 DEF RemoveIfStale, Disturb, Spares
  <1>3. CASE d \in fresh
    BY <1>1, <1>3 DEF RemoveIfStale, Spares
  <1> QED
    BY <1>2, <1>3

LEMMA DriverStepKeeps ==
  ASSUME IInv, NEW d \in Driver, DriverStep(d) PROVE IInv'
  <1>1. Spares /\ UNCHANGED <<search, sweep>>
    BY DriverStepSpares
  <1>2. ASSUME NEW s \in Search PROVE SearchOK(s)'
    BY <1>1, SparingKeeps
  <1> QED
    BY <1>1, <1>2 DEF IInv, TypeOK, FreshAreMembers, Spares

SweepState == [pc : {"idle", "probe"}, todo : SUBSET Driver, stale : SUBSET Driver]

LEMMA SweepStepKeeps ==
  ASSUME IInv, SweepStep PROVE IInv'
  <1> DEFINE Kept == /\ UNCHANGED <<fresh, search>> /\ Spares /\ sweep' \in SweepState
  <1>1. ASSUME UNCHANGED <<members, pos, fresh, steady>> PROVE Spares
    BY <1>1 DEF IInv, TypeOK, FreshAreMembers, SearchOK, Spares
  <1>2. sweep \in SweepState /\ members \subseteq Driver
    BY DEF IInv, TypeOK, SweepState
  <1>3. ASSUME BeginSweep PROVE Kept
    <2>1. sweep' \in SweepState
      BY <1>2, <1>3 DEF BeginSweep, SweepState
    <2> QED
      BY <1>1, <1>3, <2>1 DEF BeginSweep
  <1>4. ASSUME \E d \in Driver : SweepProbe(d) PROVE Kept
    <2> PICK d \in Driver : SweepProbe(d)
      BY <1>4
    <2>1. PICK stale \in SUBSET Driver : sweep' = [sweep EXCEPT !.todo = @ \ {d}, !.stale = stale]
      BY <1>2 DEF SweepProbe, SweepState
    <2>2. sweep' \in SweepState
      BY <1>2, <2>1 DEF SweepState
    <2> QED
      BY <1>1, <2>2 DEF SweepProbe
  <1>5. ASSUME \E d \in Driver : SweepRemove(d) PROVE Kept
    <2> PICK d \in Driver : SweepRemove(d)
      BY <1>5
    <2>1. RemoveIfStale(d) /\ UNCHANGED <<fresh, search>>
          /\ sweep' = [sweep EXCEPT !.stale = @ \ {d}]
      BY DEF SweepRemove
    <2> QED
      BY <1>2, <2>1, RemoveIfStaleSpares DEF SweepState
  <1>6. ASSUME EndSweep PROVE Kept
    <2>1. sweep' \in SweepState
      BY <1>6 DEF EndSweep, IdleSweep, SweepState
    <2> QED
      BY <1>1, <1>6, <2>1 DEF EndSweep
  <1>7. Kept
    BY <1>3, <1>4, <1>5, <1>6 DEF SweepStep
  <1>8. ASSUME NEW s \in Search PROVE SearchOK(s)'
    BY <1>7, SparingKeeps
  <1> QED
    BY <1>7, <1>8 DEF IInv, TypeOK, FreshAreMembers, Spares, SweepState

-----------------------------------------------------------------------------
(* A search's steps change one search; the others are left alone.          *)

LEMMA OneSearch ==
  ASSUME IInv, NEW s \in Search, NEW now \in SearchState,
         search' = [search EXCEPT ![s] = now], UNCHANGED <<fresh, sweep>>, Spares,
         SearchOK(s)'
  PROVE  IInv'
  <1>1. search' \in [Search -> SearchState] /\ \A q \in Search \ {s} : search'[q] = search[q]
    BY DEF IInv, TypeOK
  <1>2. ASSUME NEW q \in Search PROVE SearchOK(q)'
    BY <1>1, SparingKeeps
  <1> QED
    BY <1>1, <1>2 DEF IInv, TypeOK, FreshAreMembers, Spares

LEMMA Unchanging ==
  ASSUME IInv, UNCHANGED <<members, pos, fresh>>, steady' \in [Search -> SUBSET Driver],
         \A q \in Search : steady'[q] \subseteq steady[q]
  PROVE  Spares
  BY DEF IInv, TypeOK, FreshAreMembers, SearchOK, Spares

LEMMA IdleSearchOK == IdleSearch \in SearchState
  BY RadiusAssumption DEF IdleSearch, SearchState, NoDistance, Distance

\* A search that has yet to look at the index promises nothing.
LEMMA Looking ==
  ASSUME NEW exclude \in SUBSET Driver, NEW limit \in Nat
  PROVE  LET now == [IdleSearch EXCEPT !.pc = "look", !.exclude = exclude, !.limit = limit]
         IN now \in SearchState /\ now.pc = "look" /\ now.out = {}
  <1> DEFINE t == [IdleSearch EXCEPT !.pc = "look"]
  <1>1. t \in SearchState /\ t.pc = "look" /\ t.out = {}
    BY IdleSearchOK DEF SearchState, IdleSearch
  <1> HIDE DEF t
  <1>2. [t EXCEPT !.exclude = exclude, !.limit = limit] \in SearchState
        /\ [t EXCEPT !.exclude = exclude, !.limit = limit].pc = "look"
        /\ [t EXCEPT !.exclude = exclude, !.limit = limit].out = {}
    BY <1>1 DEF SearchState
  <1>3. [IdleSearch EXCEPT !.pc = "look", !.exclude = exclude, !.limit = limit]
          = [t EXCEPT !.exclude = exclude, !.limit = limit]
    BY IdleSearchOK DEF t, SearchState
  <1> QED
    BY <1>2, <1>3

LEMMA BeginSearchKeeps ==
  ASSUME IInv, NEW s \in Search, NEW exclude \in SUBSET Driver, BeginSearch(s, exclude)
  PROVE  IInv'
  <1> DEFINE now == [IdleSearch EXCEPT !.pc = "look", !.exclude = exclude,
                                       !.limit = Count + Cardinality(exclude)]
  <1>1. now \in SearchState /\ now.pc = "look" /\ now.out = {}
    <2>1. Count + Cardinality(exclude) \in Nat
      BY DriversFinite, CountAssumption
    <2> QED
      BY <2>1, Looking
  <1> HIDE DEF now
  <1>2. /\ search' = [search EXCEPT ![s] = now]
        /\ steady' = [steady EXCEPT ![s] = members \cap fresh]
        /\ UNCHANGED <<members, pos, fresh, sweep>>
    BY DEF BeginSearch, now
  <1>3. /\ search' \in [Search -> SearchState]
        /\ search'[s].pc = "look" /\ search'[s].out = {}
        /\ steady' \in [Search -> SUBSET Driver] /\ steady'[s] = members \cap fresh
        /\ \A q \in Search \ {s} : search'[q] = search[q] /\ steady'[q] = steady[q]
    BY <1>1, <1>2 DEF IInv, TypeOK
  <1>4. ASSUME NEW q \in Search PROVE SearchOK(q)'
    <2>1. CASE q = s
      BY <1>2, <1>3, <2>1 DEF SearchOK
    <2>2. CASE q # s
      BY <1>2, <1>3, <2>2, Undisturbed DEF IInv, SearchOK
    <2> QED
      BY <2>1, <2>2
  <1> QED
    BY <1>2, <1>3, <1>4 DEF IInv, TypeOK, FreshAreMembers

\* A step within a search leaves the drivers alone.
LEMMA SearchAlone ==
  ASSUME IInv, UNCHANGED <<members, pos, fresh, steady>> PROVE Spares
  BY Unchanging DEF IInv, TypeOK

\* GEOSEARCH finds everyone within the radius, or limit others no farther off.
LEMMA GeoSearchKeeps ==
  ASSUME IInv, NEW s \in Search, GeoSearch(s) PROVE IInv'
  <1>1. /\ search[s] \in SearchState /\ search[s].limit \in Nat
        /\ search \in [Search -> SearchState]
        /\ members \subseteq Driver /\ pos \in [Driver -> Distance]
        /\ steady \in [Search -> SUBSET Driver] /\ steady[s] \subseteq members \cap fresh
        /\ search[s].out = {}
    BY DEF GeoSearch, IInv, TypeOK, SearchState, SearchOK
  <1>2. UNCHANGED <<members, pos, fresh, steady, sweep>>
    BY DEF GeoSearch
  <1>3. PICK raw \in Nearest(InRadius, pos, search[s].limit) :
          search' = [search EXCEPT
            ![s].pc = "probe", ![s].raw = raw, ![s].todo = raw \ search[s].exclude,
            ![s].seen = [d \in Driver |-> IF d \in raw THEN pos[d] ELSE 0]]
    BY DEF GeoSearch
  <1>4. raw \subseteq Driver /\ InRadius \subseteq Driver
    BY <1>1 DEF Nearest, InRadius
  <1> DEFINE seen == [d \in Driver |-> IF d \in raw THEN pos[d] ELSE 0]
             todo == raw \ search[s].exclude
             now == [search[s] EXCEPT !.pc = "probe", !.raw = raw, !.todo = todo,
                                      !.seen = seen]
  <1>5. seen \in [Driver -> Distance] /\ (\A d \in raw : seen[d] = pos[d])
        /\ todo \subseteq raw /\ todo \cap search[s].exclude = {}
        /\ \A d \in raw \ search[s].exclude : d \in todo
    BY <1>1, <1>4, RadiusAssumption DEF Distance
  <1>6. search' = [search EXCEPT ![s] = now]
    BY <1>1, <1>3
  <1> HIDE DEF seen, todo
  <1>7. /\ now \in SearchState /\ now.pc = "probe" /\ now.raw = raw /\ now.todo = todo
        /\ now.seen = seen /\ now.out = {} /\ now.exclude = search[s].exclude
        /\ now.limit = search[s].limit
    <2>1. raw \in SUBSET Driver /\ todo \in SUBSET Driver
      BY <1>4, <1>5
    <2> QED
      BY <1>1, <1>5, <2>1 DEF SearchState
  <1> HIDE DEF now
  <1>8. search'[s] = now
    BY <1>1, <1>6
  <1>9. ASSUME NEW d \in steady[s] PROVE Accounted(s, d)'
    <2>1. d \in Driver /\ d \in members /\ pos[d] \in Distance
      BY <1>1
    <2>2. CASE d \in raw
      BY <1>2, <1>5, <1>7, <1>8, <2>2 DEF Accounted
    <2>3. CASE d \notin raw /\ pos[d] > Radius
      BY <1>2, <1>7, <1>8, <2>3 DEF Accounted
    <2>4. CASE d \notin raw /\ pos[d] <= Radius
      <3>1. d \in InRadius
        BY <2>1, <2>4 DEF InRadius
      <3>2. Cardinality(raw) = search[s].limit /\ \A e \in raw : pos[e] <= pos[d]
        BY <1>1, <1>3, <1>4, <2>4, <3>1, NearestLeavesFarther
      <3> QED
        BY <1>2, <1>5, <1>7, <1>8, <2>4, <3>2 DEF Accounted
    <2> QED
      BY <2>1, <2>2, <2>3, <2>4, RadiusAssumption DEF Distance
  <1>10. SearchOK(s)'
    BY <1>1, <1>2, <1>5, <1>7, <1>8, <1>9 DEF SearchOK, ProbeOK
  <1> QED
    BY <1>2, <1>6, <1>7, <1>10, SearchAlone, OneSearch

\* EXISTS may call a driver stale only if they have not been there all along.
LEMMA ProbeKeeps ==
  ASSUME IInv, NEW s \in Search, NEW d \in Driver, Probe(s, d) PROVE IInv'
  <1>1. /\ search[s] \in SearchState /\ search \in [Search -> SearchState]
        /\ search[s].pc = "probe" /\ d \in search[s].todo
        /\ UNCHANGED <<members, pos, fresh, steady, sweep>>
        /\ steady[s] \subseteq fresh /\ steady[s] \subseteq members \cap fresh
        /\ ProbeOK(s)
    BY DEF Probe, IInv, TypeOK, SearchOK
  <1> DEFINE out == IF d \in fresh THEN search[s].out \cup {d} ELSE search[s].out
             stale == IF d \in fresh THEN search[s].stale ELSE search[s].stale \cup {d}
             now == [search[s] EXCEPT !.todo = search[s].todo \ {d}, !.out = out,
                                      !.stale = stale]
  <1>2. search' = [search EXCEPT ![s] = now]
    BY <1>1 DEF Probe
  <1>3. out \in SUBSET Driver /\ stale \in SUBSET Driver
    BY <1>1 DEF SearchState
  <1>4. out \subseteq search[s].out \cup {d} /\ search[s].out \subseteq out
        /\ (d \in fresh => d \in out)
    OBVIOUS
  <1> HIDE DEF out, stale
  <1>5. /\ now \in SearchState /\ now.pc = "probe" /\ now.raw = search[s].raw
        /\ now.todo = search[s].todo \ {d} /\ now.out = out /\ now.seen = search[s].seen
        /\ now.exclude = search[s].exclude /\ now.limit = search[s].limit
    BY <1>1, <1>3 DEF SearchState
  <1> HIDE DEF now
  <1>6. search'[s] = now
    BY <1>1, <1>2
  <1>7. ASSUME NEW e \in steady[s] PROVE Accounted(s, e)'
    <2>1. Accounted(s, e) /\ e \in fresh
      BY <1>1 DEF ProbeOK
    <2> QED
      BY <1>1, <1>4, <1>5, <1>6, <2>1 DEF Accounted
  <1>8. ProbeOK(s)'
    BY <1>1, <1>4, <1>5, <1>6, <1>7 DEF ProbeOK
  <1>9. SearchOK(s)'
    BY <1>1, <1>5, <1>6, <1>8 DEF SearchOK
  <1> QED
    BY <1>1, <1>2, <1>5, <1>9, SearchAlone, OneSearch

LEMMA CleanKeeps ==
  ASSUME IInv, NEW s \in Search, NEW d \in Driver, Clean(s, d) PROVE IInv'
  <1>1. /\ search[s] \in SearchState /\ search \in [Search -> SearchState]
        /\ search[s].pc = "probe" /\ ProbeOK(s) /\ Spares
        /\ UNCHANGED <<fresh, sweep>>
    BY RemoveIfStaleSpares DEF Clean, IInv, TypeOK, SearchOK
  <1> DEFINE now == [search[s] EXCEPT !.stale = search[s].stale \ {d}]
  <1>2. search' = [search EXCEPT ![s] = now]
    BY <1>1 DEF Clean
  <1>3. /\ now \in SearchState /\ now.pc = "probe" /\ now.raw = search[s].raw
        /\ now.todo = search[s].todo /\ now.out = search[s].out /\ now.seen = search[s].seen
        /\ now.exclude = search[s].exclude /\ now.limit = search[s].limit
    BY <1>1 DEF SearchState
  <1> HIDE DEF now
  <1>4. search'[s] = now
    BY <1>1, <1>2
  <1>5. ASSUME NEW e \in steady'[s] PROVE Accounted(s, e)'
    <2>1. Accounted(s, e) /\ pos'[e] = pos[e]
      BY <1>1 DEF ProbeOK, Spares
    <2> QED
      BY <1>3, <1>4, <2>1 DEF Accounted
  <1>6. SearchOK(s)'
    <2>1. steady'[s] \subseteq members' \cap fresh'
      BY <1>1 DEF Spares
    <2> QED
      BY <1>1, <1>3, <1>4, <1>5, <2>1 DEF SearchOK, ProbeOK
  <1> QED
    BY <1>1, <1>2, <1>3, <1>6, OneSearch

LEMMA WidenKeeps ==
  ASSUME IInv, NEW s \in Search, Widen(s) PROVE IInv'
  <1>1. /\ search[s] \in SearchState /\ search \in [Search -> SearchState]
        /\ UNCHANGED <<members, pos, fresh, steady, sweep>>
        /\ steady[s] \subseteq members \cap fresh
    BY DEF Widen, IInv, TypeOK, SearchOK
  <1> DEFINE now == [IdleSearch EXCEPT !.pc = "look", !.exclude = search[s].exclude,
                                       !.limit = 2 * search[s].limit]
  <1>2. now \in SearchState /\ now.pc = "look" /\ now.out = {}
    <2>1. search[s].exclude \in SUBSET Driver /\ 2 * search[s].limit \in Nat
      BY <1>1 DEF SearchState
    <2> QED
      BY <2>1, Looking
  <1> HIDE DEF now
  <1>3. search' = [search EXCEPT ![s] = now] /\ search'[s] = now
    BY <1>1 DEF Widen, now
  <1>4. SearchOK(s)'
    BY <1>1, <1>2, <1>3 DEF SearchOK
  <1> QED
    BY <1>1, <1>2, <1>3, <1>4, SearchAlone, OneSearch

\* A driver who was there all along is in out, or was not in raw; in either
\* case whoever is returned in their place is no farther away.
LEMMA AnswerKeeps ==
  ASSUME IInv, NEW s \in Search, Answer(s) PROVE IInv'
  <1>1. /\ search[s] \in SearchState /\ search \in [Search -> SearchState]
        /\ UNCHANGED <<members, pos, fresh, steady, sweep>>
        /\ steady[s] \subseteq members \cap fresh
        /\ search[s].todo = {} /\ Enough(s) /\ ProbeOK(s)
    BY DEF Answer, Finished, IInv, TypeOK, SearchOK
  <1>2. PICK out \in Nearest(search[s].out, search[s].seen, Count) :
          search' = [search EXCEPT ![s].pc = "done", ![s].out = out]
    BY DEF Answer
  <1>3. /\ out \subseteq search[s].out /\ search[s].out \subseteq search[s].raw
        /\ search[s].out \in SUBSET Driver /\ search[s].raw \in SUBSET Driver
        /\ search[s].limit \in Nat
    BY <1>1 DEF Nearest, ProbeOK, SearchState
  <1> DEFINE now == [search[s] EXCEPT !.pc = "done", !.out = out]
  <1>4. search' = [search EXCEPT ![s] = now]
    BY <1>1, <1>2
  <1>5. /\ now \in SearchState /\ now.pc = "done" /\ now.out = out
        /\ now.seen = search[s].seen /\ now.exclude = search[s].exclude
    BY <1>1, <1>3 DEF SearchState
  <1> HIDE DEF now
  <1>6. search'[s] = now
    BY <1>1, <1>4
  <1>7. ASSUME NEW d \in steady[s] \ search[s].exclude, pos[d] <= Radius, d \notin out
        PROVE  Cardinality(out) = Count /\ \A e \in out : search[s].seen[e] <= pos[d]
    <2>1. Accounted(s, d)
      BY <1>1 DEF ProbeOK
    <2>2. CASE d \in search[s].raw
      <3>1. search[s].seen[d] = pos[d] /\ d \in search[s].out
        BY <1>1, <2>1, <2>2 DEF Accounted
      <3> QED
        <4>1. Count \in Nat
          BY CountAssumption
        <4>2. /\ Cardinality(out) = Count
              /\ \A e \in out : search[s].seen[e] <= search[s].seen[d]
          BY <1>2, <1>3, <1>7, <3>1, <4>1, NearestLeavesFarther
        <4> QED
          BY <3>1, <4>2
    <2>3. CASE d \notin search[s].raw
      <3>1. pos[d] \in Nat
        BY <1>1 DEF IInv, TypeOK, Distance
      <3>2. /\ Cardinality(search[s].raw) = search[s].limit
            /\ \A e \in search[s].raw : search[s].seen[e] <= pos[d]
        BY <1>7, <2>1, <2>3, <3>1, RadiusAssumption DEF Accounted
      <3>3. Cardinality(search[s].out) >= Count
        BY <1>1, <1>3, <3>2 DEF Enough
      <3>4. Cardinality(out) = Count
        BY <1>2, <1>3, <3>3, DriversFinite, CountAssumption DEF Nearest
      <3> QED
        BY <1>3, <3>2, <3>4
    <2> QED
      BY <2>2, <2>3
  <1>8. DoneOK(s)'
    BY <1>1, <1>3, <1>5, <1>6, <1>7 DEF DoneOK, ProbeOK
  <1>9. SearchOK(s)'
    BY <1>1, <1>5, <1>6, <1>8 DEF SearchOK
  <1> QED
    BY <1>1, <1>4, <1>5, <1>9, SearchAlone, OneSearch

LEMMA ReturnKeeps ==
  ASSUME IInv, NEW s \in Search, Return(s) PROVE IInv'
  <1>1. /\ search' = [search EXCEPT ![s] = IdleSearch]
        /\ steady' = [steady EXCEPT ![s] = {}]
        /\ UNCHANGED <<members, pos, fresh, sweep>>
        /\ search \in [Search -> SearchState] /\ steady \in [Search -> SUBSET Driver]
    BY DEF Return, IInv, TypeOK
  <1>2. search'[s].pc = "idle" /\ steady'[s] = {}
    BY <1>1 DEF IdleSearch
  <1>3. Spares
    BY <1>1, Unchanging
  <1>4. SearchOK(s)'
    BY <1>2 DEF SearchOK
  <1> QED
    BY <1>1, <1>3, <1>4, IdleSearchOK, OneSearch

-----------------------------------------------------------------------------
LEMMA InitOK == Init => IInv
  <1> SUFFICES ASSUME Init PROVE IInv
    OBVIOUS
  <1>1. TypeOK
    BY IdleSearchOK, RadiusAssumption DEF Init, TypeOK, NoDistance, Distance, IdleSweep
  <1>2. \A s \in Search : SearchOK(s)
    BY DEF Init, SearchOK, IdleSearch
  <1> QED
    BY <1>1, <1>2 DEF Init, IInv, FreshAreMembers

LEMMA NextOK == IInv /\ [Next]_vars => IInv'
  <1> SUFFICES ASSUME IInv, [Next]_vars PROVE IInv'
    OBVIOUS
  <1>1. CASE \E d \in Driver : DriverStep(d)
    BY <1>1, DriverStepKeeps
  <1>2. CASE \E s \in Search, exclude \in SUBSET Driver : BeginSearch(s, exclude)
    BY <1>2, BeginSearchKeeps
  <1>3. CASE \E s \in Search : SearchStep(s)
    BY <1>3, GeoSearchKeeps, ProbeKeeps, CleanKeeps, WidenKeeps, AnswerKeeps, ReturnKeeps
       DEF SearchStep
  <1>4. CASE SweepStep
    BY <1>4, SweepStepKeeps
  <1>5. CASE UNCHANGED vars
    BY <1>5 DEF vars, IInv, TypeOK, FreshAreMembers, SearchOK, ProbeOK, Accounted, DoneOK
  <1> QED
    BY <1>1, <1>2, <1>3, <1>4, <1>5 DEF Next

\* What a search has read accounts, at any time, for everyone who has been
\* in the pool since it began (_candidates_from_redis).
THEOREM Invariance == Spec => []IInv
  BY InitOK, NextOK, PTL DEF Spec

\* The state keeps its types.
THEOREM TypeCorrect == Spec => []TypeOK
  <1>1. IInv => TypeOK
    BY DEF IInv
  <1> QED
    BY <1>1, Invariance, PTL

\* Neither the sweep nor a search's clean-up, which act on what they read
\* earlier, takes a driver with a heartbeat out of the pool (remove_if_stale).
THEOREM FreshMembers == Spec => []FreshAreMembers
  <1>1. IInv => FreshAreMembers
    BY DEF IInv
  <1> QED
    BY <1>1, Invariance, PTL

\* For any number of drivers, positions and searches, a finished search has
\* missed nobody who was there all along (_candidates_from_redis).
THEOREM NobodyMissed == Spec => []NobodyHidden
  <1>1. IInv => NobodyHidden
    BY DEF IInv, SearchOK, DoneOK, NobodyHidden
  <1> QED
    BY <1>1, Invariance, PTL

-----------------------------------------------------------------------------
(* How far a search can widen.  It asks again only when it got as many     *)
(* drivers as it had asked for, so a limit that it doubles is no more than *)
(* the number of drivers.                                                  *)

Bounded(s) ==
  LET first == Count + Cardinality(search[s].exclude)
  IN search[s].limit \in {first} \cup (first + 1 .. 2 * Cardinality(Driver))

BInv == \A s \in Search : search[s].pc # "idle" => Bounded(s)

LEMMA FirstLimit ==
  ASSUME NEW exclude \in SUBSET Driver
  PROVE  Count + Cardinality(exclude) \in Nat \ {0}
  BY DriversFinite, CountAssumption

\* Steps that leave the search where it was, or let it read on.
LEMMA LimitKept ==
  ASSUME TypeOK, NEW s \in Search, NEW now, search' = [search EXCEPT ![s] = now], BInv,
         now.pc # "idle" => /\ search[s].pc # "idle"
                            /\ now.limit = search[s].limit /\ now.exclude = search[s].exclude
  PROVE  BInv'
  <1> SUFFICES ASSUME NEW q \in Search, search'[q].pc # "idle" PROVE Bounded(q)'
    BY DEF BInv
  <1>1. CASE q = s
    <2>1. search'[q] = now /\ search[s].pc # "idle"
      BY <1>1 DEF TypeOK
    <2> QED
      BY <1>1, <2>1 DEF BInv, Bounded
  <1>2. CASE q # s
    <2>1. search'[q] = search[q]
      BY <1>2 DEF TypeOK
    <2> QED
      BY <2>1 DEF BInv, Bounded
  <1> QED
    BY <1>1, <1>2

LEMMA BeginBounded ==
  ASSUME IInv, BInv, NEW s \in Search, NEW exclude \in SUBSET Driver, BeginSearch(s, exclude)
  PROVE  BInv'
  <1> DEFINE now == [IdleSearch EXCEPT !.pc = "look", !.exclude = exclude,
                                       !.limit = Count + Cardinality(exclude)]
  <1>1. now.exclude = exclude /\ now.limit = Count + Cardinality(exclude)
    BY DEF IdleSearch
  <1> HIDE DEF now
  <1>2. search' = [search EXCEPT ![s] = now]
    BY DEF BeginSearch, now
  <1> SUFFICES ASSUME NEW q \in Search, search'[q].pc # "idle" PROVE Bounded(q)'
    BY DEF BInv
  <1>3. CASE q = s
    <2>1. search'[q] = now
      BY <1>2, <1>3 DEF IInv, TypeOK
    <2> QED
      BY <1>1, <2>1 DEF Bounded
  <1>4. CASE q # s
    <2>1. search'[q] = search[q]
      BY <1>2, <1>4 DEF IInv, TypeOK
    <2> QED
      BY <2>1 DEF BInv, Bounded
  <1> QED
    BY <1>3, <1>4

\* Of drivers there are only so many: a search that got all it asked for did
\* not ask for more.
LEMMA WidenBounded ==
  ASSUME IInv, BInv, NEW s \in Search, Widen(s)
  PROVE  BInv'
  <1> DEFINE limit == search[s].limit
             exclude == search[s].exclude
             first == Count + Cardinality(exclude)
             now == [IdleSearch EXCEPT !.pc = "look", !.exclude = exclude, !.limit = 2 * limit]
  <1>1. search[s] \in SearchState /\ search[s].pc = "probe"
    BY DEF IInv, TypeOK, Widen, Finished
  <1>2. exclude \in SUBSET Driver /\ search[s].raw \in SUBSET Driver /\ limit \in Nat
    BY <1>1 DEF SearchState
  <1>3. first \in Nat /\ first > 0
    BY <1>2, FirstLimit
  <1>4. limit >= first
    BY <1>1, <1>3 DEF BInv, Bounded
  <1>5. /\ Cardinality(search[s].raw) \in Nat /\ Cardinality(Driver) \in Nat
        /\ Cardinality(search[s].raw) <= Cardinality(Driver)
    BY <1>2, DriverAssumption, DriversFinite, FS_Subset, FS_CardinalityType
  <1>6. Cardinality(search[s].raw) >= limit
    BY <1>2, <1>5 DEF Widen, Enough
  <1>7. now.exclude = exclude /\ now.limit = 2 * limit
    BY DEF IdleSearch
  <1>8. search' = [search EXCEPT ![s] = now]
    BY DEF Widen
  <1> HIDE DEF now, limit, exclude
  <1>9. 2 * limit \in first + 1 .. 2 * Cardinality(Driver)
    BY <1>2, <1>3, <1>4, <1>5, <1>6
  <1> SUFFICES ASSUME NEW q \in Search, search'[q].pc # "idle" PROVE Bounded(q)'
    BY DEF BInv
  <1>10. CASE q = s
    <2>1. search'[q] = now
      BY <1>8, <1>10 DEF IInv, TypeOK
    <2> QED
      BY <1>7, <1>9, <2>1 DEF Bounded
  <1>11. CASE q # s
    <2>1. search'[q] = search[q]
      BY <1>8, <1>11 DEF IInv, TypeOK
    <2> QED
      BY <2>1 DEF BInv, Bounded
  <1> QED
    BY <1>10, <1>11

LEMMA SearchStepBounded ==
  ASSUME IInv, BInv, NEW s \in Search, SearchStep(s)
  PROVE  BInv'
  <1>1. TypeOK /\ search[s] \in SearchState
    BY DEF IInv, TypeOK
  <1>2. CASE GeoSearch(s)
    <2>1. PICK raw : search' = [search EXCEPT
            ![s].pc = "probe", ![s].raw = raw, ![s].todo = raw \ search[s].exclude,
            ![s].seen = [d \in Driver |-> IF d \in raw THEN pos[d] ELSE 0]]
      BY <1>2 DEF GeoSearch
    <2> DEFINE now == [search[s] EXCEPT !.pc = "probe", !.raw = raw,
                          !.todo = raw \ search[s].exclude,
                          !.seen = [d \in Driver |-> IF d \in raw THEN pos[d] ELSE 0]]
    <2>2. search' = [search EXCEPT ![s] = now]
      BY <1>1, <2>1 DEF TypeOK
    <2>3. now.limit = search[s].limit /\ now.exclude = search[s].exclude
      BY <1>1 DEF SearchState
    <2>4. search[s].pc # "idle"
      BY <1>2 DEF GeoSearch
    <2> HIDE DEF now
    <2> QED
      BY <1>1, <2>2, <2>3, <2>4, LimitKept
  <1>3. ASSUME NEW d \in Driver, Probe(s, d) PROVE BInv'
    <2> DEFINE now == [search[s] EXCEPT !.todo = @ \ {d},
                          !.out = IF d \in fresh THEN @ \cup {d} ELSE @,
                          !.stale = IF d \in fresh THEN @ ELSE @ \cup {d}]
    <2>1. search' = [search EXCEPT ![s] = now]
      BY <1>1, <1>3 DEF Probe, TypeOK
    <2>2. now.limit = search[s].limit /\ now.exclude = search[s].exclude
      BY <1>1 DEF SearchState
    <2>3. search[s].pc # "idle"
      BY <1>3 DEF Probe
    <2> HIDE DEF now
    <2> QED
      BY <1>1, <2>1, <2>2, <2>3, LimitKept
  <1>4. ASSUME NEW d \in Driver, Clean(s, d) PROVE BInv'
    <2> DEFINE now == [search[s] EXCEPT !.stale = @ \ {d}]
    <2>1. search' = [search EXCEPT ![s] = now] /\ search[s].pc # "idle"
      BY <1>1, <1>4 DEF Clean, TypeOK
    <2>2. now.limit = search[s].limit /\ now.exclude = search[s].exclude
      BY <1>1 DEF SearchState
    <2> HIDE DEF now
    <2> QED
      BY <1>1, <2>1, <2>2, LimitKept
  <1>5. CASE Widen(s)
    BY <1>5, WidenBounded
  <1>6. CASE Answer(s)
    <2>1. PICK out : search' = [search EXCEPT ![s].pc = "done", ![s].out = out]
      BY <1>6 DEF Answer
    <2> DEFINE now == [search[s] EXCEPT !.pc = "done", !.out = out]
    <2>2. search' = [search EXCEPT ![s] = now] /\ search[s].pc # "idle"
      BY <1>1, <1>6, <2>1 DEF Answer, Finished, TypeOK
    <2>3. now.limit = search[s].limit /\ now.exclude = search[s].exclude
      BY <1>1 DEF SearchState
    <2> HIDE DEF now
    <2> QED
      BY <1>1, <2>2, <2>3, LimitKept
  <1>7. CASE Return(s)
    <2>1. search' = [search EXCEPT ![s] = IdleSearch] /\ IdleSearch.pc = "idle"
      BY <1>7 DEF Return, IdleSearch
    <2> QED
      BY <1>1, <2>1, LimitKept
  <1> QED
    BY <1>2, <1>3, <1>4, <1>5, <1>6, <1>7 DEF SearchStep

\* However drivers come, go and fall silent between two looks of a search, it
\* asks for no less than it began with and, widened, for no more than twice
\* the drivers there are; as it doubles what it asks for, it looks a bounded
\* number of times (_candidates_from_redis).
THEOREM SearchesBounded == Spec => []SearchesStayBounded
  <1>1. Init => BInv
    BY DEF Init, BInv, IdleSearch
  <1>2. ASSUME IInv, BInv, [Next]_vars PROVE BInv'
    <2>1. ASSUME UNCHANGED search PROVE BInv'
      BY <1>2, <2>1 DEF BInv, Bounded
    <2>2. CASE \E d \in Driver : DriverStep(d)
      BY <1>2, <2>1, <2>2, DriverStepSpares
    <2>3. CASE \E s \in Search, exclude \in SUBSET Driver : BeginSearch(s, exclude)
      BY <1>2, <2>3, BeginBounded
    <2>4. CASE \E s \in Search : SearchStep(s)
      BY <1>2, <2>4, SearchStepBounded
    <2>5. CASE SweepStep
      BY <2>1, <2>5 DEF SweepStep, BeginSweep, SweepProbe, SweepRemove, EndSweep
    <2>6. CASE UNCHANGED vars
      BY <2>1, <2>6 DEF vars
    <2> QED
      BY <1>2, <2>2, <2>3, <2>4, <2>5, <2>6 DEF Next
  <1>3. BInv => SearchesStayBounded
    BY DEF BInv, Bounded, SearchesStayBounded
  <1> QED
    BY <1>1, <1>2, <1>3, Invariance, PTL DEF Spec

=============================================================================
