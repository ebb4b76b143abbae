--------------------------- MODULE TripSimulation ---------------------------
(***************************************************************************)
(* What moves an accepted ride to its end: the in-process simulator        *)
(* (backend/sockets/handlers.py, RIDE_SIMULATOR=python) or the Node engine *)
(* (backend/ride_simulation_engine.js, RIDE_SIMULATOR=node).               *)
(*                                                                         *)
(* The first is a greenlet per ride.  The second keeps one record per      *)
(* driver, which timers, routing calls and the movement clock share, and   *)
(* sends its reports over a socket; the backend runs each report in a      *)
(* greenlet of its own, so they may take effect in any order.              *)
(***************************************************************************)
EXTENDS Naturals, Sequences

CONSTANTS Driver, Request,
          Simulators,  \* the settings of RIDE_SIMULATOR to consider
          MaxFaults,   \* bound on restarts and lost connections
          Null

ASSUME SimulatorsAssumption == Simulators \subseteq {"node", "python"}
ASSUME FaultsAssumption == MaxFaults \in Nat

VARIABLES mode,      \* RIDE_SIMULATOR
          ride,      \* the rides rows
          visited,   \* history: where each ride's car has been
          greenlet,  \* python: the steps each ride's greenlet has yet to report
          engine,    \* node: the drivers map
          starts,    \* node: start_simulation_ride messages under way
          reports,   \* node: ride_status_update messages under way
          fetching,  \* node: pending getRoadPath calls
          timers,    \* node: drivers with a pending setTimeout
          faults

backend == <<mode, ride>>
node == <<engine, starts, reports, fetching, timers>>
vars == <<mode, ride, visited, greenlet, engine, starts, reports, fetching,
          timers, faults>>

-----------------------------------------------------------------------------
PROGRESS_STEPS == <<"accepted", "heading_to_pickup", "at_restaurant",
                    "food_picked", "picked_up", "trip_started", "completed">>
FOOD_ONLY_STEPS == {"at_restaurant", "food_picked"}

Step == {PROGRESS_STEPS[i] : i \in 1 .. 7}

ASSUME NullAssumption == Null \notin Request \cup Step

Rank(step) == CHOOSE i \in 1 .. 7 : PROGRESS_STEPS[i] = step

\* The legs of a trip, and the place each one leads to.
Leg == {"TO_RESTAURANT", "TO_PICKUP", "TO_DROP"}

Itinerary(food) ==
  IF food THEN <<"TO_RESTAURANT", "TO_PICKUP", "TO_DROP">>
  ELSE <<"TO_PICKUP", "TO_DROP">>

\* _run_auto_ride_simulation reports these, and drives before some of them.
Script(food) ==
  IF food
  THEN <<"heading_to_pickup", "at_restaurant", "food_picked", "picked_up",
         "trip_started", "completed">>
  ELSE <<"heading_to_pickup", "picked_up", "trip_started", "completed">>

DrivenBefore(step) ==
  CASE step = "at_restaurant" -> {"TO_RESTAURANT"}
    [] step = "picked_up" -> {"TO_PICKUP"}
    [] step = "completed" -> {"TO_DROP"}
    [] OTHER -> {}

Ride == [driver : Driver \cup {Null}, food : BOOLEAN, step : Step \cup {Null}]

\* A path leads to the end of one leg of one ride.
Record == [request : Request \cup {Null}, hasFood : BOOLEAN,
           queue : Seq(Leg), state : Leg \cup {"IDLE", "WAITING"},
           path : (Request \X Leg) \cup {Null}]

NewRecord == [request |-> Null, hasFood |-> FALSE, queue |-> <<>>,
              state |-> "IDLE", path |-> Null]

TypeOK ==
  /\ mode \in Simulators
  /\ ride \in [Request -> Ride]
  /\ visited \in [Request -> SUBSET Leg]
  /\ greenlet \in [Request -> Seq(Step)]
  /\ engine \in [Driver -> Record]
  /\ starts \subseteq Request
  /\ reports \subseteq Request \X Step
  /\ fetching \subseteq Request \X Leg
  /\ timers \subseteq Driver
  /\ faults \in 0 .. MaxFaults

Init ==
  /\ mode \in Simulators
  /\ ride = [r \in Request |-> [driver |-> Null, food |-> FALSE, step |-> Null]]
  /\ visited = [r \in Request |-> {}]
  /\ greenlet = [r \in Request |-> <<>>]
  /\ engine = [d \in Driver |-> NewRecord]
  /\ starts = {} /\ reports = {} /\ fetching = {} /\ timers = {}
  /\ faults = 0

-----------------------------------------------------------------------------
(* The backend                                                             *)

OnTrip(r) == ride[r].step \notin {Null, "completed"}
Busy(d) == \E r \in Request : ride[r].driver = d /\ OnTrip(r)

AcceptOffer(r, d, food) ==
  /\ ride[r].step = Null /\ ~Busy(d)
  /\ ride' = [ride EXCEPT ![r] = [driver |-> d, food |-> food, step |-> "accepted"]]

\* accept_offer commits and _start_simulation follows.
StartSimulation(r, d, food) ==
  /\ AcceptOffer(r, d, food)
  /\ IF mode = "node"
     THEN starts' = starts \cup {r} /\ UNCHANGED greenlet
     ELSE greenlet' = [greenlet EXCEPT ![r] = Script(food)] /\ UNCHANGED starts
  /\ UNCHANGED <<mode, visited, engine, reports, fetching, timers, faults>>

\* Mutant: a ride is completed from trip_started only.
AcceptsInTurn(r, step) ==
  /\ OnTrip(r)
  /\ step \in FOOD_ONLY_STEPS => ride[r].food
  /\ Rank(step) > Rank(ride[r].step)
  /\ step = "completed" => ride[r].step = "trip_started"

\* update_progress takes the step.
Accepts(r, step) ==
  /\ OnTrip(r)
  /\ step \in FOOD_ONLY_STEPS => ride[r].food
  /\ Rank(step) > Rank(ride[r].step)

ApplyProgress(r, step) ==
  ride' = IF Accepts(r, step) THEN [ride EXCEPT ![r].step = step] ELSE ride

\* _run_auto_ride_simulation drives and reports; a refusal ends it.
Simulate(r) ==
  LET step == Head(greenlet[r])
  IN /\ greenlet[r] # <<>>
     /\ visited' = [visited EXCEPT ![r] = @ \cup DrivenBefore(step)]
     /\ ApplyProgress(r, step)
     /\ greenlet' = [greenlet EXCEPT ![r] = IF Accepts(r, step) THEN Tail(@) ELSE <<>>]
     /\ UNCHANGED <<mode, faults>> /\ UNCHANGED node

\* handle_ride_status
Receive(r, step) ==
  /\ <<r, step>> \in reports
  /\ reports' = reports \ {<<r, step>>}
  /\ ApplyProgress(r, step)
  /\ UNCHANGED <<mode, visited, greenlet, engine, starts, fetching, timers, faults>>

-----------------------------------------------------------------------------
(* The Node engine                                                         *)

Departure(e) ==
  IF e.queue = <<>> THEN "completed"
  ELSE CASE Head(e.queue) = "TO_PICKUP" /\ e.hasFood -> "food_picked"
         [] Head(e.queue) = "TO_DROP" -> "trip_started"
         [] OTHER -> "heading_to_pickup"

\* startNextLeg, as far as its await, for a driver whose record is e.
StartNextLeg(d, e) ==
  /\ reports' = reports \cup {<<e.request, Departure(e)>>}
  /\ IF e.queue = <<>>
     THEN engine' = [engine EXCEPT ![d] = [e EXCEPT !.state = "IDLE"]] /\ UNCHANGED fetching
     ELSE /\ engine' = [engine EXCEPT ![d] =
                          [e EXCEPT !.state = Head(e.queue), !.queue = Tail(e.queue)]]
          /\ fetching' = fetching \cup {<<e.request, Head(e.queue)>>}

\* Mutant: hasFood is left as the last ride set it.
StartRideKeepingFood(r) ==
  LET d == ride[r].driver
  IN /\ r \in starts
     /\ starts' = starts \ {r}
     /\ StartNextLeg(d, [engine[d] EXCEPT !.request = r,
                                          !.queue = Itinerary(ride[r].food)])
     /\ UNCHANGED backend /\ UNCHANGED <<visited, greenlet, timers, faults>>

StartRide(r) ==
  LET d == ride[r].driver
  IN /\ r \in starts
     /\ starts' = starts \ {r}
     /\ StartNextLeg(d, [engine[d] EXCEPT !.request = r, !.hasFood = FALSE,
                                          !.queue = Itinerary(ride[r].food)])
     /\ UNCHANGED backend /\ UNCHANGED <<visited, greenlet, timers, faults>>

\* getRoadPath answers with a path, or with null.
RouteFound(x) ==
  /\ x \in fetching
  /\ fetching' = fetching \ {x}
  /\ engine' = [engine EXCEPT ![ride[x[1]].driver].path = x]
  /\ UNCHANGED backend
  /\ UNCHANGED <<visited, greenlet, starts, reports, timers, faults>>

RouteFails(x) ==
  /\ x \in fetching
  /\ fetching' = fetching \ {x}
  /\ engine' = [engine EXCEPT ![ride[x[1]].driver].path = Null]
  /\ UNCHANGED backend
  /\ UNCHANGED <<visited, greenlet, starts, reports, timers, faults>>

\* The movement clock has taken the car along its path.
AtEnd(d) == engine[d].state \in Leg /\ engine[d].path # Null

Visit(path) == visited' = [visited EXCEPT ![path[1]] = @ \cup {path[2]}]

\* Mutant: the path that was driven is kept.
KeepPath(d) == engine[d]

ClearPath(d) == [engine[d] EXCEPT !.path = Null]

\* handleArrival at the restaurant or the pickup: a timer is set.
ArriveAndWait(d) ==
  /\ AtEnd(d) /\ engine[d].state \in {"TO_RESTAURANT", "TO_PICKUP"}
  /\ Visit(engine[d].path)
  /\ engine' = [engine EXCEPT ![d] =
                  [ClearPath(d) EXCEPT !.state = "WAITING",
                                       !.hasFood = @ \/ engine[d].state = "TO_RESTAURANT"]]
  /\ reports' = reports \cup
       {<<engine[d].request,
          IF engine[d].state = "TO_RESTAURANT" THEN "at_restaurant" ELSE "picked_up">>}
  /\ timers' = timers \cup {d}
  /\ UNCHANGED backend /\ UNCHANGED <<greenlet, starts, fetching, faults>>

\* Mutant: the last arrival is not reported.
ArriveAtDropSilently(d) ==
  /\ AtEnd(d) /\ engine[d].state = "TO_DROP"
  /\ Visit(engine[d].path)
  /\ engine' = [engine EXCEPT ![d] = [ClearPath(d) EXCEPT !.state = "IDLE"]]
  /\ UNCHANGED backend
  /\ UNCHANGED <<greenlet, starts, reports, fetching, timers, faults>>

ArriveAtDrop(d) ==
  /\ AtEnd(d) /\ engine[d].state = "TO_DROP"
  /\ Visit(engine[d].path)
  /\ StartNextLeg(d, ClearPath(d))
  /\ UNCHANGED backend /\ UNCHANGED <<greenlet, starts, timers, faults>>

TimerFires(d) ==
  /\ d \in timers
  /\ timers' = timers \ {d}
  /\ StartNextLeg(d, engine[d])
  /\ UNCHANGED backend /\ UNCHANGED <<visited, greenlet, starts, faults>>

-----------------------------------------------------------------------------
(* Failures.  Postgres keeps the rides.                                    *)

Fault == faults < MaxFaults /\ faults' = faults + 1

\* The backend restarts: its greenlets and the messages under way are gone.
BackendRestarts ==
  /\ Fault
  /\ greenlet' = [r \in Request |-> <<>>]
  /\ starts' = {}
  /\ reports' \in SUBSET reports  \* what the engine resends when it reconnects
  /\ UNCHANGED backend /\ UNCHANGED <<visited, engine, fetching, timers>>

\* The accept's handler raises after the commit, for instance when it joins the
\* ride's room for a socket that has closed: no simulation is started.
StartFails(r, d, food) ==
  /\ Fault
  /\ AcceptOffer(r, d, food)
  /\ UNCHANGED <<mode, visited, greenlet>> /\ UNCHANGED node

EngineRestarts ==
  /\ Fault /\ mode = "node"
  /\ engine' = [d \in Driver |-> NewRecord]
  /\ fetching' = {} /\ timers' = {} /\ starts' = {}
  /\ reports' \in SUBSET reports
  /\ UNCHANGED backend /\ UNCHANGED <<visited, greenlet>>

-----------------------------------------------------------------------------
EngineStep ==
  \/ \E r \in Request : StartRide(r)
  \/ \E x \in fetching : RouteFound(x) \/ RouteFails(x)
  \/ \E d \in Driver : ArriveAndWait(d) \/ ArriveAtDrop(d) \/ TimerFires(d)

Next ==
  \/ \E r \in Request, d \in Driver, food \in BOOLEAN :
       StartSimulation(r, d, food) \/ StartFails(r, d, food)
  \/ \E r \in Request : Simulate(r)
  \/ \E r \in Request, step \in Step : Receive(r, step)
  \/ EngineStep
  \/ BackendRestarts
  \/ EngineRestarts

Spec == Init /\ [][Next]_vars

(* Greenlets run, messages arrive, timers fire, calls return, the clock    *)
(* ticks; drivers need not take any ride.                                  *)
Fairness ==
  /\ \A r \in Request : WF_vars(Simulate(r)) /\ WF_vars(StartRide(r))
  /\ \A r \in Request, step \in Step : WF_vars(Receive(r, step))
  /\ \A x \in Request \X Leg : WF_vars(RouteFound(x) \/ RouteFails(x))
  /\ \A d \in Driver :
       WF_vars(ArriveAndWait(d)) /\ WF_vars(ArriveAtDrop(d)) /\ WF_vars(TimerFires(d))

FairSpec == Spec /\ Fairness

-----------------------------------------------------------------------------
\* A step is never refused for what it is: the engine reports food steps on
\* food rides only, although a driver's record outlives the ride that set it
\* (ride_simulation_engine.js:73), so a refusal only ever means "late".
ReportsFitRides ==
  \A x \in reports :
    x[2] \in FOOD_ONLY_STEPS => ride[x[1]].food

\* A ride says only what its car has done: it is not at the restaurant, past
\* the pickup or completed unless the car has driven there for this ride, in
\* whatever order the reports take effect and after any restart.
ProgressIsDriven ==
  \A r \in Request :
    ride[r].step # Null =>
      /\ Rank(ride[r].step) >= Rank("at_restaurant") /\ ride[r].food
         => "TO_RESTAURANT" \in visited[r]
      /\ Rank(ride[r].step) >= Rank("picked_up") => "TO_PICKUP" \in visited[r]
      /\ ride[r].step = "completed" => "TO_DROP" \in visited[r]

\* The engine has a leg to drive for r, and neither a path nor a call for one.
Stranded(r) ==
  /\ mode = "node"
  /\ \E d \in Driver :
       /\ engine[d].request = r /\ engine[d].state \in Leg /\ engine[d].path = Null
       /\ <<r, engine[d].state>> \notin fetching

\* Something is pending that will bring r forward.
UnderWay(r) ==
  \/ greenlet[r] # <<>> \/ r \in starts \/ <<r, "completed">> \in reports
  \/ \E d \in Driver :
       /\ engine[d].request = r
       /\ d \in timers \/ AtEnd(d) \/ <<r, engine[d].state>> \in fetching

\* No trip is dropped: while a ride is on the way its greenlet, its start, a
\* timer, a routing call, a path or the report that completes it is pending,
\* although reports overtake each other (update_progress refuses the late
\* ones, ride_service.py:493) and the record of its driver is overwritten by
\* the next ride.
TripsAreCarriedOn ==
  \A r \in Request : OnTrip(r) => UnderWay(r) \/ Stranded(r) \/ faults > 0

\* Only a routing failure of the Node engine, a restart or a lost start
\* keeps a ride from being completed; the in-process simulator needs no route.
TripsEnd ==
  \A r \in Request : OnTrip(r) ~> ~OnTrip(r) \/ Stranded(r) \/ faults > 0
=============================================================================
