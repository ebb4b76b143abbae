------------------------ MODULE TripSimulation_proofs ------------------------
(***************************************************************************)
(* What a ride says is what its car has done, for any number of drivers    *)
(* and rides: ReportsFitRides and ProgressIsDriven follow from an          *)
(* invariant that ties each engine record to the ride it serves, and each  *)
(* greenlet to the legs it has yet to drive.                               *)
(***************************************************************************)
EXTENDS TripSimulation, SequenceTheorems, TLAPS

\* The legs that lie behind a ride that says step.
Needed(food, step) ==
  {leg \in Leg :
     \/ leg = "TO_RESTAURANT" /\ food /\ Rank(step) >= 3
     \/ leg = "TO_PICKUP" /\ Rank(step) >= 5
     \/ leg = "TO_DROP" /\ step = "completed"}

RideOK(r) ==
  ride[r].step # Null =>
    ride[r].driver \in Driver /\ Needed(ride[r].food, ride[r].step) \subseteq visited[r]

OneTripEach ==
  \A r1, r2 \in Request :
    OnTrip(r1) /\ OnTrip(r2) /\ ride[r1].driver = ride[r2].driver => r1 = r2

\* The two simulators are never both at work.
OneSimulator ==
  IF mode = "python"
  THEN starts = {} /\ reports = {} /\ \A d \in Driver : engine[d].request = Null
  ELSE \A r \in Request : greenlet[r] = <<>>

\* Before each step it reports, a greenlet has driven what the step needs.
GreenletOK(r) ==
  /\ ride[r].step = Null => greenlet[r] = <<>>
  /\ \A j \in 1 .. Len(greenlet[r]) : \A leg \in Needed(ride[r].food, greenlet[r][j]) :
       leg \in visited[r] \/ \E k \in 1 .. j : leg \in DrivenBefore(greenlet[r][k])

StartOK(r) == OnTrip(r) /\ <<r, "completed">> \notin reports

ReportOK(x) ==
  /\ ride[x[1]].step # Null
  /\ x[2] \in FOOD_ONLY_STEPS => ride[x[1]].food
  /\ Needed(ride[x[1]].food, x[2]) \subseteq visited[x[1]]

\* A call for a path is the current one of the record it answers to.
FetchOK(x) ==
  LET d == ride[x[1]].driver
  IN /\ d \in Driver
     /\ engine[d].request = x[1] /\ engine[d].state = x[2] /\ engine[d].path = Null

Been(r, leg) == leg \in visited[r]
Fed(r) == ride[r].food => Been(r, "TO_RESTAURANT")

\* Where the record of a ride r under way stands.
StageOK(r, e) ==
  \/ e.state = "TO_RESTAURANT" /\ e.queue = <<"TO_PICKUP", "TO_DROP">> /\ ride[r].food
  \/ /\ e.state = "WAITING" /\ e.queue = <<"TO_PICKUP", "TO_DROP">>
     /\ ride[r].food /\ Been(r, "TO_RESTAURANT")
  \/ e.state = "TO_PICKUP" /\ e.queue = <<"TO_DROP">> /\ Fed(r)
  \/ e.state = "WAITING" /\ e.queue = <<"TO_DROP">> /\ Fed(r) /\ Been(r, "TO_PICKUP")
  \/ e.state = "TO_DROP" /\ e.queue = <<>> /\ Fed(r) /\ Been(r, "TO_PICKUP")

\* A record serves a started ride of its driver; a ride that is, or is about
\* to be, completed has no work left in it.
ServesOK(d, r, e) ==
  /\ ride[r].driver = d /\ ride[r].step # Null /\ r \notin starts
  /\ e.hasFood => ride[r].food
  /\ e.state # "IDLE" =>
       /\ StageOK(r, e)
       /\ ride[r].step # "completed" /\ <<r, "completed">> \notin reports

RecordOK(d) ==
  /\ engine[d].path # Null =>
       engine[d].state \in Leg /\ engine[d].path = <<engine[d].request, engine[d].state>>
  /\ IF engine[d].request = Null
     THEN engine[d].state = "IDLE"
     ELSE ServesOK(d, engine[d].request, engine[d])

NodeOK ==
  /\ \A r \in starts : StartOK(r)
  /\ \A x \in reports : ReportOK(x)
  /\ \A x \in fetching : FetchOK(x)
  /\ \A d \in timers : engine[d].state = "WAITING"
  /\ \A d \in Driver : RecordOK(d)

IInv ==
  /\ TypeOK
  /\ \A r \in Request : RideOK(r) /\ GreenletOK(r)
  /\ OneTripEach /\ OneSimulator /\ NodeOK

-----------------------------------------------------------------------------
(* Steps and the legs behind them.                                         *)

LEMMA Ranks ==
  /\ Rank("accepted") = 1 /\ Rank("heading_to_pickup") = 2
  /\ Rank("at_restaurant") = 3 /\ Rank("food_picked") = 4
  /\ Rank("picked_up") = 5 /\ Rank("trip_started") = 6 /\ Rank("completed") = 7
  <1>1. \A i, j \in 1 .. 7 : PROGRESS_STEPS[i] = PROGRESS_STEPS[j] => i = j
    BY DEF PROGRESS_STEPS
  <1>2. ASSUME NEW i \in 1 .. 7 PROVE Rank(PROGRESS_STEPS[i]) = i
    <2>1. \A j \in 1 .. 7 : PROGRESS_STEPS[j] = PROGRESS_STEPS[i] <=> j = i
      BY <1>1
    <2> QED
      BY <2>1 DEF Rank
  <1> QED
    BY <1>2 DEF PROGRESS_STEPS

LEMMA Steps ==
  Step = {"accepted", "heading_to_pickup", "at_restaurant", "food_picked",
          "picked_up", "trip_started", "completed"}
  BY DEF Step, PROGRESS_STEPS

LEMMA NeededLegs ==
  ASSUME NEW food \in BOOLEAN
  PROVE  LET first == IF food THEN {"TO_RESTAURANT"} ELSE {}
         IN /\ Needed(food, "accepted") = {}
            /\ Needed(food, "heading_to_pickup") = {}
            /\ Needed(food, "at_restaurant") = first
            /\ Needed(food, "food_picked") = first
            /\ Needed(food, "picked_up") = first \cup {"TO_PICKUP"}
            /\ Needed(food, "trip_started") = first \cup {"TO_PICKUP"}
            /\ Needed(food, "completed") = first \cup {"TO_PICKUP", "TO_DROP"}
  BY Ranks DEF Needed, Leg

LEMMA NullIsNoStep == Null \notin Step /\ Null \notin Request
  BY NullAssumption

-----------------------------------------------------------------------------
(* The backend's steps.                                                    *)

\* No greenlet waits for the Node engine's rides, nor the other way round.
LEMMA PythonAlone ==
  ASSUME IInv, mode = "python"
  PROVE  starts = {} /\ reports = {} /\ fetching = {} /\ timers = {}
  <1>1. starts = {} /\ reports = {} /\ \A d \in Driver : engine[d].request = Null
    BY DEF IInv, OneSimulator
  <1>2. fetching = {}
    <2> SUFFICES ASSUME NEW x \in fetching PROVE FALSE
      OBVIOUS
    <2>1. x[1] \in Request
      BY DEF IInv, TypeOK
    <2>2. FetchOK(x)
      BY DEF IInv, NodeOK
    <2> QED
      BY <1>1, <2>1, <2>2, NullIsNoStep DEF FetchOK
  <1>3. timers = {}
    <2> SUFFICES ASSUME NEW d \in timers PROVE FALSE
      OBVIOUS
    <2>1. d \in Driver
      BY DEF IInv, TypeOK
    <2>2. engine[d].state = "WAITING" /\ RecordOK(d)
      BY <2>1 DEF IInv, NodeOK
    <2> QED
      BY <1>1, <2>1, <2>2 DEF RecordOK
  <1> QED
    BY <1>1, <1>2, <1>3

\* What applying a reported step to a ride leaves true of the rides.
LEMMA ProgressKeeps ==
  ASSUME IInv, NEW r \in Request, NEW step \in Step, ApplyProgress(r, step),
         visited' \in [Request -> SUBSET Leg],
         \A q \in Request : visited[q] \subseteq visited'[q],
         OnTrip(r) => Needed(ride[r].food, step) \subseteq visited'[r]
  PROVE  /\ ride' \in [Request -> Ride]
         /\ \A q \in Request :
              /\ ride'[q].driver = ride[q].driver /\ ride'[q].food = ride[q].food
              /\ ride'[q].step = IF q = r /\ Accepts(r, step) THEN step ELSE ride[q].step
              /\ ride'[q].step = Null <=> ride[q].step = Null
              /\ RideOK(q)'
         /\ OneTripEach'
  <1>1. ride \in [Request -> Ride]
    BY DEF IInv, TypeOK
  <1>2. ride' \in [Request -> Ride]
    BY <1>1 DEF ApplyProgress, Ride
  <1>3. ASSUME NEW q \in Request
        PROVE  /\ ride'[q].driver = ride[q].driver /\ ride'[q].food = ride[q].food
               /\ ride'[q].step = IF q = r /\ Accepts(r, step) THEN step ELSE ride[q].step
    BY <1>1 DEF ApplyProgress, Ride
  <1>4. ASSUME NEW q \in Request PROVE ride'[q].step = Null <=> ride[q].step = Null
    BY <1>3, NullIsNoStep DEF Accepts, OnTrip
  <1>5. ASSUME NEW q \in Request PROVE RideOK(q)'
    <2>1. RideOK(q)
      BY DEF IInv
    <2>2. CASE q = r /\ Accepts(r, step)
      <3>1. OnTrip(r) /\ ride[r].step # Null
        BY <2>2 DEF Accepts, OnTrip
      <3> QED
        BY <1>3, <2>1, <2>2, <3>1 DEF RideOK
    <2>3. CASE ~(q = r /\ Accepts(r, step))
      BY <1>3, <2>1, <2>3 DEF RideOK
    <2> QED
      BY <2>2, <2>3
  <1>6. ASSUME NEW q \in Request, OnTrip(q)' PROVE OnTrip(q)
    BY <1>3, <1>4, <1>6 DEF OnTrip, Accepts
  <1>7. OneTripEach'
    BY <1>3, <1>6 DEF IInv, OneTripEach
  <1> QED
    BY <1>2, <1>3, <1>4, <1>5, <1>7

LEMMA SimulateKeeps ==
  ASSUME IInv, NEW r \in Request, Simulate(r) PROVE IInv'
  <1> DEFINE g == greenlet[r]  step == Head(g)
  <1>1. /\ g \in Seq(Step) /\ g # <<>> /\ step \in Step /\ step = g[1]
        /\ Tail(g) \in Seq(Step)
    BY DEF Simulate, IInv, TypeOK
  <1>2. mode = "python"
    BY <1>1 DEF IInv, OneSimulator
  <1>3. starts = {} /\ reports = {} /\ fetching = {} /\ timers = {}
    BY <1>2, PythonAlone
  <1>4. /\ visited' \in [Request -> SUBSET Leg]
        /\ visited'[r] = visited[r] \cup DrivenBefore(step)
        /\ \A q \in Request \ {r} : visited'[q] = visited[q]
    BY DEF Simulate, IInv, TypeOK, DrivenBefore, Leg
  <1>5. Needed(ride[r].food, step) \subseteq visited'[r]
    <2>1. \A leg \in Needed(ride[r].food, g[1]) :
            leg \in visited[r] \/ \E k \in 1 .. 1 : leg \in DrivenBefore(g[k])
      BY <1>1 DEF IInv, GreenletOK
    <2> QED
      BY <1>1, <1>4, <2>1
  <1>6. /\ ride' \in [Request -> Ride] /\ OneTripEach'
        /\ \A q \in Request :
             RideOK(q)' /\ ride'[q].food = ride[q].food
    <2>1. ApplyProgress(r, step) /\ \A q \in Request : visited[q] \subseteq visited'[q]
      BY <1>4 DEF Simulate
    <2> QED
      BY <1>1, <1>4, <1>5, <2>1, ProgressKeeps
  <1>7. /\ greenlet' \in [Request -> Seq(Step)]
        /\ greenlet'[r] = Tail(g) \/ greenlet'[r] = <<>>
        /\ \A q \in Request \ {r} : greenlet'[q] = greenlet[q]
    BY <1>1 DEF Simulate, IInv, TypeOK
  \* A ride with a greenlet has been accepted.
  <1>12. ASSUME NEW q \in Request, ride'[q].step = Null
         PROVE  q # r /\ ride[q].step = Null
    <2>1. ride[r].step # Null
      BY <1>1 DEF IInv, GreenletOK
    <2>2. ride' = ride \/ ride' = [ride EXCEPT ![r].step = step]
      BY DEF Simulate, ApplyProgress
    <2>3. ride \in [Request -> Ride] /\ step # Null
      BY <1>1, NullIsNoStep DEF IInv, TypeOK
    <2> QED
      BY <1>12, <2>1, <2>2, <2>3 DEF Ride
  <1>8. ASSUME NEW q \in Request PROVE GreenletOK(q)'
    <2>1. GreenletOK(q)
      BY DEF IInv
    <2>2. CASE q # r
      BY <1>4, <1>6, <1>7, <1>12, <2>1, <2>2 DEF GreenletOK
    <2>3. CASE q = r /\ greenlet'[r] = <<>>
      BY <2>3 DEF GreenletOK
    <2>4. CASE q = r /\ greenlet'[r] = Tail(g)
      <3> SUFFICES ASSUME NEW j \in 1 .. Len(Tail(g)),
                          NEW leg \in Needed(ride[r].food, Tail(g)[j]), leg \notin visited'[r]
                   PROVE  \E k \in 1 .. j : leg \in DrivenBefore(Tail(g)[k])
        BY <1>6, <1>12, <2>4 DEF GreenletOK
      <3>1. /\ Len(Tail(g)) = Len(g) - 1
            /\ \A k \in 1 .. Len(g) - 1 : Tail(g)[k] = g[k + 1]
        BY <1>1
      <3>2. j + 1 \in 1 .. Len(g) /\ Tail(g)[j] = g[j + 1]
        BY <1>1, <3>1
      <3>3. PICK k \in 1 .. j + 1 : leg \in DrivenBefore(g[k])
        BY <1>4, <2>1, <2>4, <3>2 DEF GreenletOK
      <3>4. k # 1
        BY <1>1, <1>4, <3>3
      <3>5. k - 1 \in 1 .. j /\ Tail(g)[k - 1] = g[k]
        BY <1>1, <3>1, <3>3, <3>4
      <3> QED
        BY <3>3, <3>5
    <2> QED
      BY <1>7, <2>2, <2>3, <2>4
  <1>9. TypeOK'
    BY <1>4, <1>6, <1>7 DEF Simulate, node, IInv, TypeOK
  <1>10. OneSimulator' /\ \A d \in Driver : engine[d].request = Null
    BY <1>2 DEF Simulate, node, IInv, OneSimulator
  <1>11. NodeOK'
    <2>1. ASSUME NEW d \in Driver PROVE RecordOK(d)'
      BY <1>10 DEF Simulate, node, IInv, NodeOK, RecordOK
    <2> QED
      BY <1>3, <2>1 DEF Simulate, node, NodeOK
  <1> QED
    BY <1>6, <1>8, <1>9, <1>10, <1>11 DEF IInv

LEMMA ReceiveKeeps ==
  ASSUME IInv, NEW r \in Request, NEW step \in Step, Receive(r, step) PROVE IInv'
  <1>1. <<r, step>> \in reports /\ ReportOK(<<r, step>>)
    BY DEF Receive, IInv, NodeOK
  <1>2. UNCHANGED <<mode, visited, greenlet, engine, starts, fetching, timers, faults>>
        /\ reports' \subseteq reports /\ ApplyProgress(r, step)
    BY DEF Receive
  <1>3. /\ ride' \in [Request -> Ride] /\ OneTripEach'
        /\ \A q \in Request :
             /\ ride'[q].driver = ride[q].driver /\ ride'[q].food = ride[q].food
             /\ ride'[q].step = IF q = r /\ Accepts(r, step) THEN step ELSE ride[q].step
             /\ ride'[q].step = Null <=> ride[q].step = Null
             /\ RideOK(q)'
    <2>1. Needed(ride[r].food, step) \subseteq visited'[r]
      BY <1>1, <1>2 DEF ReportOK
    <2>2. visited' \in [Request -> SUBSET Leg] /\ \A q \in Request : visited[q] \subseteq visited'[q]
      BY <1>2 DEF IInv, TypeOK
    <2> QED
      BY <1>2, <2>1, <2>2, ProgressKeeps
  <1>4. TypeOK' /\ OneSimulator'
    BY <1>1, <1>2, <1>3 DEF IInv, TypeOK, OneSimulator
  <1>5. ASSUME NEW q \in Request PROVE GreenletOK(q)'
    BY <1>2, <1>3 DEF IInv, GreenletOK
  \* A step that a ride must not have yet is not the one that is received.
  <1>6. ASSUME NEW q \in Request, ride[q].step # "completed", <<q, "completed">> \notin reports
        PROVE  ride'[q].step # "completed" /\ <<q, "completed">> \notin reports'
    BY <1>1, <1>2, <1>3, <1>6
  <1>7. ASSUME NEW q \in starts PROVE StartOK(q)'
    BY <1>3, <1>6 DEF IInv, TypeOK, NodeOK, StartOK, OnTrip
  <1>8. ASSUME NEW x \in reports PROVE ReportOK(x)'
    <2>1. x[1] \in Request /\ ReportOK(x)
      BY DEF IInv, TypeOK, NodeOK
    <2> QED
      BY <1>2, <1>3, <2>1 DEF ReportOK
  <1>9. ASSUME NEW x \in fetching PROVE FetchOK(x)'
    <2>1. x[1] \in Request /\ FetchOK(x)
      BY DEF IInv, TypeOK, NodeOK
    <2> QED
      BY <1>2, <1>3, <2>1 DEF FetchOK
  <1>10. ASSUME NEW d \in Driver PROVE RecordOK(d)'
    <2>1. RecordOK(d) /\ engine[d].request \in Request \cup {Null}
      BY DEF IInv, TypeOK, NodeOK, Record
    <2> QED
      BY <1>2, <1>3, <1>6, <2>1 DEF RecordOK, ServesOK, StageOK, Fed, Been
  <1> QED
    BY <1>2, <1>3, <1>4, <1>5, <1>7, <1>8, <1>9, <1>10 DEF IInv, NodeOK

\* A script reports no step before the legs behind it are driven.
LEMMA ScriptOK ==
  ASSUME NEW food \in BOOLEAN, NEW j \in 1 .. Len(Script(food)),
         NEW leg \in Needed(food, Script(food)[j])
  PROVE  \E k \in 1 .. j : leg \in DrivenBefore(Script(food)[k])
  <1>1. CASE food
    <2> DEFINE s == <<"heading_to_pickup", "at_restaurant", "food_picked", "picked_up",
                      "trip_started", "completed">>
    <2>1. Script(food) = s /\ Len(s) = 6
      BY <1>1 DEF Script
    <2>2. /\ leg = "TO_RESTAURANT" => j >= 2 /\ leg \in DrivenBefore(s[2])
          /\ leg = "TO_PICKUP" => j >= 4 /\ leg \in DrivenBefore(s[4])
          /\ leg = "TO_DROP" => j >= 6 /\ leg \in DrivenBefore(s[6])
          /\ leg \in {"TO_RESTAURANT", "TO_PICKUP", "TO_DROP"}
      <3>1. j \in {1, 2, 3, 4, 5, 6}
        BY <2>1
      <3>2. /\ s[1] = "heading_to_pickup" /\ s[2] = "at_restaurant" /\ s[3] = "food_picked"
            /\ s[4] = "picked_up" /\ s[5] = "trip_started" /\ s[6] = "completed"
        OBVIOUS
      <3> HIDE DEF s
      <3>3. /\ leg \in Leg
            /\ leg = "TO_RESTAURANT" => food /\ Rank(s[j]) >= 3
            /\ leg = "TO_PICKUP" => Rank(s[j]) >= 5
            /\ leg = "TO_DROP" => s[j] = "completed"
        BY <2>1 DEF Needed
      <3> QED
        BY <1>1, <3>1, <3>2, <3>3, Ranks DEF Leg, DrivenBefore
    <2> QED
      BY <2>1, <2>2
  <1>2. CASE ~food
    <2> DEFINE s == <<"heading_to_pickup", "picked_up", "trip_started", "completed">>
    <2>1. Script(food) = s /\ Len(s) = 4
      BY <1>2 DEF Script
    <2>2. /\ leg = "TO_PICKUP" => j >= 2 /\ leg \in DrivenBefore(s[2])
          /\ leg = "TO_DROP" => j >= 4 /\ leg \in DrivenBefore(s[4])
          /\ leg \in {"TO_PICKUP", "TO_DROP"}
      <3>1. j \in {1, 2, 3, 4}
        BY <2>1
      <3>2. /\ s[1] = "heading_to_pickup" /\ s[2] = "picked_up"
            /\ s[3] = "trip_started" /\ s[4] = "completed"
        OBVIOUS
      <3> HIDE DEF s
      <3>3. /\ leg \in Leg
            /\ leg = "TO_RESTAURANT" => food /\ Rank(s[j]) >= 3
            /\ leg = "TO_PICKUP" => Rank(s[j]) >= 5
            /\ leg = "TO_DROP" => s[j] = "completed"
        BY <2>1 DEF Needed
      <3> QED
        BY <1>2, <3>1, <3>2, <3>3, Ranks DEF Leg, DrivenBefore
    <2> QED
      BY <2>1, <2>2
  <1> QED
    BY <1>1, <1>2

\* Nothing knows of a ride before its accept.
LEMMA NothingBeforeAccept ==
  ASSUME IInv, NEW r \in Request, ride[r].step = Null
  PROVE  /\ r \notin starts /\ \A x \in reports : x[1] # r
         /\ \A q \in Driver : engine[q].request # r
         /\ \A x \in fetching : x[1] # r
         /\ greenlet[r] = <<>>
  <1>1. r \notin starts /\ \A x \in reports : x[1] # r
    BY DEF IInv, NodeOK, StartOK, OnTrip, ReportOK
  <1>2. ASSUME NEW q \in Driver PROVE engine[q].request # r
    BY NullIsNoStep DEF IInv, NodeOK, RecordOK, ServesOK
  <1>3. ASSUME NEW x \in fetching PROVE x[1] # r
    BY <1>2 DEF IInv, NodeOK, FetchOK
  <1> QED
    BY <1>1, <1>2, <1>3 DEF IInv, GreenletOK

LEMMA StartSimulationKeeps ==
  ASSUME IInv, NEW r \in Request, NEW d \in Driver, NEW food \in BOOLEAN,
         StartSimulation(r, d, food)
  PROVE  IInv'
  <1>1. /\ ride[r].step = Null /\ ~Busy(d)
        /\ UNCHANGED <<mode, visited, engine, reports, fetching, timers, faults>>
    BY DEF StartSimulation, AcceptOffer
  <1>2. /\ ride' \in [Request -> Ride]
        /\ ride'[r] = [driver |-> d, food |-> food, step |-> "accepted"]
        /\ \A q \in Request \ {r} : ride'[q] = ride[q]
    BY Steps DEF StartSimulation, AcceptOffer, Ride, IInv, TypeOK
  <1>3. /\ greenlet' \in [Request -> Seq(Step)]
        /\ \A q \in Request \ {r} : greenlet'[q] = greenlet[q]
        /\ mode = "node" => greenlet' = greenlet /\ starts' = starts \cup {r}
        /\ mode # "node" => greenlet'[r] = Script(food) /\ starts' = starts
    <2>1. CASE food
      <3>1. Script(food) \in Seq(Step)
        BY <2>1, Steps DEF Script
      <3> QED
        BY <3>1 DEF StartSimulation, IInv, TypeOK
    <2>2. CASE ~food
      <3>1. Script(food) \in Seq(Step)
        BY <2>2, Steps DEF Script
      <3> QED
        BY <3>1 DEF StartSimulation, IInv, TypeOK
    <2> QED
      BY <2>1, <2>2
  <1>4. mode \in {"node", "python"}
    BY SimulatorsAssumption DEF IInv, TypeOK
  <1>5. TypeOK'
    BY <1>1, <1>2, <1>3, <1>4 DEF IInv, TypeOK
  <1>6. /\ r \notin starts /\ \A x \in reports : x[1] # r
        /\ \A q \in Driver : engine[q].request # r
        /\ \A x \in fetching : x[1] # r
    BY <1>1, NothingBeforeAccept
  <1>7. ASSUME NEW q \in Request PROVE RideOK(q)'
    <2>1. CASE q = r
      BY <1>2, <2>1, NeededLegs DEF RideOK
    <2>2. CASE q # r
      BY <1>1, <1>2, <2>2 DEF IInv, RideOK
    <2> QED
      BY <2>1, <2>2
  <1>8. ASSUME NEW q \in Request PROVE GreenletOK(q)'
    <2>1. CASE q # r
      <3>1. ride'[q] = ride[q] /\ greenlet'[q] = greenlet[q] /\ visited' = visited
        BY <1>1, <1>2, <1>3, <2>1
      <3> QED
        BY <3>1 DEF IInv, GreenletOK
    <2>2. CASE q = r /\ mode = "node"
      BY <1>3, <2>2 DEF IInv, OneSimulator, GreenletOK
    <2>3. CASE q = r /\ mode = "python"
      <3>1. /\ greenlet'[q] = Script(food) /\ ride'[q].food = food
            /\ ride'[q].step # Null
        BY <1>2, <1>3, <2>3, NullIsNoStep, Steps
      <3> QED
        BY <3>1, ScriptOK DEF GreenletOK
    <2> QED
      BY <1>4, <2>1, <2>2, <2>3
  <1>9. OneTripEach'
    <2>1. ASSUME NEW q \in Request, q # r, OnTrip(q)' PROVE OnTrip(q) /\ ride'[q].driver # d
      BY <1>1, <1>2, <2>1 DEF OnTrip, Busy
    <2> QED
      BY <1>2, <2>1 DEF IInv, OneTripEach
  <1>10. OneSimulator'
    BY <1>1, <1>3, <1>4 DEF IInv, OneSimulator
  <1>11. ASSUME NEW q \in starts' PROVE StartOK(q)'
    <2>1. CASE q = r
      BY <1>1, <1>2, <1>6, <2>1, NullIsNoStep, Steps DEF StartOK, OnTrip
    <2>2. CASE q # r
      BY <1>1, <1>2, <1>3, <2>2 DEF IInv, TypeOK, NodeOK, StartOK, OnTrip
    <2> QED
      BY <2>1, <2>2
  <1>12. ASSUME NEW x \in reports PROVE ReportOK(x)'
    <2>1. x[1] \in Request /\ x[1] # r
      BY <1>6 DEF IInv, TypeOK
    <2> QED
      BY <1>1, <1>2, <2>1 DEF IInv, NodeOK, ReportOK
  <1>13. ASSUME NEW x \in fetching PROVE FetchOK(x)'
    <2>1. x[1] \in Request /\ x[1] # r
      BY <1>6 DEF IInv, TypeOK
    <2> QED
      BY <1>1, <1>2, <2>1 DEF IInv, NodeOK, FetchOK
  <1>14. ASSUME NEW q \in Driver PROVE RecordOK(q)'
    <2>1. engine[q].request \in Request \cup {Null} /\ engine[q].request # r /\ RecordOK(q)
      BY <1>6 DEF IInv, TypeOK, NodeOK, Record
    <2> QED
      BY <1>1, <1>2, <1>3, <2>1 DEF RecordOK, ServesOK, StageOK, Fed, Been
  <1> QED
    BY <1>1, <1>5, <1>7, <1>8, <1>9, <1>10, <1>11, <1>12, <1>13, <1>14 DEF IInv, NodeOK

-----------------------------------------------------------------------------
(* The Node engine's steps.                                                *)

\* What a step of the engine that changes d's record only, and leaves the
\* rides alone, keeps of the rest.
LEMMA OtherRecords ==
  ASSUME IInv, NEW d \in Driver, NEW q \in Driver, q # d, engine'[q] = engine[q],
         UNCHANGED ride,
         \A p \in Request : visited[p] \subseteq visited'[p],
         starts' \subseteq starts,
         \A x \in reports' : x \in reports \/ ride[x[1]].driver = d
  PROVE  RecordOK(q)'
  <1> DEFINE r == engine[q].request
  <1>1. RecordOK(q) /\ r \in Request \cup {Null}
    BY DEF IInv, TypeOK, NodeOK, Record
  <1>2. CASE r = Null
    BY <1>1, <1>2 DEF RecordOK
  <1>3. CASE r # Null
    <2>1. r \in Request /\ ServesOK(q, r, engine[q])
      BY <1>1, <1>3 DEF RecordOK
    <2>2. <<r, "completed">> \in reports' => <<r, "completed">> \in reports
      BY <2>1 DEF ServesOK
    <2>3. ServesOK(q, r, engine[q])'
      BY <2>1, <2>2 DEF ServesOK, StageOK, Fed, Been
    <2> QED
      BY <1>1, <1>3, <2>3 DEF RecordOK
  <1> QED
    BY <1>2, <1>3

LEMMA RidesStay ==
  ASSUME IInv, UNCHANGED ride,
         \A p \in Request : visited[p] \subseteq visited'[p],
         \A q \in Request : greenlet'[q] = greenlet[q] \/ greenlet'[q] = <<>>
  PROVE  OneTripEach' /\ \A q \in Request : RideOK(q)' /\ GreenletOK(q)'
  <1>1. OneTripEach'
    BY DEF IInv, OneTripEach, OnTrip
  <1>2. ASSUME NEW q \in Request PROVE RideOK(q)'
    BY DEF IInv, RideOK
  <1>3. ASSUME NEW q \in Request PROVE GreenletOK(q)'
    <2>1. CASE greenlet'[q] = <<>>
      BY <2>1 DEF GreenletOK
    <2>2. CASE greenlet'[q] = greenlet[q]
      BY <2>2 DEF IInv, GreenletOK
    <2> QED
      BY <2>1, <2>2
  <1> QED
    BY <1>1, <1>2, <1>3

\* Where a record stands when startNextLeg takes the next leg off its queue.
\* been: the legs driven for the ride.
LegDue(food, queue, been) ==
  LET fed == food => "TO_RESTAURANT" \in been
  IN \/ queue = <<"TO_RESTAURANT", "TO_PICKUP", "TO_DROP">> /\ food
     \/ queue = <<"TO_PICKUP", "TO_DROP">> /\ fed
     \/ queue = <<"TO_DROP">> /\ fed /\ "TO_PICKUP" \in been
     \/ queue = <<>> /\ fed /\ "TO_PICKUP" \in been /\ "TO_DROP" \in been

LEMMA NextLegKeeps ==
  ASSUME IInv, NEW d \in Driver, NEW e \in Record, NEW r \in Request,
         StartNextLeg(d, e), UNCHANGED <<mode, ride, greenlet, faults>>,
         mode = "node", e.request = r, ride[r].driver = d, ride[r].step # Null,
         ride[r].step # "completed", <<r, "completed">> \notin reports,
         e.hasFood => ride[r].food, e.path = Null, LegDue(ride[r].food, e.queue, visited'[r]),
         visited' \in [Request -> SUBSET Leg],
         \A p \in Request : visited[p] \subseteq visited'[p],
         starts' \subseteq starts, r \notin starts',
         timers' \subseteq timers \ {d},
         \A x \in fetching : ride[x[1]].driver # d
  PROVE  IInv'
  <1> DEFINE said == <<r, Departure(e)>>
  <1>1. reports' = reports \cup {said}
    BY DEF StartNextLeg
  <1>2. /\ Departure(e) \in Step
        /\ Departure(e) \in FOOD_ONLY_STEPS => ride[r].food
        /\ Needed(ride[r].food, Departure(e)) \subseteq visited'[r]
        /\ Departure(e) = "completed" => e.queue = <<>>
    <2>1. ride[r].food \in BOOLEAN
      BY DEF IInv, TypeOK, Ride
    <2>2. CASE e.queue = <<"TO_RESTAURANT", "TO_PICKUP", "TO_DROP">> /\ ride[r].food
      <3>1. Departure(e) = "heading_to_pickup"
        BY <2>2 DEF Departure
      <3> QED
        BY <2>1, <3>1, NeededLegs, Steps DEF FOOD_ONLY_STEPS
    <2>3. CASE e.queue = <<"TO_PICKUP", "TO_DROP">> /\ Fed(r)'
      <3>1. Departure(e) = IF e.hasFood THEN "food_picked" ELSE "heading_to_pickup"
        BY <2>3 DEF Departure
      <3> QED
        BY <2>1, <2>3, <3>1, NeededLegs, Steps DEF FOOD_ONLY_STEPS, Fed, Been
    <2>4. CASE e.queue = <<"TO_DROP">> /\ Fed(r)' /\ Been(r, "TO_PICKUP")'
      <3>1. Departure(e) = "trip_started"
        BY <2>4 DEF Departure
      <3> QED
        BY <2>1, <2>4, <3>1, NeededLegs, Steps DEF FOOD_ONLY_STEPS, Fed, Been
    <2>5. CASE e.queue = <<>> /\ Fed(r)' /\ Been(r, "TO_PICKUP")' /\ Been(r, "TO_DROP")'
      <3>1. Departure(e) = "completed"
        BY <2>5 DEF Departure
      <3> QED
        BY <2>1, <2>5, <3>1, NeededLegs, Steps DEF FOOD_ONLY_STEPS, Fed, Been
    <2> QED
      BY <2>2, <2>3, <2>4, <2>5 DEF LegDue, Fed, Been
  <1>3. /\ engine' \in [Driver -> Record]
        /\ \A q \in Driver \ {d} : engine'[q] = engine[q]
        /\ engine'[d].request = r /\ engine'[d].path = Null
        /\ engine'[d].hasFood = e.hasFood
        /\ engine'[d].state # "IDLE" =>
             StageOK(r, engine[d])' /\ Departure(e) # "completed"
        /\ fetching' \subseteq Request \X Leg
        /\ \A x \in fetching' : x \in fetching \/ x = <<r, engine'[d].state>>
    <2>1. engine \in [Driver -> Record] /\ fetching \subseteq Request \X Leg
      BY DEF IInv, TypeOK
    <2>2. CASE e.queue = <<>>
      <3> DEFINE e2 == [e EXCEPT !.state = "IDLE"]
      <3>1. engine' = [engine EXCEPT ![d] = e2] /\ fetching' = fetching
        BY <2>2 DEF StartNextLeg
      <3>2. e2 \in Record /\ e2.request = r /\ e2.path = Null /\ e2.hasFood = e.hasFood
            /\ e2.state = "IDLE"
        BY DEF Record
      <3> HIDE DEF e2
      <3> QED
        BY <2>1, <3>1, <3>2
    <2>3. CASE e.queue # <<>>
      <3> DEFINE e2 == [e EXCEPT !.state = Head(e.queue), !.queue = Tail(e.queue)]
      <3>1. engine' = [engine EXCEPT ![d] = e2]
            /\ fetching' = fetching \cup {<<r, Head(e.queue)>>}
        BY <2>3 DEF StartNextLeg
      <3>2. /\ e.queue \in Seq(Leg) /\ Head(e.queue) \in Leg /\ Tail(e.queue) \in Seq(Leg)
        BY <2>3 DEF Record
      <3>3. /\ e2 \in Record /\ e2.request = r /\ e2.path = Null /\ e2.hasFood = e.hasFood
            /\ e2.state = Head(e.queue) /\ e2.queue = Tail(e.queue)
        <4>1. [e EXCEPT !.state = Head(e.queue)] \in Record
          BY <3>2 DEF Record
        <4> QED
          BY <3>2, <4>1 DEF Record
      <3> HIDE DEF e2
      <3>4. engine'[d] = e2 /\ engine' \in [Driver -> Record]
            /\ \A q \in Driver \ {d} : engine'[q] = engine[q]
        BY <2>1, <3>1, <3>3
      <3>5. StageOK(r, engine[d])'
        <4>1. CASE e.queue = <<"TO_RESTAURANT", "TO_PICKUP", "TO_DROP">> /\ ride[r].food
          <5>1. Head(e.queue) = "TO_RESTAURANT" /\ Tail(e.queue) = <<"TO_PICKUP", "TO_DROP">>
            BY <4>1
          <5> QED
            BY <3>3, <3>4, <4>1, <5>1 DEF StageOK
        <4>2. CASE e.queue = <<"TO_PICKUP", "TO_DROP">> /\ Fed(r)'
          <5>1. Head(e.queue) = "TO_PICKUP" /\ Tail(e.queue) = <<"TO_DROP">>
            BY <4>2
          <5> QED
            BY <3>3, <3>4, <4>2, <5>1 DEF StageOK
        <4>3. CASE e.queue = <<"TO_DROP">> /\ Fed(r)' /\ Been(r, "TO_PICKUP")'
          <5>1. Head(e.queue) = "TO_DROP" /\ Tail(e.queue) = <<>>
            BY <4>3
          <5> QED
            BY <3>3, <3>4, <4>3, <5>1 DEF StageOK
        <4> QED
          BY <2>3, <4>1, <4>2, <4>3 DEF LegDue, Fed, Been
      <3> QED
        BY <1>2, <2>1, <2>3, <3>1, <3>2, <3>3, <3>4, <3>5
    <2> QED
      BY <2>2, <2>3
  <1>4. TypeOK'
    <2>1. reports' \subseteq Request \X Step
      BY <1>1, <1>2 DEF IInv, TypeOK
    <2> QED
      BY <1>3, <2>1 DEF IInv, TypeOK
  <1>5. OneSimulator'
    BY DEF IInv, OneSimulator
  <1>6. ASSUME NEW q \in starts' PROVE StartOK(q)'
    BY <1>1, <1>6 DEF IInv, NodeOK, StartOK, OnTrip
  <1>7. ASSUME NEW x \in reports' PROVE ReportOK(x)'
    <2>1. CASE x = said
      BY <1>2, <2>1 DEF ReportOK
    <2>2. CASE x \in reports
      <3>1. x[1] \in Request /\ ReportOK(x)
        BY <2>2 DEF IInv, TypeOK, NodeOK
      <3> QED
        BY <3>1 DEF ReportOK
    <2> QED
      BY <1>1, <1>7, <2>1, <2>2
  <1>8. ASSUME NEW x \in fetching' PROVE FetchOK(x)'
    <2>1. CASE x = <<r, engine'[d].state>>
      BY <1>3, <2>1 DEF FetchOK
    <2>2. CASE x \in fetching
      BY <1>3, <2>2 DEF IInv, NodeOK, FetchOK
    <2> QED
      BY <1>3, <1>8, <2>1, <2>2
  <1>9. ASSUME NEW q \in timers' PROVE engine'[q].state = "WAITING"
    BY <1>3, <1>9 DEF IInv, TypeOK, NodeOK
  <1>10. ASSUME NEW q \in Driver PROVE RecordOK(q)'
    <2>1. CASE q = d
      <3>1. engine'[d].state # "IDLE" => <<r, "completed">> \notin reports'
        BY <1>1, <1>3
      <3>2. ServesOK(d, r, engine[d])'
        BY <1>3, <3>1 DEF ServesOK
      <3> QED
        BY <1>3, <2>1, <3>2, NullIsNoStep DEF RecordOK
    <2>2. CASE q # d
      <3>1. \A x \in reports' : x \in reports \/ ride[x[1]].driver = d
        BY <1>1
      <3> QED
        BY <1>3, <2>2, <3>1, OtherRecords
    <2> QED
      BY <2>1, <2>2
  <1>11. OneTripEach' /\ \A q \in Request : RideOK(q)' /\ GreenletOK(q)'
    BY RidesStay
  <1> QED
    BY <1>4, <1>5, <1>6, <1>7, <1>8, <1>9, <1>10, <1>11 DEF IInv, NodeOK

\* A driver whose record is idle has no call and no timer under way.
LEMMA IdleIsQuiet ==
  ASSUME IInv, NEW d \in Driver, engine[d].state \notin Leg
  PROVE  /\ engine[d].path = Null /\ \A x \in fetching : ride[x[1]].driver # d
         /\ engine[d].state # "WAITING" => d \notin timers
  <1>1. ASSUME NEW x \in fetching PROVE ride[x[1]].driver # d
    BY DEF IInv, TypeOK, NodeOK, FetchOK
  <1> QED
    BY <1>1 DEF IInv, NodeOK, RecordOK

\* The ride that a driver's record is at work for is under way.
LEMMA AtWork ==
  ASSUME IInv, NEW d \in Driver, engine[d].state # "IDLE"
  PROVE  /\ engine[d].request \in Request
         /\ ServesOK(d, engine[d].request, engine[d])
         /\ StageOK(engine[d].request, engine[d])
         /\ OnTrip(engine[d].request) /\ mode = "node"
  <1>1. engine[d].request \in Request /\ ServesOK(d, engine[d].request, engine[d])
    BY DEF IInv, TypeOK, Record, NodeOK, RecordOK
  <1>2. mode = "node"
    BY <1>1, SimulatorsAssumption, NullIsNoStep DEF IInv, TypeOK, OneSimulator
  <1> QED
    BY <1>1, <1>2 DEF ServesOK, OnTrip

LEMMA StartRideKeeps ==
  ASSUME IInv, NEW r \in Request, StartRide(r) PROVE IInv'
  <1> DEFINE d == ride[r].driver
             e == [engine[d] EXCEPT !.request = r, !.hasFood = FALSE,
                                    !.queue = Itinerary(ride[r].food)]
  <1>1. /\ r \in starts /\ starts' = starts \ {r} /\ StartNextLeg(d, e)
        /\ UNCHANGED <<mode, ride, visited, greenlet, timers, faults>>
    BY DEF StartRide, backend
  <1>2. /\ OnTrip(r) /\ <<r, "completed">> \notin reports
        /\ ride[r].step # Null /\ ride[r].step # "completed"
    BY <1>1 DEF IInv, NodeOK, StartOK, OnTrip
  <1>3. d \in Driver /\ ride[r].food \in BOOLEAN /\ engine[d] \in Record
    BY <1>2 DEF IInv, RideOK, TypeOK, Ride
  <1>4. mode = "node"
    BY <1>1, SimulatorsAssumption DEF IInv, TypeOK, OneSimulator
  \* The driver's last ride is over, or else r could not have been accepted.
  <1>5. engine[d].state = "IDLE"
    <2> SUFFICES ASSUME engine[d].state # "IDLE" PROVE FALSE
      OBVIOUS
    <2>1. /\ engine[d].request \in Request /\ OnTrip(engine[d].request)
          /\ ServesOK(d, engine[d].request, engine[d])
      BY <1>3, AtWork
    <2>2. engine[d].request = r
      BY <1>2, <2>1 DEF IInv, OneTripEach, ServesOK
    <2> QED
      BY <1>1, <2>1, <2>2 DEF ServesOK
  <1>6. /\ engine[d].path = Null /\ d \notin timers
        /\ \A x \in fetching : ride[x[1]].driver # d
    BY <1>3, <1>5, IdleIsQuiet DEF Leg
  <1>7. /\ e \in Record /\ e.request = r /\ e.path = Null /\ e.hasFood = FALSE
        /\ e.queue = Itinerary(ride[r].food)
    <2>1. Itinerary(ride[r].food) \in Seq(Leg)
      <3>1. CASE ride[r].food
        BY <3>1 DEF Itinerary, Leg
      <3>2. CASE ~ride[r].food
        BY <3>2 DEF Itinerary, Leg
      <3> QED
        BY <3>1, <3>2
    <2>2. [engine[d] EXCEPT !.request = r] \in Record
      BY <1>3 DEF Record
    <2>3. [engine[d] EXCEPT !.request = r, !.hasFood = FALSE] \in Record
      BY <2>2 DEF Record
    <2> QED
      BY <1>6, <2>1, <2>3 DEF Record
  <1>8. LegDue(ride[r].food, e.queue, visited'[r])
    BY <1>1, <1>3, <1>7 DEF LegDue, Itinerary
  <1> HIDE DEF d, e
  <1>9. visited \in [Request -> SUBSET Leg] /\ timers \subseteq Driver
    BY DEF IInv, TypeOK
  <1> QED
    BY <1>1, <1>2, <1>3, <1>4, <1>6, <1>7, <1>8, <1>9, NextLegKeeps DEF d

LEMMA TimerFiresKeeps ==
  ASSUME IInv, NEW d \in Driver, TimerFires(d) PROVE IInv'
  <1> DEFINE r == engine[d].request
  <1>1. /\ d \in timers /\ timers' = timers \ {d} /\ StartNextLeg(d, engine[d])
        /\ UNCHANGED <<mode, ride, visited, greenlet, starts, faults>>
    BY DEF TimerFires, backend
  <1>2. engine[d] \in Record /\ engine[d].state = "WAITING"
    BY <1>1 DEF IInv, TypeOK, NodeOK
  <1>3. /\ r \in Request /\ mode = "node" /\ ServesOK(d, r, engine[d])
        /\ StageOK(r, engine[d])
    BY <1>2, AtWork
  <1>4. engine[d].path = Null /\ \A x \in fetching : ride[x[1]].driver # d
    BY <1>2, IdleIsQuiet DEF Leg
  <1>5. LegDue(ride[r].food, engine[d].queue, visited'[r])
    BY <1>1, <1>2, <1>3 DEF StageOK, LegDue, Fed, Been
  <1>6. /\ ride[r].driver = d /\ ride[r].step # Null /\ ride[r].step # "completed"
        /\ <<r, "completed">> \notin reports /\ r \notin starts
        /\ engine[d].hasFood => ride[r].food
    BY <1>2, <1>3 DEF ServesOK
  <1>7. visited \in [Request -> SUBSET Leg]
    BY DEF IInv, TypeOK
  <1> QED
    BY <1>1, <1>2, <1>3, <1>4, <1>5, <1>6, <1>7, NextLegKeeps

\* What a car that has reached the end of its path adds to visited.
LEMMA Visiting ==
  ASSUME IInv, NEW d \in Driver, AtEnd(d), Visit(engine[d].path)
  PROVE  LET r == engine[d].request
         IN /\ r \in Request /\ mode = "node"
            /\ ServesOK(d, r, engine[d]) /\ StageOK(r, engine[d])
            /\ visited' \in [Request -> SUBSET Leg]
            /\ visited'[r] = visited[r] \cup {engine[d].state}
            /\ \A p \in Request : visited[p] \subseteq visited'[p]
  <1> DEFINE r == engine[d].request
  <1>1. engine[d].state \in Leg /\ engine[d].path # Null /\ engine[d].state # "IDLE"
    BY DEF AtEnd, Leg
  <1>2. /\ r \in Request /\ mode = "node"
        /\ ServesOK(d, r, engine[d]) /\ StageOK(r, engine[d])
    BY <1>1, AtWork
  <1>3. engine[d].path = <<r, engine[d].state>>
    BY <1>1 DEF IInv, NodeOK, RecordOK
  <1>4. visited \in [Request -> SUBSET Leg]
    BY DEF IInv, TypeOK
  <1>5. visited' = [visited EXCEPT ![r] = @ \cup {engine[d].state}]
    BY <1>3 DEF Visit
  <1> QED
    BY <1>1, <1>2, <1>4, <1>5

\* No call for a path is under way for a car that is driving along one.
LEMMA PathIsNoCall ==
  ASSUME IInv, NEW d \in Driver, AtEnd(d)
  PROVE  /\ \A x \in fetching : ride[x[1]].driver # d
         /\ d \notin timers
  <1>1. ASSUME NEW x \in fetching PROVE ride[x[1]].driver # d
    BY DEF AtEnd, IInv, NodeOK, FetchOK
  <1>2. d \notin timers
    BY DEF AtEnd, Leg, IInv, NodeOK
  <1> QED
    BY <1>1, <1>2

LEMMA ArriveAtDropKeeps ==
  ASSUME IInv, NEW d \in Driver, ArriveAtDrop(d) PROVE IInv'
  <1> DEFINE r == engine[d].request  e == ClearPath(d)
  <1>1. /\ AtEnd(d) /\ engine[d].state = "TO_DROP" /\ Visit(engine[d].path)
        /\ StartNextLeg(d, e)
        /\ UNCHANGED <<mode, ride, greenlet, starts, timers, faults>>
    BY DEF ArriveAtDrop, backend
  <1>2. /\ r \in Request /\ mode = "node"
        /\ ServesOK(d, r, engine[d]) /\ StageOK(r, engine[d])
        /\ visited' \in [Request -> SUBSET Leg]
        /\ visited'[r] = visited[r] \cup {"TO_DROP"}
        /\ \A p \in Request : visited[p] \subseteq visited'[p]
    BY <1>1, Visiting
  <1>3. /\ e \in Record /\ e.request = r /\ e.path = Null
        /\ e.hasFood = engine[d].hasFood /\ e.queue = engine[d].queue
    BY DEF ClearPath, IInv, TypeOK, Record
  <1>4. (\A x \in fetching : ride[x[1]].driver # d) /\ d \notin timers
    BY <1>1, PathIsNoCall
  <1>5. LegDue(ride[r].food, e.queue, visited'[r])
    BY <1>1, <1>2, <1>3 DEF StageOK, LegDue, Fed, Been
  <1>6. /\ ride[r].driver = d /\ ride[r].step # Null /\ ride[r].step # "completed"
        /\ <<r, "completed">> \notin reports /\ r \notin starts
        /\ engine[d].hasFood => ride[r].food
    BY <1>1, <1>2 DEF ServesOK
  <1> HIDE DEF e
  <1> QED
    BY <1>1, <1>2, <1>3, <1>4, <1>5, <1>6, NextLegKeeps

LEMMA ArriveAndWaitKeeps ==
  ASSUME IInv, NEW d \in Driver, ArriveAndWait(d) PROVE IInv'
  <1> PICK r : r = engine[d].request
    OBVIOUS
  <1> PICK step : step = IF engine[d].state = "TO_RESTAURANT" THEN "at_restaurant" ELSE "picked_up"
    OBVIOUS
  <1> DEFINE fed == engine[d].state = "TO_RESTAURANT"
             food == engine[d].hasFood \/ fed
             e == [ClearPath(d) EXCEPT !.state = "WAITING", !.hasFood = food]
  <1>1. /\ AtEnd(d) /\ engine[d].state \in {"TO_RESTAURANT", "TO_PICKUP"}
        /\ Visit(engine[d].path)
        /\ reports' = reports \cup {<<r, step>>} /\ timers' = timers \cup {d}
        /\ UNCHANGED <<mode, ride, greenlet, starts, fetching, faults>>
    BY DEF ArriveAndWait, backend
  <1>2. /\ r \in Request /\ mode = "node"
        /\ ServesOK(d, r, engine[d]) /\ StageOK(r, engine[d])
        /\ visited' \in [Request -> SUBSET Leg]
        /\ visited'[r] = visited[r] \cup {engine[d].state}
        /\ \A p \in Request : visited[p] \subseteq visited'[p]
    BY <1>1, Visiting
  <1>3. engine[d] \in Record /\ engine \in [Driver -> Record]
    BY DEF IInv, TypeOK
  <1>4. /\ engine' = [engine EXCEPT ![d] = e]
        /\ e \in Record /\ e.request = r /\ e.path = Null /\ e.state = "WAITING"
        /\ e.queue = engine[d].queue /\ e.hasFood = food
    <2> DEFINE c == ClearPath(d)
    <2>1. c \in Record /\ c.request = r /\ c.path = Null /\ c.queue = engine[d].queue
          /\ c.hasFood = engine[d].hasFood
      BY <1>3 DEF ClearPath, Record
    <2>2. engine' = [engine EXCEPT ![d] = [c EXCEPT !.state = "WAITING",
                                                    !.hasFood = c.hasFood \/ fed]]
      BY <2>1 DEF ArriveAndWait, Record
    <2>3. engine' = [engine EXCEPT ![d] = e]
      BY <2>1, <2>2
    <2>4. food \in BOOLEAN
      OBVIOUS
    <2> HIDE DEF c, food
    <2>5. e = [c EXCEPT !.state = "WAITING", !.hasFood = food]
      BY DEF c
    <2>6. e \in Record /\ e.request = r /\ e.path = Null /\ e.state = "WAITING"
          /\ e.queue = engine[d].queue /\ e.hasFood = food
      BY <2>1, <2>4, <2>5 DEF Record
    <2> QED
      BY <2>3, <2>6
  <1> HIDE DEF e
  <1>5. engine'[d] = e /\ \A q \in Driver \ {d} : engine'[q] = engine[q]
    BY <1>3, <1>4
  <1>6. /\ fed => ride[r].food /\ engine[d].queue = <<"TO_PICKUP", "TO_DROP">>
        /\ ~fed => engine[d].queue = <<"TO_DROP">> /\ Fed(r) /\ engine[d].state = "TO_PICKUP"
    BY <1>1, <1>2 DEF StageOK
  <1>7. ReportOK(<<r, step>>)' /\ step \in Step /\ step # "completed"
    <2>1. ride[r].food \in BOOLEAN /\ ride[r].step # Null
      BY <1>2 DEF ServesOK, IInv, TypeOK, Ride
    <2>2. CASE fed
      <3>1. step = "at_restaurant" /\ Needed(ride[r].food, step) \subseteq visited'[r]
        BY <1>2, <2>1, <2>2, NeededLegs
      <3> QED
        BY <1>1, <1>6, <2>1, <2>2, <3>1, Steps DEF ReportOK
    <2>3. CASE ~fed
      <3>1. step = "picked_up" /\ Needed(ride[r].food, step) \subseteq visited'[r]
        BY <1>2, <1>6, <2>1, <2>3, NeededLegs DEF Fed, Been
      <3> QED
        BY <1>1, <2>1, <3>1, Steps DEF ReportOK, FOOD_ONLY_STEPS
    <2> QED
      BY <2>2, <2>3
  <1>8. ServesOK(d, r, engine[d])'
    <2>1. StageOK(r, engine[d])'
      <3>1. CASE fed
        BY <1>1, <1>2, <1>4, <1>5, <1>6, <3>1 DEF StageOK, Been
      <3>2. CASE ~fed
        BY <1>1, <1>2, <1>4, <1>5, <1>6, <3>2 DEF StageOK, Fed, Been
      <3> QED
        BY <3>1, <3>2
    <2>2. ride[r].step # "completed" /\ <<r, "completed">> \notin reports
      BY <1>1, <1>2 DEF ServesOK
    <2>3. <<r, "completed">> \notin reports'
      BY <1>1, <1>7, <2>2
    <2>4. engine'[d].hasFood => ride[r].food
      BY <1>2, <1>4, <1>5, <1>6 DEF ServesOK
    <2> QED
      BY <1>1, <1>2, <2>1, <2>2, <2>3, <2>4 DEF ServesOK
  <1>9. TypeOK'
    <2>1. engine' \in [Driver -> Record]
      BY <1>3, <1>4
    <2>2. timers' \subseteq Driver /\ reports' \subseteq Request \X Step
      BY <1>1, <1>2, <1>7 DEF IInv, TypeOK
    <2> QED
      BY <1>1, <1>2, <2>1, <2>2 DEF IInv, TypeOK
  <1>10. OneSimulator'
    BY <1>1, <1>2 DEF IInv, OneSimulator
  <1>11. ASSUME NEW q \in starts PROVE StartOK(q)'
    BY <1>1, <1>7 DEF IInv, NodeOK, StartOK, OnTrip
  <1>12. ASSUME NEW x \in reports' PROVE ReportOK(x)'
    <2>1. CASE x = <<r, step>>
      BY <1>7, <2>1
    <2>2. CASE x \in reports
      <3>1. x[1] \in Request /\ ReportOK(x)
        BY <2>2 DEF IInv, TypeOK, NodeOK
      <3> QED
        BY <1>1, <1>2, <3>1 DEF ReportOK
    <2> QED
      BY <1>1, <2>1, <2>2
  <1>13. ASSUME NEW x \in fetching PROVE FetchOK(x)'
    <2>1. ride[x[1]].driver # d
      BY <1>1, PathIsNoCall
    <2> QED
      BY <1>1, <1>5, <2>1 DEF IInv, NodeOK, FetchOK
  <1>14. ASSUME NEW q \in timers' PROVE engine'[q].state = "WAITING"
    BY <1>1, <1>4, <1>5, <1>14 DEF IInv, TypeOK, NodeOK
  <1>15. ASSUME NEW q \in Driver PROVE RecordOK(q)'
    <2>1. CASE q = d
      BY <1>2, <1>4, <1>5, <1>8, <2>1, NullIsNoStep DEF RecordOK
    <2>2. CASE q # d
      <3>1. ride[r].driver = d
        BY <1>2 DEF ServesOK
      <3>2. \A x \in reports' : x \in reports \/ ride[x[1]].driver = d
        BY <1>1, <3>1
      <3> QED
        BY <1>1, <1>2, <1>5, <2>2, <3>2, OtherRecords
    <2> QED
      BY <2>1, <2>2
  <1>16. OneTripEach' /\ \A q \in Request : RideOK(q)' /\ GreenletOK(q)'
    BY <1>1, <1>2, RidesStay
  <1> QED
    BY <1>1, <1>9, <1>10, <1>11, <1>12, <1>13, <1>14, <1>15, <1>16 DEF IInv, NodeOK

LEMMA PathWritten ==
  ASSUME NEW was \in Record, NEW path \in (Request \X Leg) \cup {Null}
  PROVE  LET now == [was EXCEPT !.path = path]
         IN /\ now \in Record /\ now.path = path
            /\ now.request = was.request /\ now.state = was.state
            /\ now.queue = was.queue /\ now.hasFood = was.hasFood
  BY DEF Record

\* A routing call answers: either way only the path of one record changes.
LEMMA RouteKeeps ==
  ASSUME IInv, NEW x \in fetching, RouteFound(x) \/ RouteFails(x) PROVE IInv'
  <1> DEFINE r == x[1]
  <1> PICK d : d = ride[r].driver
    OBVIOUS
  <1> DEFINE path == engine'[d].path
  <1>1. /\ fetching' = fetching \ {x}
        /\ UNCHANGED <<mode, ride, visited, greenlet, starts, reports, timers, faults>>
    BY DEF RouteFound, RouteFails, backend
  <1>2. /\ r \in Request /\ d \in Driver /\ x = <<r, x[2]>> /\ x[2] \in Leg
        /\ engine[d].request = r /\ engine[d].state = x[2]
    BY DEF IInv, TypeOK, NodeOK, FetchOK
  <1>3. /\ engine' \in [Driver -> Record]
        /\ path \in {x, Null}
        /\ engine'[d].request = r /\ engine'[d].state = x[2]
        /\ engine'[d].hasFood = engine[d].hasFood /\ engine'[d].queue = engine[d].queue
        /\ \A q \in Driver \ {d} : engine'[q] = engine[q]
    <2> PICK p \in {x, Null} : engine' = [engine EXCEPT ![d].path = p]
      BY DEF RouteFound, RouteFails
    <2>1. engine \in [Driver -> Record] /\ p \in (Request \X Leg) \cup {Null}
      BY DEF IInv, TypeOK
    <2> DEFINE e == [engine[d] EXCEPT !.path = p]
    <2>2. /\ e \in Record /\ e.path = p /\ e.request = engine[d].request
          /\ e.state = engine[d].state /\ e.queue = engine[d].queue
          /\ e.hasFood = engine[d].hasFood
      <3>1. engine[d] \in Record
        BY <1>2, <2>1
      <3> QED
        BY <2>1, <3>1, PathWritten
    <2>3. engine' = [engine EXCEPT ![d] = e]
      OBVIOUS
    <2> HIDE DEF e
    <2> QED
      BY <1>2, <2>1, <2>2, <2>3
  <1>4. TypeOK' /\ OneSimulator'
    <2>1. mode # "python"
      BY <1>2, NullIsNoStep DEF IInv, OneSimulator
    <2> QED
      BY <1>1, <1>3, <2>1 DEF IInv, TypeOK, OneSimulator
  <1>5. ASSUME NEW y \in fetching' PROVE FetchOK(y)'
    <2>1. y \in fetching /\ y # x /\ FetchOK(y) /\ y = <<y[1], y[2]>>
      BY <1>1 DEF IInv, TypeOK, NodeOK
    <2>2. ride[y[1]].driver # d
      BY <1>2, <2>1 DEF FetchOK
    <2> QED
      BY <1>1, <1>3, <2>1, <2>2 DEF FetchOK
  <1>6. ASSUME NEW q \in Driver PROVE RecordOK(q)'
    <2>1. CASE q # d
      BY <1>1, <1>2, <1>3, <2>1, OtherRecords
    <2>2. CASE q = d
      <3>1. ServesOK(d, r, engine[d])
        BY <1>2, NullIsNoStep DEF IInv, NodeOK, RecordOK
      <3>2. ServesOK(d, r, engine[d])'
        BY <1>1, <1>2, <1>3, <3>1 DEF ServesOK, StageOK, Fed, Been
      <3>3. path # Null => path = <<r, engine'[d].state>>
        BY <1>2, <1>3
      <3> QED
        BY <1>2, <1>3, <2>2, <3>2, <3>3, NullIsNoStep DEF RecordOK
    <2> QED
      BY <2>1, <2>2
  <1>7. OneTripEach' /\ \A q \in Request : RideOK(q)' /\ GreenletOK(q)'
    BY <1>1, RidesStay
  <1>8. /\ \A q \in starts : StartOK(q)'
        /\ \A y \in reports : ReportOK(y)'
        /\ \A q \in timers : engine'[q].state = "WAITING"
    <2>1. \A q \in starts : StartOK(q)'
      BY <1>1 DEF IInv, NodeOK, StartOK, OnTrip
    <2>2. \A y \in reports : ReportOK(y)'
      BY <1>1 DEF IInv, NodeOK, ReportOK
    <2>3. \A q \in timers : engine'[q].state = "WAITING"
      BY <1>1, <1>2, <1>3 DEF IInv, TypeOK, NodeOK
    <2> QED
      BY <2>1, <2>2, <2>3
  <1> QED
    BY <1>1, <1>4, <1>5, <1>6, <1>7, <1>8 DEF IInv, NodeOK

-----------------------------------------------------------------------------
(* Failures.                                                               *)

LEMMA BackendRestartsKeeps ==
  ASSUME IInv, BackendRestarts PROVE IInv'
  <1>1. /\ faults' = faults + 1 /\ faults < MaxFaults
        /\ greenlet' = [r \in Request |-> <<>>] /\ starts' = {} /\ reports' \subseteq reports
        /\ UNCHANGED <<mode, ride, visited, engine, fetching, timers>>
    BY DEF BackendRestarts, Fault, backend
  <1>2. TypeOK' /\ OneSimulator'
    <2>1. greenlet' \in [Request -> Seq(Step)]
      BY <1>1
    <2> QED
      BY <1>1, <2>1, FaultsAssumption DEF IInv, TypeOK, OneSimulator
  <1>3. OneTripEach' /\ \A q \in Request : RideOK(q)' /\ GreenletOK(q)'
    BY <1>1, RidesStay
  <1>4. ASSUME NEW d \in Driver PROVE RecordOK(d)'
    <2> PICK r : r = engine[d].request
      OBVIOUS
    <2>1. CASE r = Null
      BY <1>1, <2>1 DEF IInv, NodeOK, RecordOK
    <2>2. CASE r # Null
      <3>1. ServesOK(d, r, engine[d])
        BY <2>2 DEF IInv, NodeOK, RecordOK
      <3>2. ServesOK(d, r, engine[d])'
        BY <1>1, <3>1 DEF ServesOK, StageOK, Fed, Been
      <3> QED
        BY <1>1, <2>2, <3>2 DEF IInv, NodeOK, RecordOK
    <2> QED
      BY <2>1, <2>2
  <1>5. \A x \in reports' : ReportOK(x)'
    BY <1>1 DEF IInv, NodeOK, ReportOK
  <1>6. \A x \in fetching : FetchOK(x)'
    BY <1>1 DEF IInv, NodeOK, FetchOK
  <1> QED
    BY <1>1, <1>2, <1>3, <1>4, <1>5, <1>6 DEF IInv, NodeOK

LEMMA StartFailsKeeps ==
  ASSUME IInv, NEW r \in Request, NEW d \in Driver, NEW food \in BOOLEAN,
         StartFails(r, d, food)
  PROVE  IInv'
  <1>1. /\ ride[r].step = Null /\ ~Busy(d)
        /\ faults' = faults + 1 /\ faults < MaxFaults
        /\ UNCHANGED <<mode, visited, greenlet, engine, starts, reports, fetching, timers>>
    BY DEF StartFails, AcceptOffer, Fault, node
  <1>2. /\ ride' \in [Request -> Ride]
        /\ ride'[r] = [driver |-> d, food |-> food, step |-> "accepted"]
        /\ \A q \in Request \ {r} : ride'[q] = ride[q]
    BY Steps DEF StartFails, AcceptOffer, Ride, IInv, TypeOK
  <1>3. TypeOK' /\ OneSimulator'
    BY <1>1, <1>2, FaultsAssumption DEF IInv, TypeOK, OneSimulator
  <1>4. /\ r \notin starts /\ \A x \in reports : x[1] # r
        /\ \A q \in Driver : engine[q].request # r
        /\ \A x \in fetching : x[1] # r
        /\ greenlet[r] = <<>>
    BY <1>1, NothingBeforeAccept
  <1>5. ASSUME NEW q \in Request PROVE RideOK(q)' /\ GreenletOK(q)'
    <2>1. CASE q = r
      BY <1>1, <1>2, <1>4, <2>1, NeededLegs DEF RideOK, GreenletOK
    <2>2. CASE q # r
      <3>1. ride'[q] = ride[q] /\ greenlet' = greenlet /\ visited' = visited
        BY <1>1, <1>2, <2>2
      <3> QED
        BY <3>1 DEF IInv, RideOK, GreenletOK
    <2> QED
      BY <2>1, <2>2
  <1>6. OneTripEach'
    <2>1. ASSUME NEW q \in Request, q # r, OnTrip(q)' PROVE OnTrip(q) /\ ride'[q].driver # d
      BY <1>1, <1>2, <2>1 DEF OnTrip, Busy
    <2> QED
      BY <1>2, <2>1 DEF IInv, OneTripEach
  <1>7. /\ \A q \in starts : StartOK(q)'
        /\ \A x \in reports : ReportOK(x)'
        /\ \A x \in fetching : FetchOK(x)'
    <2>1. ASSUME NEW q \in starts PROVE StartOK(q)'
      BY <1>1, <1>2, <1>4, <2>1 DEF IInv, TypeOK, NodeOK, StartOK, OnTrip
    <2>2. ASSUME NEW x \in reports PROVE ReportOK(x)'
      <3>1. x[1] \in Request /\ x[1] # r
        BY <1>4 DEF IInv, TypeOK
      <3> QED
        BY <1>1, <1>2, <3>1 DEF IInv, NodeOK, ReportOK
    <2>3. ASSUME NEW x \in fetching PROVE FetchOK(x)'
      <3>1. x[1] \in Request /\ x[1] # r
        BY <1>4 DEF IInv, TypeOK
      <3> QED
        BY <1>1, <1>2, <3>1 DEF IInv, NodeOK, FetchOK
    <2> QED
      BY <2>1, <2>2, <2>3
  <1>8. ASSUME NEW q \in Driver PROVE RecordOK(q)'
    <2>1. engine[q].request \in Request \cup {Null} /\ engine[q].request # r /\ RecordOK(q)
      BY <1>4 DEF IInv, TypeOK, NodeOK, Record
    <2> QED
      BY <1>1, <1>2, <2>1 DEF RecordOK, ServesOK, StageOK, Fed, Been
  <1> QED
    BY <1>1, <1>3, <1>5, <1>6, <1>7, <1>8 DEF IInv, NodeOK

LEMMA EngineRestartsKeeps ==
  ASSUME IInv, EngineRestarts PROVE IInv'
  <1>1. /\ faults' = faults + 1 /\ faults < MaxFaults /\ mode = "node"
        /\ engine' = [d \in Driver |-> NewRecord]
        /\ fetching' = {} /\ timers' = {} /\ starts' = {} /\ reports' \subseteq reports
        /\ UNCHANGED <<mode, ride, visited, greenlet>>
    BY DEF EngineRestarts, Fault, backend
  <1>2. /\ NewRecord \in Record /\ NewRecord.request = Null
        /\ NewRecord.state = "IDLE" /\ NewRecord.path = Null
    BY DEF NewRecord, Record
  <1>3. TypeOK' /\ OneSimulator'
    BY <1>1, <1>2, FaultsAssumption DEF IInv, TypeOK, OneSimulator
  <1>4. OneTripEach' /\ \A q \in Request : RideOK(q)' /\ GreenletOK(q)'
    BY <1>1, RidesStay
  <1>5. \A x \in reports' : ReportOK(x)'
    BY <1>1 DEF IInv, NodeOK, ReportOK
  <1>6. \A d \in Driver : RecordOK(d)'
    BY <1>1, <1>2 DEF RecordOK
  <1> QED
    BY <1>1, <1>3, <1>4, <1>5, <1>6 DEF IInv, NodeOK

-----------------------------------------------------------------------------
LEMMA InitOK == Init => IInv
  <1> SUFFICES ASSUME Init PROVE IInv
    OBVIOUS
  <1>1. /\ NewRecord \in Record /\ NewRecord.request = Null
        /\ NewRecord.state = "IDLE" /\ NewRecord.path = Null
    BY DEF NewRecord, Record
  <1>2. TypeOK
    BY <1>1, FaultsAssumption DEF Init, TypeOK, Ride
  <1>3. \A r \in Request : RideOK(r) /\ GreenletOK(r)
    BY DEF Init, RideOK, GreenletOK
  <1>4. OneTripEach
    BY DEF Init, OneTripEach, OnTrip
  <1>5. OneSimulator
    BY <1>1 DEF Init, OneSimulator
  <1>6. NodeOK
    BY <1>1 DEF Init, NodeOK, RecordOK
  <1> QED
    BY <1>2, <1>3, <1>4, <1>5, <1>6 DEF IInv

LEMMA StutterKeeps ==
  ASSUME IInv, UNCHANGED vars PROVE IInv'
  <1>1. UNCHANGED <<mode, ride, visited, greenlet, engine, starts, reports, fetching,
                    timers, faults>>
    BY DEF vars
  <1>2. TypeOK' /\ OneSimulator'
    BY <1>1 DEF IInv, TypeOK, OneSimulator
  <1>3. OneTripEach' /\ \A q \in Request : RideOK(q)' /\ GreenletOK(q)'
    BY <1>1, RidesStay
  <1>4. ASSUME NEW d \in Driver PROVE RecordOK(d)'
    <2>1. RecordOK(d)
      BY DEF IInv, NodeOK
    <2> QED
      BY <1>1, <2>1 DEF RecordOK, ServesOK, StageOK, Fed, Been
  <1>5. /\ \A r \in starts : StartOK(r)'
        /\ \A d \in timers : engine'[d].state = "WAITING"
    BY <1>1 DEF IInv, NodeOK, StartOK, OnTrip
  <1>6. \A x \in reports : ReportOK(x)'
    BY <1>1 DEF IInv, NodeOK, ReportOK
  <1>7. \A x \in fetching : FetchOK(x)'
    BY <1>1 DEF IInv, NodeOK, FetchOK
  <1> QED
    BY <1>1, <1>2, <1>3, <1>4, <1>5, <1>6, <1>7 DEF IInv, NodeOK

LEMMA NextOK == IInv /\ [Next]_vars => IInv'
  <1> SUFFICES ASSUME IInv, [Next]_vars PROVE IInv'
    OBVIOUS
  <1>1. CASE \E r \in Request, d \in Driver, food \in BOOLEAN :
                StartSimulation(r, d, food) \/ StartFails(r, d, food)
    BY <1>1, StartSimulationKeeps, StartFailsKeeps
  <1>2. CASE \E r \in Request : Simulate(r)
    BY <1>2, SimulateKeeps
  <1>3. CASE \E r \in Request, step \in Step : Receive(r, step)
    BY <1>3, ReceiveKeeps
  <1>4. CASE EngineStep
    BY <1>4, StartRideKeeps, RouteKeeps, ArriveAndWaitKeeps, ArriveAtDropKeeps,
       TimerFiresKeeps DEF EngineStep
  <1>5. CASE BackendRestarts
    BY <1>5, BackendRestartsKeeps
  <1>6. CASE EngineRestarts
    BY <1>6, EngineRestartsKeeps
  <1>7. CASE UNCHANGED vars
    BY <1>7, StutterKeeps
  <1> QED
    BY <1>1, <1>2, <1>3, <1>4, <1>5, <1>6, <1>7 DEF Next

\* Each greenlet and each engine record is, at any time, where the ride it
\* serves has got to (_run_auto_ride_simulation, startNextLeg).
THEOREM Invariance == Spec => []IInv
  BY InitOK, NextOK, PTL DEF Spec

\* The state keeps its types.
THEOREM TypeCorrect == Spec => []TypeOK
  <1>1. IInv => TypeOK
    BY DEF IInv
  <1> QED
    BY <1>1, Invariance, PTL

\* However rides, routing answers, timers and restarts interleave, no report
\* on its way is one its ride would refuse for its kind: a record that served
\* a food ride carries nothing of it into the next (startNextLeg).
THEOREM ReportsFit == Spec => []ReportsFitRides
  <1>1. IInv => ReportsFitRides
    BY DEF IInv, NodeOK, ReportOK, ReportsFitRides
  <1> QED
    BY <1>1, Invariance, PTL

\* In whatever order reports take effect, and after any restarts, a ride says
\* only what its car has done (update_progress).
THEOREM Driven == Spec => []ProgressIsDriven
  <1>1. ASSUME IInv PROVE ProgressIsDriven
    <2> SUFFICES ASSUME NEW r \in Request, ride[r].step # Null
                 PROVE  /\ Rank(ride[r].step) >= Rank("at_restaurant") /\ ride[r].food
                             => "TO_RESTAURANT" \in visited[r]
                        /\ Rank(ride[r].step) >= Rank("picked_up") => "TO_PICKUP" \in visited[r]
                        /\ ride[r].step = "completed" => "TO_DROP" \in visited[r]
      BY DEF ProgressIsDriven
    <2>1. Needed(ride[r].food, ride[r].step) \subseteq visited[r]
      BY <1>1 DEF IInv, RideOK
    <2> QED
      BY <2>1, Ranks DEF Needed, Leg
  <1> QED
    BY <1>1, Invariance, PTL

-----------------------------------------------------------------------------
(* No trip is dropped.                                                     *)

\* The driver's record is at work for r.
Served(r) ==
  engine[ride[r].driver].request = r /\ engine[ride[r].driver].state # "IDLE"

Carried(r) ==
  OnTrip(r) => \/ faults > 0 \/ greenlet[r] # <<>> \/ r \in starts
               \/ <<r, "completed">> \in reports \/ Served(r)

\* What is left of a script will be accepted, step by step, to its end.
ScriptLeft(r) ==
  LET g == greenlet[r]
  IN g # <<>> =>
       /\ OnTrip(r) /\ Rank(ride[r].step) < Rank(g[1])
       /\ g[Len(g)] = "completed"
       /\ \A i, j \in 1 .. Len(g) : i < j => Rank(g[i]) < Rank(g[j])
       /\ \A i \in 1 .. Len(g) : g[i] \in FOOD_ONLY_STEPS => ride[r].food

WaitsForTimer(d) == engine[d].state = "WAITING" => d \in timers

CInv ==
  /\ \A r \in Request : Carried(r) /\ ScriptLeft(r)
  /\ \A d \in Driver : WaitsForTimer(d)

LEMMA RankOrder ==
  /\ \A step \in Step : Rank(step) \in 1 .. 7 /\ (Rank(step) < 7 <=> step # "completed")
  BY Steps, Ranks

\* A ride that a step leaves alone stays carried.
LEMMA CarriedStays ==
  ASSUME NEW q \in Request, Carried(q), ride'[q].driver = ride[q].driver,
         OnTrip(q)' => OnTrip(q), UNCHANGED faults,
         greenlet'[q] = greenlet[q], q \in starts => q \in starts',
         <<q, "completed">> \in reports => <<q, "completed">> \in reports',
         OnTrip(q) /\ Served(q) => Served(q)' \/ <<q, "completed">> \in reports'
  PROVE  Carried(q)'
  BY DEF Carried

LEMMA ScriptStays ==
  ASSUME NEW q \in Request, ScriptLeft(q), ride'[q] = ride[q],
         greenlet'[q] = greenlet[q] \/ greenlet'[q] = <<>>
  PROVE  ScriptLeft(q)'
  BY DEF ScriptLeft, OnTrip

\* A new script: every step is later than the one before, and than accepted.
LEMMA ScriptsRise ==
  ASSUME NEW food \in BOOLEAN
  PROVE  LET g == Script(food)
         IN /\ g # <<>> /\ Rank("accepted") < Rank(g[1]) /\ g[Len(g)] = "completed"
            /\ \A i, j \in 1 .. Len(g) : i < j => Rank(g[i]) < Rank(g[j])
            /\ \A i \in 1 .. Len(g) : g[i] \in FOOD_ONLY_STEPS => food
  <1>1. CASE food
    <2> DEFINE s == <<"heading_to_pickup", "at_restaurant", "food_picked", "picked_up",
                      "trip_started", "completed">>
    <2>1. Script(food) = s /\ Len(s) = 6 /\ s # <<>>
      BY <1>1 DEF Script
    <2>2. /\ s[1] = "heading_to_pickup" /\ s[2] = "at_restaurant" /\ s[3] = "food_picked"
          /\ s[4] = "picked_up" /\ s[5] = "trip_started" /\ s[6] = "completed"
      OBVIOUS
    <2> HIDE DEF s
    <2>3. \A i \in 1 .. 6 : Rank(s[i]) = i + 1
      BY <2>2, Ranks
    <2>4. Rank("accepted") < Rank(s[1]) /\ s[Len(s)] = "completed"
      BY <2>1, <2>2, Ranks
    <2>5. \A i, j \in 1 .. 6 : i < j => Rank(s[i]) < Rank(s[j])
      BY <2>3
    <2> QED
      BY <1>1, <2>1, <2>4, <2>5
  <1>2. CASE ~food
    <2> DEFINE s == <<"heading_to_pickup", "picked_up", "trip_started", "completed">>
    <2>1. Script(food) = s /\ Len(s) = 4 /\ s # <<>>
      BY <1>2 DEF Script
    <2>2. /\ s[1] = "heading_to_pickup" /\ s[2] = "picked_up"
          /\ s[3] = "trip_started" /\ s[4] = "completed"
      OBVIOUS
    <2> HIDE DEF s
    <2>3. \A i \in 1 .. 4 : Rank(s[i]) = (IF i = 1 THEN 2 ELSE i + 3)
      BY <2>2, Ranks
    <2> QED
      BY <1>2, <2>1, <2>2, <2>3, Ranks DEF FOOD_ONLY_STEPS
  <1> QED
    BY <1>1, <1>2

LEMMA StartSimulationCarries ==
  ASSUME IInv, CInv, NEW r \in Request, NEW d \in Driver, NEW food \in BOOLEAN,
         StartSimulation(r, d, food)
  PROVE  CInv'
  <1>1. /\ ride[r].step = Null /\ UNCHANGED <<engine, reports, timers, faults>>
        /\ greenlet[r] = <<>>
    BY NothingBeforeAccept DEF StartSimulation, AcceptOffer
  <1>2. /\ ride'[r] = [driver |-> d, food |-> food, step |-> "accepted"]
        /\ \A q \in Request \ {r} : ride'[q] = ride[q]
    BY DEF StartSimulation, AcceptOffer, IInv, TypeOK
  <1>3. /\ \A q \in Request \ {r} : greenlet'[q] = greenlet[q]
        /\ starts \subseteq starts'
        /\ \/ greenlet'[r] = <<>> /\ r \in starts'
           \/ greenlet'[r] = Script(food)
    BY <1>1 DEF StartSimulation, IInv, TypeOK
  <1>4. ASSUME NEW q \in Request PROVE Carried(q)' /\ ScriptLeft(q)'
    <2>1. CASE q # r
      <3>1. ride'[q] = ride[q] /\ greenlet'[q] = greenlet[q] /\ Carried(q) /\ ScriptLeft(q)
        BY <1>2, <1>3, <2>1 DEF CInv
      <3> QED
        BY <1>1, <1>3, <3>1, CarriedStays, ScriptStays DEF OnTrip, Served
    <2>2. CASE q = r /\ greenlet'[r] = <<>> /\ r \in starts'
      BY <2>2 DEF Carried, ScriptLeft
    <2>3. CASE q = r /\ greenlet'[r] = Script(food)
      <3>1. OnTrip(r)' /\ ride'[r].step = "accepted" /\ ride'[r].food = food
        BY <1>2, NullIsNoStep, Steps DEF OnTrip
      <3> QED
        BY <2>3, <3>1, ScriptsRise DEF Carried, ScriptLeft
    <2> QED
      BY <1>3, <2>1, <2>2, <2>3
  <1> QED
    BY <1>1, <1>4 DEF CInv, WaitsForTimer

LEMMA SimulateCarries ==
  ASSUME IInv, CInv, NEW r \in Request, Simulate(r) PROVE CInv'
  <1> DEFINE g == greenlet[r]  step == Head(g)
  <1>1. /\ g \in Seq(Step) /\ g # <<>> /\ step \in Step /\ step = g[1] /\ Len(g) >= 1
        /\ UNCHANGED <<engine, starts, reports, timers, faults>> /\ ScriptLeft(r)
    BY DEF Simulate, IInv, TypeOK, node, CInv
  <1>2. Accepts(r, step)
    BY <1>1 DEF ScriptLeft, Accepts, RankOrder
  <1>3. /\ ride' = [ride EXCEPT ![r].step = step]
        /\ greenlet' = [greenlet EXCEPT ![r] = Tail(greenlet[r])]
    BY <1>2 DEF Simulate, ApplyProgress
  <1>4. /\ ride'[r].step = step /\ ride'[r].driver = ride[r].driver
        /\ ride'[r].food = ride[r].food
        /\ \A q \in Request \ {r} : ride'[q] = ride[q] /\ greenlet'[q] = greenlet[q]
        /\ greenlet'[r] = Tail(g)
    BY <1>3 DEF IInv, TypeOK, Ride
  <1>5. ASSUME NEW q \in Request, q # r PROVE Carried(q)' /\ ScriptLeft(q)'
    <2>1. ride'[q] = ride[q] /\ greenlet'[q] = greenlet[q] /\ Carried(q) /\ ScriptLeft(q)
      BY <1>4, <1>5 DEF CInv
    <2> QED
      BY <1>1, <2>1, CarriedStays, ScriptStays DEF OnTrip, Served
  <1>6. CASE Len(g) = 1
    <2>0. g[Len(g)] = "completed"
      BY <1>1 DEF ScriptLeft
    <2>1. g[1] = "completed" /\ Tail(g) = <<>>
      <3>1. ASSUME NEW s \in Seq(Step), Len(s) = 1 PROVE Tail(s) = <<>>
        <4>1. Tail(s) \in Seq(Step) /\ Len(Tail(s)) = 0
          BY <3>1
        <4> QED
          BY <4>1, EmptySeq
      <3> QED
        BY <1>1, <1>6, <2>0, <3>1
    <2>2. Carried(r)' /\ ScriptLeft(r)'
      BY <1>1, <1>4, <2>1 DEF Carried, ScriptLeft, OnTrip
    <2> QED
      BY <1>1, <1>5, <2>2 DEF CInv, WaitsForTimer
  <1>7. CASE Len(g) > 1
    <2>1. /\ Tail(g) \in Seq(Step) /\ Len(Tail(g)) = Len(g) - 1 /\ Tail(g) # <<>>
          /\ \A i \in 1 .. Len(g) - 1 : Tail(g)[i] = g[i + 1]
      BY <1>1, <1>7
    <2>2. /\ Rank(step) < Rank(g[2]) /\ g[2] \in Step
          /\ \A i, j \in 1 .. Len(g) - 1 : i < j => Rank(g[i + 1]) < Rank(g[j + 1])
          /\ \A i \in 1 .. Len(g) - 1 : g[i + 1] \in FOOD_ONLY_STEPS => ride[r].food
      BY <1>1, <1>7 DEF ScriptLeft
    <2>3. OnTrip(r)'
      <3>1. step # "completed" /\ step # Null
        BY <1>1, <2>2, RankOrder, NullIsNoStep
      <3> QED
        BY <1>4, <3>1 DEF OnTrip
    <2>4. Tail(g)[1] = g[2] /\ Tail(g)[Len(Tail(g))] = "completed"
      BY <1>1, <1>7, <2>1 DEF ScriptLeft
    <2>5. /\ \A i, j \in 1 .. Len(Tail(g)) : i < j => Rank(Tail(g)[i]) < Rank(Tail(g)[j])
          /\ \A i \in 1 .. Len(Tail(g)) : Tail(g)[i] \in FOOD_ONLY_STEPS => ride[r].food
      BY <2>1, <2>2
    <2>6. ScriptLeft(r)' /\ Carried(r)'
      BY <1>4, <2>1, <2>2, <2>3, <2>4, <2>5 DEF ScriptLeft, Carried
    <2> QED
      BY <1>1, <1>5, <2>6 DEF CInv, WaitsForTimer
  <1>8. Len(g) = 1 \/ Len(g) > 1
    <2> HIDE DEF g
    <2> QED
      BY <1>1
  <1> QED
    BY <1>6, <1>7, <1>8

LEMMA ReceiveCarries ==
  ASSUME IInv, CInv, NEW r \in Request, NEW step \in Step, Receive(r, step) PROVE CInv'
  <1>1. /\ UNCHANGED <<greenlet, engine, starts, timers, faults>>
        /\ <<r, step>> \in reports /\ reports' = reports \ {<<r, step>>}
        /\ ApplyProgress(r, step)
    BY DEF Receive
  <1>2. \A q \in Request : greenlet[q] = <<>>
    BY <1>1 DEF IInv, OneSimulator
  <1>3. \A q \in Request :
          /\ ride'[q].driver = ride[q].driver
          /\ ride'[q].step = IF q = r /\ Accepts(r, step) THEN step ELSE ride[q].step
    BY <1>1 DEF ApplyProgress, IInv, TypeOK, Ride
  <1>4. OnTrip(r) /\ step = "completed" => Accepts(r, step)
    <2>1. ASSUME OnTrip(r) PROVE ride[r].step \in Step /\ ride[r].step # "completed"
      BY <2>1 DEF OnTrip, IInv, TypeOK, Ride
    <2> QED
      BY <2>1, RankOrder, Ranks DEF Accepts, FOOD_ONLY_STEPS
  <1>5. ASSUME NEW q \in Request, OnTrip(q)' PROVE OnTrip(q) /\ (q = r => step # "completed")
    BY <1>3, <1>4, <1>5 DEF OnTrip, Accepts
  <1>6. ASSUME NEW q \in Request PROVE Carried(q)'
    <2>1. CASE OnTrip(q)'
      <3>1. OnTrip(q) /\ <<q, "completed">> # <<r, step>>
        BY <1>5, <2>1
      <3> QED
        BY <1>1, <1>3, <3>1, CarriedStays DEF CInv, Served
    <2>2. CASE ~OnTrip(q)'
      BY <2>2 DEF Carried
    <2> QED
      BY <2>1, <2>2
  <1> QED
    BY <1>1, <1>2, <1>6 DEF CInv, ScriptLeft, WaitsForTimer

\* The next leg begins, or the report that completes the ride is sent.
LEMMA NextLegEffect ==
  ASSUME IInv, NEW d \in Driver, NEW e \in Record, StartNextLeg(d, e)
  PROVE  /\ engine'[d].request = e.request
         /\ \/ engine'[d].state \in Leg
            \/ engine'[d].state = "IDLE" /\ <<e.request, "completed">> \in reports'
         /\ e.queue # <<>> => engine'[d].state \in Leg
         /\ \A q \in Driver \ {d} : engine'[q] = engine[q]
         /\ reports \subseteq reports'
  <1>1. engine \in [Driver -> Record]
    BY DEF IInv, TypeOK
  <1>2. CASE e.queue = <<>>
    <2> DEFINE e2 == [e EXCEPT !.state = "IDLE"]
    <2>1. engine' = [engine EXCEPT ![d] = e2] /\ reports' = reports \cup {<<e.request, "completed">>}
      BY <1>2 DEF StartNextLeg, Departure
    <2>2. e2.request = e.request /\ e2.state = "IDLE"
      BY DEF Record
    <2> HIDE DEF e2
    <2> QED
      BY <1>1, <1>2, <2>1, <2>2
  <1>3. CASE e.queue # <<>>
    <2> DEFINE e2 == [e EXCEPT !.state = Head(e.queue), !.queue = Tail(e.queue)]
    <2>1. engine' = [engine EXCEPT ![d] = e2] /\ reports \subseteq reports'
      BY <1>3 DEF StartNextLeg
    <2>2. e.queue \in Seq(Leg) /\ Head(e.queue) \in Leg
      BY <1>3 DEF Record
    <2>3. e2.request = e.request /\ e2.state \in Leg
      BY <2>2 DEF Record
    <2> HIDE DEF e2
    <2> QED
      BY <1>1, <2>1, <2>3
  <1> QED
    BY <1>2, <1>3

\* A ride that is not d's, or whose work goes on in d's record, stays carried.
LEMMA EngineCarries ==
  ASSUME IInv, CInv, NEW d \in Driver,
         UNCHANGED <<ride, greenlet, starts, faults>>, reports \subseteq reports',
         \A q \in Driver \ {d} : engine'[q] = engine[q],
         engine'[d].request = engine[d].request,
         \/ engine'[d].state # "IDLE"
         \/ <<engine[d].request, "completed">> \in reports'
         \/ engine[d].state = "IDLE",
         \A q \in Driver \ {d} : q \in timers => q \in timers',
         WaitsForTimer(d)'
  PROVE  CInv'
  <1>1. ASSUME NEW q \in Request PROVE Carried(q)' /\ ScriptLeft(q)'
    <2>1. ASSUME OnTrip(q), Served(q) PROVE Served(q)' \/ <<q, "completed">> \in reports'
      <3>1. ride[q].driver \in Driver
        BY <2>1 DEF OnTrip, IInv, RideOK
      <3> QED
        BY <2>1, <3>1 DEF Served
    <2> QED
      BY <2>1, CarriedStays, ScriptStays DEF CInv, OnTrip
  <1> QED
    BY <1>1 DEF CInv, WaitsForTimer

LEMMA StartRideCarries ==
  ASSUME IInv, CInv, NEW r \in Request, StartRide(r) PROVE CInv'
  <1> DEFINE e == [engine[ride[r].driver] EXCEPT !.request = r, !.hasFood = FALSE,
                                                 !.queue = Itinerary(ride[r].food)]
  <1> PICK d : d = ride[r].driver
    OBVIOUS
  <1>1. /\ r \in starts /\ starts' = starts \ {r} /\ StartNextLeg(d, e)
        /\ UNCHANGED <<ride, greenlet, timers, faults>>
    BY DEF StartRide, backend
  <1>2. OnTrip(r) /\ d \in Driver /\ engine[d] \in Record
    BY <1>1 DEF IInv, NodeOK, StartOK, RideOK, OnTrip, TypeOK
  <1>3. e \in Record /\ e.request = r /\ e.queue # <<>>
    <2>1. Itinerary(ride[r].food) \in Seq(Leg) /\ Itinerary(ride[r].food) # <<>>
      <3>1. CASE ride[r].food
        BY <3>1 DEF Itinerary, Leg
      <3>2. CASE ~ride[r].food
        BY <3>2 DEF Itinerary, Leg
      <3> QED
        BY <3>1, <3>2
    <2>2. [engine[d] EXCEPT !.request = r] \in Record
      BY <1>2 DEF Record
    <2>3. [engine[d] EXCEPT !.request = r, !.hasFood = FALSE] \in Record
      BY <2>2 DEF Record
    <2> QED
      BY <2>1, <2>3 DEF Record
  <1> HIDE DEF e
  <1>4. /\ engine'[d].request = r /\ engine'[d].state \in Leg /\ reports \subseteq reports'
        /\ \A q \in Driver \ {d} : engine'[q] = engine[q]
    BY <1>1, <1>2, <1>3, NextLegEffect
  <1>5. ASSUME NEW q \in Request PROVE Carried(q)' /\ ScriptLeft(q)'
    <2>1. ScriptLeft(q)'
      BY <1>1, ScriptStays DEF CInv
    <2>2. CASE q = r
      BY <1>1, <1>4, <2>1, <2>2 DEF Carried, Served, Leg
    <2>3. CASE q # r
      <3>1. OnTrip(q) => ride[q].driver \in Driver \ {d}
        BY <1>2, <2>3 DEF IInv, RideOK, OneTripEach, OnTrip
      <3>2. OnTrip(q) /\ Served(q) => Served(q)'
        BY <1>1, <1>4, <3>1 DEF Served
      <3> QED
        BY <1>1, <1>4, <2>1, <2>3, <3>2, CarriedStays DEF CInv, OnTrip
    <2> QED
      BY <2>2, <2>3
  <1> QED
    BY <1>1, <1>4, <1>5 DEF CInv, WaitsForTimer, Leg

LEMMA EngineStepCarries ==
  ASSUME IInv, CInv, EngineStep PROVE CInv'
  <1>0. engine \in [Driver -> Record] /\ Request \in SUBSET Request
    BY DEF IInv, TypeOK
  <1>1. ASSUME NEW r \in Request, StartRide(r) PROVE CInv'
    BY <1>1, StartRideCarries
  <1>2. ASSUME NEW x \in fetching, RouteFound(x) \/ RouteFails(x) PROVE CInv'
    <2> PICK d \in Driver : d = ride[x[1]].driver
      BY DEF IInv, NodeOK, FetchOK
    <2>1. /\ UNCHANGED <<ride, greenlet, starts, reports, timers, faults>>
          /\ \E p \in {x, Null} : engine' = [engine EXCEPT ![d].path = p]
      BY <1>2 DEF RouteFound, RouteFails, backend
    <2> PICK p \in {x, Null} : engine' = [engine EXCEPT ![d].path = p]
      BY <2>1
    <2> DEFINE e == [engine[d] EXCEPT !.path = p]
    <2>2. e.request = engine[d].request /\ e.state = engine[d].state
      BY <1>0 DEF Record
    <2>3. engine' = [engine EXCEPT ![d] = e]
      OBVIOUS
    <2> HIDE DEF e
    <2>4. /\ engine'[d].request = engine[d].request /\ engine'[d].state = engine[d].state
          /\ \A q \in Driver \ {d} : engine'[q] = engine[q]
      BY <1>0, <2>2, <2>3
    <2> QED
      BY <2>1, <2>4, EngineCarries DEF CInv, WaitsForTimer
  <1>3. ASSUME NEW d \in Driver, ArriveAndWait(d) PROVE CInv'
    <2> DEFINE food == engine[d].hasFood \/ engine[d].state = "TO_RESTAURANT"
               e == [[engine[d] EXCEPT !.path = Null] EXCEPT !.state = "WAITING", !.hasFood = food]
    <2>1. /\ UNCHANGED <<ride, greenlet, starts, faults>> /\ timers' = timers \cup {d}
          /\ reports \subseteq reports'
      BY <1>3 DEF ArriveAndWait, backend
    <2>2. [engine[d] EXCEPT !.path = Null] \in Record
      BY <1>0 DEF Record
    <2>3. e.request = engine[d].request /\ e.state = "WAITING"
      BY <1>0, <2>2 DEF Record
    <2>4. engine' = [engine EXCEPT ![d] = e]
      BY <1>3, <2>2 DEF ArriveAndWait, ClearPath, Record
    <2> HIDE DEF e
    <2>5. /\ engine'[d].request = engine[d].request /\ engine'[d].state = "WAITING"
          /\ \A q \in Driver \ {d} : engine'[q] = engine[q]
      BY <1>0, <2>3, <2>4
    <2> QED
      BY <2>1, <2>5, EngineCarries DEF WaitsForTimer
  <1>4. ASSUME NEW d \in Driver, NEW e \in Record, StartNextLeg(d, e),
               e.request = engine[d].request, UNCHANGED <<ride, greenlet, starts, faults>>,
               \A q \in Driver \ {d} : q \in timers => q \in timers'
        PROVE  CInv'
    <2>1. /\ engine'[d].request = engine[d].request
          /\ \/ engine'[d].state \in Leg
             \/ engine'[d].state = "IDLE" /\ <<engine[d].request, "completed">> \in reports'
          /\ \A q \in Driver \ {d} : engine'[q] = engine[q]
          /\ reports \subseteq reports'
      BY <1>4, NextLegEffect
    <2> QED
      BY <1>4, <2>1, EngineCarries DEF WaitsForTimer, Leg
  <1>5. ASSUME NEW d \in Driver, ArriveAtDrop(d) PROVE CInv'
    <2>1. ClearPath(d) \in Record /\ ClearPath(d).request = engine[d].request
      BY <1>0 DEF ClearPath, Record
    <2> QED
      BY <1>4, <1>5, <2>1 DEF ArriveAtDrop, backend
  <1>6. ASSUME NEW d \in Driver, TimerFires(d) PROVE CInv'
    <2>1. engine[d] \in Record
      BY <1>0
    <2> QED
      BY <1>4, <1>6, <2>1 DEF TimerFires, backend
  <1> QED
    BY <1>1, <1>2, <1>3, <1>5, <1>6 DEF EngineStep

\* A fault excuses every ride, but spoils no script that is left.
LEMMA FaultCarries ==
  ASSUME IInv, CInv,
         \/ \E r \in Request, d \in Driver, food \in BOOLEAN : StartFails(r, d, food)
         \/ BackendRestarts \/ EngineRestarts
  PROVE  CInv'
  <1>1. faults' > 0
    BY DEF StartFails, BackendRestarts, EngineRestarts, Fault, IInv, TypeOK
  <1>2. ASSUME NEW q \in Request PROVE ScriptLeft(q)'
    <2>1. ASSUME NEW r \in Request, NEW d \in Driver, NEW food \in BOOLEAN,
                 StartFails(r, d, food)
          PROVE  ScriptLeft(q)'
      <3>1. ride[r].step = Null /\ greenlet' = greenlet /\ greenlet[r] = <<>>
        BY <2>1, NothingBeforeAccept DEF StartFails, AcceptOffer
      <3>2. q # r => ride'[q] = ride[q]
        BY <2>1 DEF StartFails, AcceptOffer, IInv, TypeOK
      <3>3. CASE q # r
        BY <3>1, <3>2, <3>3, ScriptStays DEF CInv
      <3>4. CASE q = r
        BY <3>1, <3>4 DEF ScriptLeft
      <3> QED
        BY <3>3, <3>4
    <2>2. CASE BackendRestarts
      BY <2>2 DEF BackendRestarts, ScriptLeft
    <2>3. CASE EngineRestarts
      BY <2>3, ScriptStays DEF EngineRestarts, backend, CInv
    <2> QED
      BY <2>1, <2>2, <2>3
  <1>3. ASSUME NEW d \in Driver PROVE WaitsForTimer(d)'
    BY DEF StartFails, BackendRestarts, EngineRestarts, node, CInv, WaitsForTimer, NewRecord
  <1> QED
    BY <1>1, <1>2, <1>3 DEF CInv, Carried

LEMMA CarryInvariance == Spec => []CInv
  <1>1. Init => CInv
    BY DEF Init, CInv, Carried, ScriptLeft, WaitsForTimer, OnTrip, NewRecord
  <1>2. ASSUME IInv, CInv, [Next]_vars PROVE CInv'
    <2>1. CASE UNCHANGED vars
      <3>1. UNCHANGED <<ride, greenlet, engine, starts, reports, timers, faults>>
        BY <2>1 DEF vars
      <3>2. ASSUME NEW q \in Request PROVE Carried(q)' /\ ScriptLeft(q)'
        BY <1>2, <3>1 DEF CInv, Carried, ScriptLeft, OnTrip, Served
      <3>3. ASSUME NEW d \in Driver PROVE WaitsForTimer(d)'
        BY <1>2, <3>1 DEF CInv, WaitsForTimer
      <3> QED
        BY <3>2, <3>3 DEF CInv
    <2> QED
      BY <1>2, <2>1, StartSimulationCarries, SimulateCarries, ReceiveCarries,
         EngineStepCarries, FaultCarries DEF Next
  <1> QED
    BY <1>1, <1>2, Invariance, PTL DEF Spec

\* Whatever overtakes what, a trip that no fault has touched and no routing
\* failure has stranded has something pending that will bring it forward.
THEOREM NoTripDropped == Spec => []TripsAreCarriedOn
  <1>1. ASSUME IInv, CInv, NEW r \in Request, OnTrip(r)
        PROVE  UnderWay(r) \/ Stranded(r) \/ faults > 0
    <2> SUFFICES ASSUME Served(r) PROVE UnderWay(r) \/ Stranded(r)
      BY <1>1 DEF CInv, Carried, UnderWay
    <2> PICK d \in Driver : d = ride[r].driver
      BY <1>1 DEF IInv, RideOK, OnTrip
    <2>1. /\ engine[d].request = r /\ engine[d].state \in Leg \cup {"WAITING"}
          /\ mode = "node"
      BY <1>1, AtWork DEF Served, IInv, TypeOK, Record
    <2>2. CASE engine[d].state = "WAITING"
      BY <1>1, <2>1, <2>2 DEF CInv, WaitsForTimer, UnderWay
    <2>3. CASE engine[d].state \in Leg
      BY <2>1, <2>3 DEF UnderWay, AtEnd, Stranded
    <2> QED
      BY <2>1, <2>2, <2>3
  <1>2. IInv /\ CInv => TripsAreCarriedOn
    BY <1>1 DEF TripsAreCarriedOn
  <1> QED
    BY <1>2, Invariance, CarryInvariance, PTL

=============================================================================
