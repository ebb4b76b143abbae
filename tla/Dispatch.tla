------------------------------ MODULE Dispatch ------------------------------
(***************************************************************************)
(* backend/sockets/handlers.py: how a requested ride finds a driver.       *)
(*                                                                         *)
(* Every Socket.IO event, offer timer and maintenance pass runs in a       *)
(* greenlet, and any greenlet may run _offer_to_next_driver, so several    *)
(* can search for the same ride at once.  A greenlet yields at each        *)
(* database or Redis call; a worker below makes one call per step and      *)
(* keeps what it read.  The calls of ride_service are atomic here          *)
(* (RideService has their transactions), and accepted stands for accepted  *)
(* and in_progress.                                                        *)
(***************************************************************************)
EXTENDS Integers, FiniteSets

CONSTANTS Driver, Request,
          Job,                 \* greenlets for events and timers
          Maintenance,         \* the greenlet of _maintenance_loop
          MAX_OFFER_ATTEMPTS,
          MaxFaults,           \* bound on crashes and failed greenlets
          Null

ASSUME MaintenanceAssumption == Maintenance \notin Job
ASSUME AttemptsAssumption == MAX_OFFER_ATTEMPTS \in Nat /\ MaxFaults \in Nat
ASSUME NullAssumption == Null \notin Driver \cup Request

Worker == Job \cup {Maintenance}

VARIABLES ride,        \* status, driver and age of each rides row
          offer,       \* the newest offer of each ride to each driver
          turnedDown,  \* who rejected, or let expire, an offer for the ride
          pool,        \* drivers in the matching pool (Redis)
          timers,      \* offers whose _expire_offer_later is waiting
          job,         \* what each worker is doing
          pass,        \* the maintenance pass: phase, and ids still to handle
          faults       \* crashes and failures so far

vars == <<ride, offer, turnedDown, pool, timers, job, pass, faults>>
db == <<ride, offer, turnedDown>>

-----------------------------------------------------------------------------
Ride == [status : {"none", "requested", "accepted", "completed", "paid", "cancelled"},
         driver : Driver \cup {Null},
         age : 0 .. 2]  \* 1: MAINTENANCE_INTERVAL, 2: ACTIVE_REQUEST_TTL passed

\* A pending row is "due" once its expires_at has passed.
OfferStatus == {"none", "pending", "due", "accepted", "rejected", "expired"}

Task == [pc : {"idle", "check", "offers", "exclude", "reserved", "search",
               "offer", "cancel", "accepted", "entering", "leaving",
               "declining"},
         ride : Request \cup {Null}, driver : Driver \cup {Null},
         exclude : SUBSET Driver, tries : 0 .. MAX_OFFER_ATTEMPTS]

Idle == [pc |-> "idle", ride |-> Null, driver |-> Null, exclude |-> {},
         tries |-> 0]

Asleep == [phase |-> "asleep", todo |-> {}]

TypeOK ==
  /\ ride \in [Request -> Ride]
  /\ offer \in [Request \X Driver -> OfferStatus]
  /\ turnedDown \in [Request -> SUBSET Driver]
  /\ pool \subseteq Driver
  /\ timers \subseteq Request \X Driver
  /\ job \in [Worker -> Task]
  /\ pass \in [phase : {"asleep", "due", "stale", "unoffered"},
               todo : SUBSET (Request \X (Driver \cup {Null}))]
  /\ faults \in 0 .. MaxFaults

Init ==
  /\ ride = [r \in Request |-> [status |-> "none", driver |-> Null, age |-> 0]]
  /\ offer = [x \in Request \X Driver |-> "none"]
  /\ turnedDown = [r \in Request |-> {}]
  /\ pool = {}
  /\ timers = {}
  /\ job = [w \in Worker |-> Idle]
  /\ pass = Asleep
  /\ faults = 0

-----------------------------------------------------------------------------
(* What the calls of ride_service read and write.                          *)

Requested(r) == ride[r].status = "requested"
HasPendingOffer(r) == \E d \in Driver : offer[<<r, d>>] = "pending"
PendingOfferDrivers == {d \in Driver : \E r \in Request : offer[<<r, d>>] = "pending"}
OnTrip(d) == \E r \in Request : ride[r].driver = d /\ ride[r].status = "accepted"
Unanswered(x) == offer[x] \in {"pending", "due"}

\* Mutant: the comparison with NOW() is the wrong way round.
LiveOffers == {x \in Request \X Driver : offer[x] = "pending"}

DueOffers == {x \in Request \X Driver : offer[x] = "due"}

\* The offers in set get the answer; an answered offer's timer does nothing.
Answer(set, answer) ==
  /\ offer' = [x \in DOMAIN offer |-> IF x \in set THEN answer ELSE offer[x]]
  /\ turnedDown' = [r \in Request |->
                      turnedDown[r] \cup {d \in Driver : <<r, d>> \in set}]
  /\ timers' = timers \ set

\* Every change of the status writes updated_at = NOW().
SetStatus(r, status) ==
  ride' = [ride EXCEPT ![r] = [status |-> status, driver |-> @.driver, age |-> 0]]

\* Mutant: the NOT EXISTS condition is dropped.
StillRequested(r) == Requested(r)

\* cancel_unfulfilled
Unfulfilled(r) == Requested(r) /\ ~HasPendingOffer(r)

CancelUnfulfilled(r) ==
  IF Unfulfilled(r)
  THEN /\ SetStatus(r, "cancelled")
       /\ Answer({x \in DueOffers : x[1] = r}, "expired")
  ELSE UNCHANGED <<db, timers>>

-----------------------------------------------------------------------------
(* _offer_to_next_driver                                                   *)

Searching(r) == [Idle EXCEPT !.pc = "check", !.ride = r]

\* One read, and on to the next if the search is still wanted.
ReadOn(w, from, wanted, to) ==
  /\ job[w].pc = from
  /\ job' = [job EXCEPT ![w] = IF wanted THEN [@ EXCEPT !.pc = to] ELSE Idle]
  /\ UNCHANGED <<db, pool, timers, pass, faults>>

CheckRide(w) == ReadOn(w, "check", Requested(job[w].ride), "offers")
CheckOffers(w) == ReadOn(w, "offers", ~HasPendingOffer(job[w].ride), "exclude")

\* Two reads again: who turned the ride down, and who holds an offer.
Exclude(w, from, drivers, to) ==
  /\ job[w].pc = from
  /\ job' = [job EXCEPT ![w].pc = to, ![w].exclude = @ \cup drivers]
  /\ UNCHANGED <<db, pool, timers, pass, faults>>

ExcludeTurnedDown(w) == Exclude(w, "exclude", turnedDown[job[w].ride], "reserved")
ExcludeReserved(w) == Exclude(w, "reserved", PendingOfferDrivers, "search")

\* find_best_driver: the distances and ratings decide, so any candidate may win.
FindDriver(w) ==
  /\ job[w].pc = "search"
  /\ job[w].tries < MAX_OFFER_ATTEMPTS
  /\ \E d \in pool \ job[w].exclude :
       job' = [job EXCEPT ![w].pc = "offer", ![w].driver = d]
  /\ UNCHANGED <<db, pool, timers, pass, faults>>

\* No attempt is left, or no candidate is within the radius.
FindNobody(w) ==
  /\ job[w].pc = "search"
  /\ job' = [job EXCEPT ![w].pc = "cancel", ![w].exclude = {}, ![w].tries = 0]
  /\ UNCHANGED <<db, pool, timers, pass, faults>>

\* Mutant: the driver is not excluded and the attempt is not counted.
TryAgain(w) == [job[w] EXCEPT !.pc = "search", !.driver = Null]

TryNext(w) == [job[w] EXCEPT !.pc = "search", !.driver = Null,
                             !.exclude = @ \cup {job[w].driver}, !.tries = @ + 1]

\* Mutant: the driver's overdue offers for other rides are left pending.
OverdueOfRide(w) == {x \in DueOffers : x[1] = job[w].ride}

\* create_offer expires the overdue offers of the ride and of the driver first.
Overdue(w) == {x \in DueOffers : x[1] = job[w].ride \/ x[2] = job[w].driver}

OfferEnds(w) ==  \* the ride was answered meanwhile, or has an offer already
  LET r == job[w].ride
  IN /\ job[w].pc = "offer"
     /\ \/ ~Requested(r) /\ UNCHANGED <<offer, turnedDown, timers>>
        \/ Requested(r) /\ HasPendingOffer(r) /\ Answer(Overdue(w), "expired")
     /\ job' = [job EXCEPT ![w] = Idle]
     /\ UNCHANGED <<ride, pool, pass, faults>>

DriverRefused(w) ==  \* driver_on_trip: the expirations are committed
  /\ job[w].pc = "offer"
  /\ Unfulfilled(job[w].ride) /\ OnTrip(job[w].driver)
  /\ Answer(Overdue(w), "expired")
  /\ job' = [job EXCEPT ![w] = TryNext(w)]
  /\ UNCHANGED <<ride, pool, pass, faults>>

\* driver_has_pending_offer; or conflict, a deadlock over overdue offers.
DriverReserved(w) ==
  /\ job[w].pc = "offer"
  /\ \/ /\ Unfulfilled(job[w].ride)
        /\ ~OnTrip(job[w].driver) /\ job[w].driver \in PendingOfferDrivers
     \/ Requested(job[w].ride) /\ Overdue(w) # {}
  /\ job' = [job EXCEPT ![w] = TryNext(w)]
  /\ UNCHANGED <<db, pool, timers, pass, faults>>

MakeOffer(w) ==
  LET x == <<job[w].ride, job[w].driver>>
      expired == Overdue(w)
  IN /\ job[w].pc = "offer"
     /\ Unfulfilled(x[1])
     /\ ~OnTrip(x[2]) /\ x[2] \notin PendingOfferDrivers
     /\ offer' = [y \in DOMAIN offer |->
                    IF y = x THEN "pending"
                    ELSE IF y \in expired THEN "expired" ELSE offer[y]]
     /\ turnedDown' = [r \in Request |->
                         turnedDown[r] \cup {d \in Driver : <<r, d>> \in expired}]
     /\ timers' = (timers \ expired) \cup {x}
     /\ job' = [job EXCEPT ![w] = Idle]
     /\ UNCHANGED <<ride, pool, pass, faults>>

GiveUp(w) ==
  /\ job[w].pc = "cancel"
  /\ CancelUnfulfilled(job[w].ride)
  /\ job' = [job EXCEPT ![w] = Idle]
  /\ UNCHANGED <<pool, pass, faults>>

-----------------------------------------------------------------------------
(* Events, each handled by an idle worker.                                 *)

Starts(j, task) == job[j].pc = "idle" /\ job' = [job EXCEPT ![j] = task]

RequestRide(j, r) ==
  /\ ride[r].status = "none"
  /\ SetStatus(r, "requested")
  /\ Starts(j, Searching(r))
  /\ UNCHANGED <<offer, turnedDown, pool, timers, pass, faults>>

AcceptOffer(j, r, d) ==
  /\ offer[<<r, d>>] = "pending" /\ Requested(r) /\ ~OnTrip(d)
  /\ offer' = [offer EXCEPT ![<<r, d>>] = "accepted"]
  /\ timers' = timers \ {<<r, d>>}
  /\ ride' = [ride EXCEPT ![r] = [status |-> "accepted", driver |-> d, age |-> 0]]
  /\ Starts(j, [Idle EXCEPT !.pc = "accepted", !.driver = d])
  /\ UNCHANGED <<turnedDown, pool, pass, faults>>

LeavePool(j) ==
  /\ job[j].pc = "accepted"
  /\ pool' = pool \ {job[j].driver}
  /\ job' = [job EXCEPT ![j] = Idle]
  /\ UNCHANGED <<db, timers, pass, faults>>

\* offer_expired: the answer finds the offer overdue, or already expired.
AcceptTooLate(j, r, d) ==
  /\ offer[<<r, d>>] \in {"due", "expired"}
  /\ Answer({<<r, d>>}, "expired")
  /\ Starts(j, Searching(r))
  /\ UNCHANGED <<ride, pool, pass, faults>>

RejectOffer(j, r, d) ==
  /\ Unanswered(<<r, d>>)
  /\ Answer({<<r, d>>}, "rejected")
  /\ Starts(j, Searching(r))
  /\ UNCHANGED <<ride, pool, pass, faults>>

(* driver_offline: leave the pool, find the pending offer, if any (there   *)
(* is at most one), decline it and search for its ride.                    *)
GoOffline(j, d) ==
  /\ pool' = pool \ {d}
  /\ Starts(j, [Idle EXCEPT !.pc = "leaving", !.driver = d])
  /\ UNCHANGED <<db, timers, pass, faults>>

ReadPending(j) ==
  LET held == {r \in Request : Unanswered(<<r, job[j].driver>>)}
  IN /\ job[j].pc = "leaving"
     /\ \/ held = {} /\ job' = [job EXCEPT ![j] = Idle]
        \/ \E r \in held :
             job' = [job EXCEPT ![j].pc = "declining", ![j].ride = r]
     /\ UNCHANGED <<db, pool, timers, pass, faults>>

\* The offer may have been answered since it was read.
DeclinePending(j) ==
  LET r == job[j].ride
      d == job[j].driver
  IN /\ job[j].pc = "declining"
     /\ IF Unanswered(<<r, d>>)
        THEN /\ Answer({<<r, d>>}, "rejected")
             /\ job' = [job EXCEPT ![j] = Searching(r)]
        ELSE /\ job' = [job EXCEPT ![j] = Idle]
             /\ UNCHANGED <<offer, turnedDown, timers>>
     /\ UNCHANGED <<ride, pool, pass, faults>>

\* driver_online: the check, then the pool.
GoOnline(j, d) ==
  /\ ~OnTrip(d)
  /\ Starts(j, [Idle EXCEPT !.pc = "entering", !.driver = d])
  /\ UNCHANGED <<db, pool, timers, pass, faults>>

EnterPool(j) ==
  /\ job[j].pc = "entering"
  /\ pool' = pool \cup {job[j].driver}
  /\ job' = [job EXCEPT ![j] = Idle]
  /\ UNCHANGED <<db, timers, pass, faults>>

CompleteRide(r) ==
  /\ ride[r].status = "accepted"
  /\ SetStatus(r, "completed")
  /\ UNCHANGED <<offer, turnedDown, pool, timers, job, pass, faults>>

\* payment_collected: the driver re-enters the pool, without any check.
CollectPayment(j, r) ==
  /\ ride[r].status = "completed"
  /\ SetStatus(r, "paid")
  /\ Starts(j, [Idle EXCEPT !.pc = "entering", !.driver = ride[r].driver])
  /\ UNCHANGED <<offer, turnedDown, pool, timers, pass, faults>>

\* The socket closes, or the heartbeat key runs out.
Vanish(d) ==
  /\ d \in pool
  /\ pool' = pool \ {d}
  /\ UNCHANGED <<db, timers, job, pass, faults>>

TimerFires(j, r, d) ==
  /\ <<r, d>> \in timers /\ offer[<<r, d>>] = "due"
  /\ Answer({<<r, d>>}, "expired")
  /\ Starts(j, Searching(r))
  /\ UNCHANGED <<ride, pool, pass, faults>>

-----------------------------------------------------------------------------
(* run_maintenance_once: each list is read once and then worked through.   *)

StaleRides == {r \in Request : Requested(r) /\ ride[r].age = 2}

UnofferedRides == {r \in Request : Unfulfilled(r) /\ ride[r].age > 0}

\* Mutant: the pass ends when the due offers are expired.
NextPass ==
  /\ job[Maintenance].pc = "idle" /\ pass.todo = {}
  /\ pass' = IF pass.phase = "asleep"
             THEN [phase |-> "due", todo |-> DueOffers] ELSE Asleep
  /\ UNCHANGED <<db, pool, timers, job, faults>>

NextPhase ==
  /\ job[Maintenance].pc = "idle" /\ pass.todo = {}
  /\ pass' =
       CASE pass.phase = "asleep" -> [phase |-> "due", todo |-> DueOffers]
         [] pass.phase = "due" -> [phase |-> "stale", todo |-> StaleRides \X {Null}]
         [] pass.phase = "stale" -> [phase |-> "unoffered", todo |-> UnofferedRides \X {Null}]
         [] pass.phase = "unoffered" -> Asleep
  /\ UNCHANGED <<db, pool, timers, job, faults>>

Handle(x, phase) ==
  /\ job[Maintenance].pc = "idle"
  /\ pass.phase = phase /\ x \in pass.todo
  /\ pass' = [pass EXCEPT !.todo = @ \ {x}]

\* expire_offer, and the next driver if it was this call that expired it.
ExpireDue(x) ==
  /\ Handle(x, "due")
  /\ IF offer[x] = "due"
     THEN Answer({x}, "expired") /\ Starts(Maintenance, Searching(x[1]))
     ELSE UNCHANGED <<offer, turnedDown, timers, job>>
  /\ UNCHANGED <<ride, pool, faults>>

CancelStale(x) ==
  /\ Handle(x, "stale")
  /\ CancelUnfulfilled(x[1])
  /\ UNCHANGED <<pool, job, faults>>

OfferAgain(x) ==
  /\ Handle(x, "unoffered")
  /\ Starts(Maintenance, Searching(x[1]))
  /\ UNCHANGED <<db, pool, timers, faults>>

-----------------------------------------------------------------------------
(* Time and failures.                                                      *)

DeadlinePasses(x) ==
  /\ offer[x] = "pending"
  /\ offer' = [offer EXCEPT ![x] = "due"]
  /\ UNCHANGED <<ride, turnedDown, pool, timers, job, pass, faults>>

RideAges(r) ==
  /\ Requested(r) /\ ride[r].age < 2
  /\ ride' = [ride EXCEPT ![r].age = @ + 1]
  /\ UNCHANGED <<offer, turnedDown, pool, timers, job, pass, faults>>

\* The process restarts: Postgres and Redis keep what was committed.
Crash ==
  /\ faults < MaxFaults
  /\ faults' = faults + 1
  /\ job' = [w \in Worker |-> Idle]
  /\ timers' = {}
  /\ pass' = Asleep
  /\ UNCHANGED <<db, pool>>

\* A call of one worker raises: its handler, or the maintenance pass, ends.
Fail(w) ==
  /\ faults < MaxFaults
  /\ faults' = faults + 1
  /\ job[w].pc # "idle"
  /\ job' = [job EXCEPT ![w] = Idle]
  /\ pass' = IF w = Maintenance THEN Asleep ELSE pass
  /\ UNCHANGED <<db, pool, timers>>

-----------------------------------------------------------------------------
SearchStep(w) ==
  \/ CheckRide(w) \/ CheckOffers(w)
  \/ ExcludeTurnedDown(w) \/ ExcludeReserved(w)
  \/ FindDriver(w)
  \/ FindNobody(w)
  \/ OfferEnds(w)
  \/ DriverRefused(w)
  \/ DriverReserved(w)
  \/ MakeOffer(w)
  \/ GiveUp(w)

WorkerStep(w) ==
  \/ SearchStep(w)
  \/ LeavePool(w)
  \/ ReadPending(w)
  \/ DeclinePending(w)
  \/ EnterPool(w)

Event(j) ==
  \/ \E r \in Request : RequestRide(j, r) \/ CollectPayment(j, r)
  \/ \E d \in Driver : GoOffline(j, d) \/ GoOnline(j, d)
  \/ \E r \in Request, d \in Driver :
       \/ AcceptOffer(j, r, d)
       \/ AcceptTooLate(j, r, d)
       \/ RejectOffer(j, r, d)
       \/ TimerFires(j, r, d)

MaintenanceStep ==
  \/ NextPhase
  \/ \E x \in pass.todo : ExpireDue(x) \/ CancelStale(x) \/ OfferAgain(x)

Next ==
  \/ \E w \in Worker : WorkerStep(w)
  \/ \E j \in Job : Event(j)
  \/ MaintenanceStep
  \/ \E r \in Request : CompleteRide(r) \/ RideAges(r)
  \/ \E d \in Driver : Vanish(d)
  \/ \E x \in Request \X Driver : DeadlinePasses(x)
  \/ Crash
  \/ \E w \in Worker : Fail(w)

Spec == Init /\ [][Next]_vars

(* A greenlet that can run eventually does, the maintenance loop goes on,  *)
(* and time passes.  Nothing makes drivers answer or timers fire.          *)
Fairness ==
  /\ \A w \in Worker : WF_vars(WorkerStep(w))
  /\ WF_vars(MaintenanceStep)
  /\ \A x \in Request \X Driver : WF_vars(DeadlinePasses(x))
  /\ \A r \in Request : WF_vars(RideAges(r))

FairSpec == Spec /\ Fairness

-----------------------------------------------------------------------------
\* Only a requested ride has an unanswered offer, overdue or not; it has one
\* at most, and so has a driver, however searches and answers overlap:
\* create_offer's expirations keep the unique indexes in step with what is
\* pending (ride_service.py:253), and decline_pending_offers finds one ride.
OneUnansweredOffer ==
  /\ \A x \in Request \X Driver : Unanswered(x) => Requested(x[1])
  /\ \A x, y \in Request \X Driver :
       x # y /\ Unanswered(x) /\ Unanswered(y) => x[1] # y[1] /\ x[2] # y[2]

BookPhase(r) ==
  CASE ride[r].status = "none" -> "none"
    [] ride[r].status = "requested" -> "waiting"
    [] ride[r].status = "accepted" -> "driving"
    [] ride[r].status = "cancelled" -> "cancelled"
    [] ride[r].status \in {"completed", "paid"} -> "over"

Book ==
  INSTANCE OfferBook WITH
    phase <- [r \in Request |-> BookPhase(r)],
    winner <- [r \in Request |-> ride[r].driver],
    asked <- {x \in Request \X Driver : Unanswered(x)},
    late <- DueOffers

\* Searches that overlap, late answers, timers, maintenance passes, crashes:
\* together they keep the same offer book as the transactions of the service
\* do, so no step here does in one call what the tables would refuse.
ImplementsOfferBook == Book!BookSpec

\* How many calls a worker has left at most: it offers to MAX_OFFER_ATTEMPTS
\* drivers, in two calls each, before it gives up and cancels.
StepsLeft(t) ==
  LET M == MAX_OFFER_ATTEMPTS
  IN CASE t.pc = "idle" -> 0
       [] t.pc \in {"accepted", "entering", "cancel"} -> 1
       [] t.pc = "offer" -> 2 * (M - t.tries) + 1
       [] t.pc = "search" -> 2 * (M - t.tries) + 2
       [] t.pc = "reserved" -> 2 * M + 3
       [] t.pc = "exclude" -> 2 * M + 4
       [] t.pc = "offers" -> 2 * M + 5
       [] t.pc = "check" -> 2 * M + 6
       [] t.pc = "declining" -> 2 * M + 7
       [] t.pc = "leaving" -> 2 * M + 8

\* A busy worker comes nearer to its end with each call, whatever the others
\* do to the ride, the offers and the pool between its calls: drivers who
\* refuse, are reserved or vanish cost it an attempt each (handlers.py:737).
SearchesGetShorter ==
  [][\A w \in Worker :
       job[w].pc # "idle" /\ job'[w] # job[w]
         => StepsLeft(job'[w]) < StepsLeft(job[w])]_vars

(* Liveness: nobody waits forever, although workers die, timers are lost   *)
(* and searches for a ride overlap.                                        *)

\* Every requested ride is accepted or cancelled.
EveryRequestAnswered ==
  \A r \in Request : Requested(r) ~> ~Requested(r)

\* Every offer is answered or expires, so no driver stays reserved.
EveryOfferAnswered ==
  \A x \in Request \X Driver : Unanswered(x) ~> ~Unanswered(x)

\* Every search ends: drivers that refuse are passed over, and the handler
\* or maintenance pass that ran it goes on.
EverySearchEnds ==
  \A w \in Worker : job[w].pc # "idle" ~> job[w].pc = "idle"
=============================================================================
