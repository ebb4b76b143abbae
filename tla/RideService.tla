---------------------------- MODULE RideService ----------------------------
(***************************************************************************)
(* backend/services/ride_service.py over PostgreSQL: the rides and         *)
(* ride_offers tables, the partial unique indexes of the migration, and    *)
(* the transactions that move a ride through its life.                     *)
(*                                                                         *)
(* A call that reads NOW() sees the time its transaction started, before   *)
(* it waits for any lock.  Such a call has a Begin step, which notes the   *)
(* offers that are overdue at that time, and later steps that act on it.   *)
(* create_offer has one step more, because its "is the driver on a trip"   *)
(* check is not covered by any lock that an accept of another ride takes.  *)
(* A call that has no such window is one step.  A refusal that rolls back  *)
(* changes nothing but the session that ran it.                            *)
(***************************************************************************)
EXTENDS Integers

CONSTANTS Rider, Driver,  \* users and drivers rows
          Request,        \* request ids (fresh UUIDs)
          Session,        \* pooled connections, each running one transaction
          FoodChoice,     \* whether a request may, or must, order food
          MaxOffers,      \* bound on the ride_offers rows of a behaviour
          Null            \* SQL NULL

ASSUME NullAssumption == Null \notin Rider \cup Driver \cup Request
ASSUME OffersAssumption == MaxOffers \in Nat
ASSUME FoodAssumption == FoodChoice \subseteq BOOLEAN

OfferId == 1 .. MaxOffers

VARIABLES rides,      \* the rides table
          offers,     \* the ride_offers table
          earnings,   \* how often each driver was credited for each ride
          txn         \* the transaction each session is running

vars == <<rides, offers, earnings, txn>>

-----------------------------------------------------------------------------
(* The values of the columns.  "none" is a row not inserted yet.           *)

ACTIVE_STATUSES == {"accepted", "in_progress"}
OpenStatus == {"requested"} \cup ACTIVE_STATUSES
RideStatus == {"none", "completed", "cancelled"} \cup OpenStatus
OfferStatus == {"none", "pending", "accepted", "rejected", "expired"}

StepRank == [accepted |-> 1, heading_to_pickup |-> 2, at_restaurant |-> 3,
             food_picked |-> 4, picked_up |-> 5, trip_started |-> 6,
             completed |-> 7]
PROGRESS_STEPS == {"accepted", "heading_to_pickup", "at_restaurant",
                   "food_picked", "picked_up", "trip_started", "completed"}
ASSUME NullStepAssumption == Null \notin PROGRESS_STEPS
FOOD_ONLY_STEPS == {"at_restaurant", "food_picked"}

\* Mutant: the trip is in progress from the pickup on.
StatusForStepEarly(step) ==
  IF step \in {"picked_up", "trip_started"} THEN "in_progress"
  ELSE IF step = "completed" THEN "completed" ELSE "accepted"

StatusForStep(step) ==
  IF step = "trip_started" THEN "in_progress"
  ELSE IF step = "completed" THEN "completed" ELSE "accepted"

Ride == [status : RideStatus, rider : Rider \cup {Null},
         driver : Driver \cup {Null}, progress : PROGRESS_STEPS \cup {Null},
         food : BOOLEAN, paid : BOOLEAN]

Offer == [status : OfferStatus, ride : Request \cup {Null},
          driver : Driver \cup {Null},
          due : BOOLEAN]  \* expires_at <= the current time

Txn == [op : {"idle", "offer", "insert", "accept", "expire", "cancel"},
        ride : Request \cup {Null}, driver : Driver \cup {Null},
        overdue : SUBSET OfferId]  \* pending with expires_at <= NOW()

Idle == [op |-> "idle", ride |-> Null, driver |-> Null, overdue |-> {}]

TypeOK ==
  /\ rides \in [Request -> Ride]
  /\ offers \in [OfferId -> Offer]
  /\ earnings \in [Driver -> [Request -> Nat]]
  /\ txn \in [Session -> Txn]

Init ==
  /\ rides = [r \in Request |->
                [status |-> "none", rider |-> Null, driver |-> Null,
                 progress |-> Null, food |-> FALSE, paid |-> FALSE]]
  /\ offers = [o \in OfferId |->
                [status |-> "none", ride |-> Null, driver |-> Null,
                 due |-> FALSE]]
  /\ earnings = [d \in Driver |-> [r \in Request |-> 0]]
  /\ txn = [s \in Session |-> Idle]

-----------------------------------------------------------------------------
(* Rows, and the locks a transaction holds between two of its steps.       *)

Pending(o) == offers[o].status = "pending"
PendingOffers(r) == {o \in OfferId : Pending(o) /\ offers[o].ride = r}

\* Mutant: a ride in progress is forgotten.
HasAcceptedRide(d) ==
  \E r \in Request : rides[r].driver = d /\ rides[r].status = "accepted"

HasActiveRide(d) ==
  \E r \in Request : rides[r].driver = d /\ rides[r].status \in ACTIVE_STATUSES

IsNextOfferId(o) ==
  /\ offers[o].status = "none"
  /\ \A p \in OfferId : p < o => offers[p].status # "none"

\* Mutant: the offer is looked up by ride alone.
IsLatestOfferOfRide(o, r, d) ==
  offers[o].ride = r /\ \A p \in OfferId : offers[p].ride = r => p <= o

IsLatestOffer(o, r, d) ==
  /\ offers[o].ride = r /\ offers[o].driver = d
  /\ \A p \in OfferId : offers[p].ride = r /\ offers[p].driver = d => p <= o

\* Mutant: the ride row is read without FOR UPDATE.
NeverLocked(r) == FALSE

\* The ride row is locked FOR UPDATE by a create_offer about to insert ...
RideLocked(r) == \E s \in Session : txn[s].op = "insert" /\ txn[s].ride = r
\* ... which also holds the overdue offers it has marked expired.
OfferLocked(o) == \E s \in Session : txn[s].op = "insert" /\ o \in txn[s].overdue

\* Mutant: the status = 'pending' condition is dropped.
ResolveAny(ids, new) ==
  [o \in OfferId |-> IF o \in ids THEN [offers[o] EXCEPT !.status = new] ELSE offers[o]]

\* UPDATE ride_offers SET status = new WHERE id in ids AND status = 'pending'
Resolve(ids, new) ==
  [o \in OfferId |-> IF o \in ids /\ Pending(o)
                     THEN [offers[o] EXCEPT !.status = new] ELSE offers[o]]

Begin(s, op, r, d, candidates) ==
  /\ txn[s].op = "idle"
  /\ txn' = [txn EXCEPT ![s] =
               [op |-> op, ride |-> r, driver |-> d,
                overdue |-> {o \in candidates : Pending(o) /\ offers[o].due}]]
  /\ UNCHANGED <<rides, offers, earnings>>

End(s) == txn' = [txn EXCEPT ![s] = Idle]

Rollback(s) == End(s) /\ UNCHANGED <<rides, offers, earnings>>

-----------------------------------------------------------------------------
(* create_ride_request: the insert succeeds unless uq_rides_open_rider     *)
(* finds another open ride of the rider.                                   *)
CreateRideRequest(r, u, food) ==
  /\ rides[r].status = "none"
  /\ \A q \in Request : rides[q].rider = u => rides[q].status \notin OpenStatus
  /\ rides' = [rides EXCEPT ![r] =
                 [status |-> "requested", rider |-> u, driver |-> Null,
                  progress |-> Null, food |-> food, paid |-> FALSE]]
  /\ UNCHANGED <<offers, earnings, txn>>

(* create_offer *)
BeginOffer(s, r, d) ==
  /\ rides[r].status # "none"
  /\ Begin(s, "offer", r, d,
           {o \in OfferId : offers[o].ride = r \/ offers[o].driver = d})

\* The ride row is locked and the overdue offers are about to be written.
AtOffer(s) ==
  /\ txn[s].op = "offer"
  /\ ~RideLocked(txn[s].ride)

OfferableRide(s) ==
  /\ rides[txn[s].ride].status = "requested"
  /\ \A o \in txn[s].overdue : ~OfferLocked(o)

\* A pending offer that this transaction has not just marked expired.
StillPending(s) == PendingOffers(txn[s].ride) \ txn[s].overdue

OfferNotRequested(s) ==
  /\ AtOffer(s)
  /\ rides[txn[s].ride].status # "requested"
  /\ Rollback(s)

\* ride_has_pending_offer, driver_on_trip: the expirations are committed.
OfferRefused(s) ==
  /\ AtOffer(s) /\ OfferableRide(s)
  /\ StillPending(s) # {} \/ HasActiveRide(txn[s].driver)
  /\ offers' = Resolve(txn[s].overdue, "expired")
  /\ End(s)
  /\ UNCHANGED <<rides, earnings>>

OfferChecked(s) ==
  /\ AtOffer(s) /\ OfferableRide(s)
  /\ StillPending(s) = {} /\ ~HasActiveRide(txn[s].driver)
  /\ txn' = [txn EXCEPT ![s].op = "insert"]
  /\ UNCHANGED <<rides, offers, earnings>>

\* Mutant: no unique index on the driver.
CollidingOffersOfRide(s) ==
  {o \in OfferId : Pending(o) /\ o \notin txn[s].overdue /\ offers[o].ride = txn[s].ride}

\* uq_ride_offers_pending_driver and uq_ride_offers_pending_ride
CollidingOffers(s) ==
  {o \in OfferId : /\ Pending(o) /\ o \notin txn[s].overdue
                   /\ \/ offers[o].driver = txn[s].driver
                      \/ offers[o].ride = txn[s].ride}

\* driver_has_pending_offer: the rollback undoes the expirations too.
OfferCollides(s) ==
  /\ txn[s].op = "insert"
  /\ CollidingOffers(s) # {}
  /\ Rollback(s)

OfferMade(s) ==
  /\ txn[s].op = "insert"
  /\ CollidingOffers(s) = {}
  /\ \E new \in OfferId :
       /\ IsNextOfferId(new)
       /\ offers' = [Resolve(txn[s].overdue, "expired") EXCEPT ![new] =
                       [status |-> "pending", ride |-> txn[s].ride,
                        driver |-> txn[s].driver, due |-> FALSE]]
  /\ End(s)
  /\ UNCHANGED <<rides, earnings>>

(* accept_offer *)
BeginAccept(s, r, d) ==
  /\ rides[r].status # "none"
  /\ Begin(s, "accept", r, d,
           {o \in OfferId : offers[o].ride = r /\ offers[o].driver = d})

\* The ride row and then the driver's latest offer for it are locked.
AtAccept(s, o) ==
  /\ txn[s].op = "accept"
  /\ ~RideLocked(txn[s].ride) /\ ~OfferLocked(o)
  /\ IsLatestOffer(o, txn[s].ride, txn[s].driver)

AcceptTooLate(s) ==
  \E o \in OfferId :
    /\ AtAccept(s, o) /\ Pending(o) /\ o \in txn[s].overdue
    /\ offers' = Resolve({o}, "expired")
    /\ End(s)
    /\ UNCHANGED <<rides, earnings>>

AcceptWins(s) ==
  \E o \in OfferId :
    /\ AtAccept(s, o) /\ Pending(o) /\ o \notin txn[s].overdue
    /\ rides[txn[s].ride].status = "requested"
    /\ ~HasActiveRide(txn[s].driver)  \* uq_rides_active_driver
    /\ offers' = Resolve({o}, "accepted")
    /\ rides' = [rides EXCEPT ![txn[s].ride].status = "accepted",
                              ![txn[s].ride].progress = "accepted",
                              ![txn[s].ride].driver = txn[s].driver]
    /\ End(s)
    /\ UNCHANGED earnings

\* not_offered
AcceptNotOffered(s) ==
  /\ txn[s].op = "accept" /\ ~RideLocked(txn[s].ride)
  /\ \A o \in OfferId :
       ~(offers[o].ride = txn[s].ride /\ offers[o].driver = txn[s].driver)
  /\ Rollback(s)

\* Answered before, the ride is gone, or driver_on_trip (the offer stays
\* pending then: the rollback undoes its acceptance).
AcceptRefused(s) ==
  \E o \in OfferId :
    /\ AtAccept(s, o)
    /\ ~Pending(o) \/ o \notin txn[s].overdue
    /\ \/ ~Pending(o)
       \/ rides[txn[s].ride].status # "requested"
       \/ HasActiveRide(txn[s].driver)
    /\ Rollback(s)

(* reject_offer: no deadline is read, so there is no window. *)
RejectOffer(r, d) ==
  LET held == {o \in PendingOffers(r) : offers[o].driver = d}
  IN /\ ~RideLocked(r)
     /\ held # {} /\ \A o \in held : ~OfferLocked(o)
     /\ offers' = Resolve(held, "rejected")
     /\ UNCHANGED <<rides, earnings, txn>>

(* expire_offer: before the deadline it changes nothing. *)
BeginExpire(s, o) ==
  /\ Pending(o) /\ offers[o].due
  /\ Begin(s, "expire", offers[o].ride, Null, {o})

ExpireOffer(s) ==
  /\ txn[s].op = "expire"
  /\ ~RideLocked(txn[s].ride) /\ \A o \in txn[s].overdue : ~OfferLocked(o)
  /\ offers' = Resolve(txn[s].overdue, "expired")
  /\ End(s)
  /\ UNCHANGED <<rides, earnings>>

(* cancel_unfulfilled *)
BeginCancel(s, r) ==
  /\ rides[r].status # "none"
  /\ Begin(s, "cancel", r, Null, {o \in OfferId : offers[o].ride = r})

\* Mutant: the NOT EXISTS condition is dropped.
StillRequested(s) == rides[txn[s].ride].status = "requested"

\* WHERE status = 'requested' AND NOT EXISTS (an unexpired pending offer)
Unfulfilled(s) ==
  /\ rides[txn[s].ride].status = "requested"
  /\ StillPending(s) = {}

CancelUnfulfilled(s) ==
  /\ txn[s].op = "cancel" /\ ~RideLocked(txn[s].ride)
  /\ Unfulfilled(s)
  /\ \A o \in PendingOffers(txn[s].ride) : ~OfferLocked(o)
  /\ rides' = [rides EXCEPT ![txn[s].ride].status = "cancelled"]
  /\ offers' = Resolve(PendingOffers(txn[s].ride), "expired")
  /\ End(s)
  /\ UNCHANGED earnings

CancelRefused(s) ==
  /\ txn[s].op = "cancel" /\ ~RideLocked(txn[s].ride)
  /\ ~Unfulfilled(s)
  /\ Rollback(s)

(* update_progress *)

\* Mutant: the stored step is ignored.
FirstStep(r) == "accepted"

CurrentStep(r) ==
  IF rides[r].progress \in PROGRESS_STEPS THEN rides[r].progress ELSE "accepted"

UpdateProgress(r, d, step) ==
  /\ ~RideLocked(r)
  /\ step # "accepted"
  /\ rides[r].driver = d
  /\ rides[r].status \in ACTIVE_STATUSES
  /\ step \in FOOD_ONLY_STEPS => rides[r].food
  /\ StepRank[step] > StepRank[CurrentStep(r)]
  /\ rides' = [rides EXCEPT ![r].progress = step,
                            ![r].status = StatusForStep(step)]
  /\ UNCHANGED <<offers, earnings, txn>>

\* Mutant: paid_at is not tested.
ConfirmPaymentAgain(r, d) ==
  /\ rides[r].driver = d /\ rides[r].status = "completed"
  /\ earnings[d][r] < 2  \* keeps the mutant finite
  /\ rides' = [rides EXCEPT ![r].paid = TRUE]
  /\ earnings' = [earnings EXCEPT ![d][r] = @ + 1]
  /\ UNCHANGED <<offers, txn>>

(* confirm_payment: an amount that is not the stored fare is refused, so   *)
(* what is credited is always this ride's fare, once more.                 *)
ConfirmPayment(r, d) ==
  /\ ~RideLocked(r)
  /\ rides[r].driver = d
  /\ ~rides[r].paid
  /\ rides[r].status = "completed"
  /\ rides' = [rides EXCEPT ![r].paid = TRUE]
  /\ earnings' = [earnings EXCEPT ![d][r] = @ + 1]
  /\ UNCHANGED <<offers, txn>>

\* expires_at of a pending offer passes.
DeadlinePasses(o) ==
  /\ Pending(o) /\ ~offers[o].due
  /\ offers' = [offers EXCEPT ![o].due = TRUE]
  /\ UNCHANGED <<rides, earnings, txn>>

\* DeadlockDetected, a lost connection or a server crash: the transaction
\* is rolled back and its locks are released.
Abort(s) == txn[s].op # "idle" /\ Rollback(s)

-----------------------------------------------------------------------------
BeginTxn(s) ==
  \/ \E r \in Request : BeginCancel(s, r)
  \/ \E r \in Request, d \in Driver : BeginOffer(s, r, d) \/ BeginAccept(s, r, d)
  \/ \E o \in OfferId : BeginExpire(s, o)

TxnStep(s) ==
  \/ OfferNotRequested(s)
  \/ OfferRefused(s)
  \/ OfferChecked(s)
  \/ OfferCollides(s)
  \/ OfferMade(s)
  \/ AcceptTooLate(s)
  \/ AcceptWins(s)
  \/ AcceptNotOffered(s)
  \/ AcceptRefused(s)
  \/ ExpireOffer(s)
  \/ CancelUnfulfilled(s)
  \/ CancelRefused(s)
  \/ Abort(s)

OneStepCall ==
  \/ \E r \in Request, u \in Rider, food \in FoodChoice : CreateRideRequest(r, u, food)
  \/ \E r \in Request, d \in Driver : RejectOffer(r, d)
  \/ \E r \in Request, d \in Driver, step \in PROGRESS_STEPS : UpdateProgress(r, d, step)
  \/ \E r \in Request, d \in Driver : ConfirmPayment(r, d)

Next ==
  \/ \E s \in Session : BeginTxn(s) \/ TxnStep(s)
  \/ OneStepCall
  \/ \E o \in OfferId : DeadlinePasses(o)

Spec == Init /\ [][Next]_vars

-----------------------------------------------------------------------------
(* Safety                                                                  *)

AssignedStatus == ACTIVE_STATUSES \cup {"completed"}

\* The unique indexes: a driver holds at most one pending offer and a ride
\* has at most one (migration 001, lines 60-65: "these make reserve this
\* driver for this ride atomic").
ReservationsExclusive ==
  \A o, p \in OfferId :
    /\ o # p /\ Pending(o) /\ Pending(p)
    => offers[o].ride # offers[p].ride /\ offers[o].driver # offers[p].driver

\* A driver is on at most one active ride and a rider has at most one that
\* is requested or active, whichever of the rider's calls raced.
TripsExclusive ==
  \A q, r \in Request :
    q # r =>
      /\ rides[q].driver = rides[r].driver
         => ~(rides[q].status \in ACTIVE_STATUSES /\ rides[r].status \in ACTIVE_STATUSES)
      /\ rides[q].rider = rides[r].rider
         => ~(rides[q].status \in OpenStatus /\ rides[r].status \in OpenStatus)

\* The two tables agree although offers of other rides are expired without
\* their ride's lock: only a requested ride has a pending offer, and a ride
\* has a driver exactly when one offer for it, that driver's, was accepted.
OffersAgreeWithRides ==
  /\ \A o \in OfferId :
       /\ Pending(o) => rides[offers[o].ride].status = "requested"
       /\ offers[o].status = "accepted" =>
            /\ rides[offers[o].ride].status \in AssignedStatus
            /\ rides[offers[o].ride].driver = offers[o].driver
  /\ \A r \in Request :
       rides[r].status \in AssignedStatus =>
         \E o \in OfferId :
           /\ offers[o].ride = r /\ offers[o].status = "accepted"
           /\ \A p \in OfferId :
                offers[p].ride = r /\ offers[p].status = "accepted" => p = o

\* The rows the admin page counts as inconsistent (admin_routes.py:235-243)
\* never exist: the two columns a trip step writes stay in agreement.
NoInconsistentRides ==
  \A r \in Request :
    /\ rides[r].status = "in_progress" <=> rides[r].progress = "trip_started"
    /\ rides[r].status = "completed" <=> rides[r].progress = "completed"
    /\ rides[r].status \in AssignedStatus <=> rides[r].driver # Null
    /\ rides[r].paid => rides[r].status = "completed"

\* Earnings are exact: a driver was credited for a ride once if that driver
\* drove it and its payment was confirmed, and otherwise never.
CreditedOnce ==
  \A d \in Driver, r \in Request :
    earnings[d][r] = IF rides[r].paid /\ rides[r].driver = d THEN 1 ELSE 0

\* create_offer answers driver_has_pending_offer to every unique violation.
\* That is the right reason, and the dispatcher may go on to the next driver:
\* the index on the ride never fires, because the ride row is locked from
\* the check to the insert.
CollisionIsTheDrivers ==
  \A s \in Session :
    txn[s].op = "insert" =>
      /\ rides[txn[s].ride].status = "requested"
      /\ StillPending(s) = {}

-----------------------------------------------------------------------------
(* What a step may never do                                                *)

StatusMoves ==
  {<<"none", "requested">>, <<"requested", "accepted">>, <<"requested", "cancelled">>,
   <<"accepted", "in_progress">>, <<"accepted", "completed">>,
   <<"in_progress", "completed">>}

MovesForward(r) ==
  /\ rides[r].status # rides'[r].status
     => <<rides[r].status, rides'[r].status>> \in StatusMoves
  /\ rides[r].progress \in PROGRESS_STEPS /\ rides[r].progress # rides'[r].progress
     => /\ rides'[r].progress \in PROGRESS_STEPS
        /\ StepRank[rides[r].progress] < StepRank[rides'[r].progress]
  /\ rides[r].status # "none" => rides'[r].rider = rides[r].rider
  /\ rides[r].driver # Null => rides'[r].driver = rides[r].driver
  /\ rides[r].paid => rides'[r].paid

\* Every change of a ride goes forward: along the status graph, up the trip
\* steps, with its rider, its driver and its payment never taken back.  (A
\* driver may report completed without trip_started: the code allows it.)
RidesMoveForward == [][\A r \in Request : MovesForward(r)]_vars

GainsDriverByOffer(r) ==
  rides[r].driver # rides'[r].driver =>
    \E o \in OfferId :
      /\ Pending(o) /\ offers'[o].status = "accepted"
      /\ offers[o].ride = r /\ offers[o].driver = rides'[r].driver

\* A ride gets its driver only in the step that turns that driver's own
\* pending offer for it into the accepted one: an answer that lost a race
\* (rejected, expired, another driver's) never assigns.
AssignmentConsumesOffer == [][\A r \in Request : GainsDriverByOffer(r)]_vars

StaysAnswered(o) ==
  offers[o].status \notin {"none", "pending"} => offers'[o] = offers[o]

\* An answered offer is final, whichever of the timer, the maintenance pass,
\* the driver and another create_offer answered it first.
AnswersAreFinal == [][\A o \in OfferId : StaysAnswered(o)]_vars

KeptWhileLive(o) ==
  Pending(o) /\ ~offers[o].due =>
    /\ offers'[o].status # "expired"
    /\ rides'[offers[o].ride].status # "cancelled"

\* Until its deadline only its driver's answer ends an offer, and its ride
\* is not cancelled under it: a driver looking at a live offer is never too
\* late because of a stale decision of the server.
LiveOffersAreKept == [][\A o \in OfferId : KeptWhileLive(o)]_vars

-----------------------------------------------------------------------------
(* The ride service implements the lifecycle it promises.                  *)

PhaseOf(r) ==
  CASE rides[r].status = "none" -> "none"
    [] rides[r].status = "requested" -> "waiting"
    [] rides[r].status \in ACTIVE_STATUSES -> "driving"
    [] rides[r].status = "cancelled" -> "cancelled"
    [] rides[r].status = "completed" -> IF rides[r].paid THEN "settled" ELSE "arrived"

Lifecycle ==
  INSTANCE RideLifecycle WITH
    phase <- [r \in Request |-> PhaseOf(r)],
    rider <- [r \in Request |-> rides[r].rider],
    winner <- [r \in Request |-> rides[r].driver],
    credit <- earnings

\* Every step of the tables and transactions is one step of the lifecycle, or
\* none: no race gives a ride a second driver or credits a fare twice.
ImplementsLifecycle == Lifecycle!LifeSpec

BookPhase(r) ==
  CASE rides[r].status = "none" -> "none"
    [] rides[r].status = "requested" -> "waiting"
    [] rides[r].status \in ACTIVE_STATUSES -> "driving"
    [] rides[r].status = "cancelled" -> "cancelled"
    [] rides[r].status = "completed" -> "over"

PairOf(o) == <<offers[o].ride, offers[o].driver>>

Book ==
  INSTANCE OfferBook WITH
    phase <- [r \in Request |-> BookPhase(r)],
    winner <- [r \in Request |-> rides[r].driver],
    asked <- {PairOf(o) : o \in {p \in OfferId : Pending(p)}},
    late <- {PairOf(o) : o \in {p \in OfferId : Pending(p) /\ offers[p].due}}

\* However its transactions interleave, the service keeps an offer book: a
\* driver is asked only when nobody is asked in time for that ride and the
\* driver for no other, wins only what was asked, and until the deadline an
\* offer ends by an answer alone (create_offer, accept_offer, expire_offer
\* and cancel_unfulfilled each decide on rows read before they waited).
ImplementsOfferBook == Book!BookSpec

-----------------------------------------------------------------------------
(* What a test says and the code does not keep.                            *)

\* test_driver_on_a_trip_is_not_offered_another_ride: no driver on an active
\* ride holds a pending offer for another one.
TripDriversHoldNoOffer ==
  \A d \in Driver :
    HasActiveRide(d) => \A o \in OfferId : Pending(o) => offers[o].driver # d
=============================================================================
