------------------------- MODULE RideService_proofs -------------------------
(***************************************************************************)
(* The invariants of RideService, its step properties and its refinement   *)
(* of RideLifecycle, for every number of riders, drivers, rides, offers    *)
(* and sessions.                                                           *)
(***************************************************************************)
EXTENDS RideService, TLAPS

-----------------------------------------------------------------------------
(* The inductive invariant: what the runs check, and what a transaction    *)
(* between two of its steps relies on.                                     *)

\* An offer that was inserted names a ride and a driver.
RowsOK ==
  \A o \in OfferId :
    offers[o].status # "none" => offers[o].ride \in Request /\ offers[o].driver \in Driver

\* A transaction works on a ride; what it found overdue stays overdue.
TxnsOK ==
  \A s \in Session :
    /\ txn[s].op # "idle" => txn[s].ride \in Request
    /\ txn[s].op \in {"offer", "insert", "accept"} => txn[s].driver \in Driver
    /\ \A o \in txn[s].overdue : offers[o].due /\ offers[o].status # "none"

\* FOR UPDATE: a ride row has one holder.
OneHolder ==
  \A s, t \in Session :
    /\ txn[s].op = "insert" /\ txn[t].op = "insert" /\ txn[s].ride = txn[t].ride
    => s = t

\* A ride without a driver has made no trip step.
UnassignedHaveNoStep ==
  \A r \in Request :
    rides[r].status \in {"none", "requested", "cancelled"} => rides[r].progress = Null

TablesOK ==
  /\ RowsOK
  /\ UnassignedHaveNoStep
  /\ ReservationsExclusive
  /\ TripsExclusive
  /\ OffersAgreeWithRides
  /\ NoInconsistentRides
  /\ CreditedOnce

LocksOK == TxnsOK /\ OneHolder /\ CollisionIsTheDrivers

IInv == TypeOK /\ TablesOK /\ LocksOK

-----------------------------------------------------------------------------
(* Helpers of the actions                                                  *)

\* Resolve touches nothing but the status of pending offers among ids.
LEMMA ResolveFacts ==
  ASSUME TypeOK, NEW ids, NEW new \in OfferStatus
  PROVE  /\ Resolve(ids, new) \in [OfferId -> Offer]
         /\ \A o \in OfferId :
              /\ Resolve(ids, new)[o].ride = offers[o].ride
              /\ Resolve(ids, new)[o].driver = offers[o].driver
              /\ Resolve(ids, new)[o].due = offers[o].due
              /\ Resolve(ids, new)[o].status =
                   IF o \in ids /\ offers[o].status = "pending" THEN new ELSE offers[o].status
  BY DEF TypeOK, Resolve, Pending, Offer

\* Ending a transaction leaves every other one as it was.
LEMMA EndFacts ==
  ASSUME TypeOK, NEW s \in Session, End(s)
  PROVE  /\ txn' \in [Session -> Txn]
         /\ txn'[s] = Idle
         /\ \A t \in Session : t # s => txn'[t] = txn[t]
  BY DEF TypeOK, End, Idle, Txn

-----------------------------------------------------------------------------
(* Steps that write no table                                               *)

LEMMA TablesUnchanged ==
  ASSUME TablesOK, UNCHANGED <<rides, offers, earnings>>
  PROVE  TablesOK'
  BY DEF TablesOK, RowsOK, UnassignedHaveNoStep, ReservationsExclusive, TripsExclusive,
         OffersAgreeWithRides, NoInconsistentRides, CreditedOnce, Pending

\* A session that is not inserting adds no lock and no promise.
LEMMA LocksKept ==
  ASSUME LocksOK, NEW s \in Session, UNCHANGED <<rides, offers>>,
         \A t \in Session : t # s => txn'[t] = txn[t],
         txn'[s].op # "insert",
         txn'[s].op # "idle" => txn'[s].ride \in Request,
         txn'[s].op \in {"offer", "accept"} => txn'[s].driver \in Driver,
         \A o \in txn'[s].overdue : offers[o].due /\ offers[o].status # "none"
  PROVE  LocksOK'
<1>1. TxnsOK'
  BY DEF LocksOK, TxnsOK
<1>2. OneHolder'
  BY DEF LocksOK, OneHolder
<1>3. CollisionIsTheDrivers'
  BY DEF LocksOK, CollisionIsTheDrivers, StillPending, PendingOffers, Pending
<1> QED  BY <1>1, <1>2, <1>3 DEF LocksOK

LEMMA BeginPreserves ==
  ASSUME IInv, NEW s \in Session, NEW r \in Request, NEW d \in Driver \cup {Null},
         NEW op \in {"offer", "accept", "expire", "cancel"},
         op \in {"offer", "accept"} => d \in Driver,
         NEW candidates \in SUBSET OfferId, Begin(s, op, r, d, candidates)
  PROVE  IInv'
<1> DEFINE new == [op |-> op, ride |-> r, driver |-> d,
                   overdue |-> {o \in candidates : Pending(o) /\ offers[o].due}]
<1>1. /\ txn' \in [Session -> Txn]
      /\ txn'[s] = new
      /\ \A t \in Session : t # s => txn'[t] = txn[t]
  <2>1. new \in Txn
    BY DEF Txn
  <2> QED  BY <2>1 DEF Begin, IInv, TypeOK
<1>2. TypeOK'
  BY <1>1 DEF IInv, TypeOK, Begin
<1>3. TablesOK'
  BY TablesUnchanged DEF IInv, Begin
<1>4. LocksOK'
  <2>1. \A o \in new.overdue : offers[o].due /\ offers[o].status # "none"
    BY DEF Pending
  <2> QED  BY <1>1, <2>1, LocksKept DEF IInv, Begin
<1> QED  BY <1>2, <1>3, <1>4 DEF IInv

LEMMA RollbackPreserves ==
  ASSUME IInv, NEW s \in Session, Rollback(s)
  PROVE  IInv'
<1>1. /\ txn' \in [Session -> Txn]
      /\ txn'[s] = Idle
      /\ \A t \in Session : t # s => txn'[t] = txn[t]
  BY EndFacts DEF Rollback, IInv
<1>2. TypeOK'
  BY <1>1 DEF IInv, TypeOK, Rollback
<1>3. TablesOK'
  BY TablesUnchanged DEF IInv, Rollback
<1>4. LocksOK'
  BY <1>1, LocksKept DEF IInv, Rollback, Idle
<1> QED  BY <1>2, <1>3, <1>4 DEF IInv

LEMMA CheckedPreserves ==
  ASSUME IInv, NEW s \in Session, OfferChecked(s)
  PROVE  IInv'
<1> USE DEF OfferChecked, AtOffer
<1>1. /\ txn' \in [Session -> Txn]
      /\ txn'[s] = [txn[s] EXCEPT !.op = "insert"]
      /\ \A t \in Session : t # s => txn'[t] = txn[t]
  <2> DEFINE now == [txn[s] EXCEPT !.op = "insert"]
  <2>1. txn \in [Session -> Txn] /\ txn[s] \in Txn /\ txn' = [txn EXCEPT ![s] = now]
    BY DEF IInv, TypeOK
  <2>2. now \in Txn
    BY <2>1 DEF Txn
  <2> HIDE DEF now
  <2>3. /\ txn' \in [Session -> Txn] /\ txn'[s] = now
        /\ \A t \in Session : t # s => txn'[t] = txn[t]
    BY <2>1, <2>2
  <2> QED  BY <2>3 DEF now
<1>2. TypeOK'
  BY <1>1 DEF IInv, TypeOK
<1>3. TablesOK'
  BY TablesUnchanged DEF IInv
<1>4. txn'[s].ride = txn[s].ride /\ txn'[s].driver = txn[s].driver
      /\ txn'[s].overdue = txn[s].overdue /\ txn'[s].op = "insert"
  BY <1>1 DEF IInv, TypeOK, Txn
<1>5. TxnsOK'
  BY <1>1, <1>4 DEF IInv, LocksOK, TxnsOK
<1>6. OneHolder'
  BY <1>1, <1>4 DEF IInv, LocksOK, OneHolder, RideLocked
<1>7. CollisionIsTheDrivers'
  BY <1>1, <1>4 DEF IInv, LocksOK, CollisionIsTheDrivers, OfferableRide,
                    StillPending, PendingOffers, Pending
<1> QED  BY <1>2, <1>3, <1>5, <1>6, <1>7 DEF IInv, LocksOK

-----------------------------------------------------------------------------
(* Steps that write the tables                                             *)

\* LocksOK survives any step that starts no transaction, adds no pending
\* offer and leaves every ride locked for an insert requested.
LEMMA LocksSurvive ==
  ASSUME LocksOK, TypeOK,
         \A t \in Session : txn'[t] = txn[t] \/ txn'[t] = Idle,
         \A o \in OfferId :
           /\ offers'[o].ride = offers[o].ride
           /\ offers[o].due => offers'[o].due
           /\ offers[o].status # "none" => offers'[o].status # "none"
           /\ offers'[o].status = "pending" => offers[o].status = "pending",
         \A r \in Request :
           RideLocked(r) => rides'[r].status = rides[r].status
  PROVE  LocksOK'
<1>1. TxnsOK'
  BY DEF LocksOK, TxnsOK, Idle, TypeOK, Txn
<1>2. OneHolder'
  BY DEF LocksOK, OneHolder, Idle
<1>3. CollisionIsTheDrivers'
  <2> SUFFICES ASSUME NEW s \in Session, txn'[s].op = "insert"
               PROVE  /\ rides'[txn'[s].ride].status = "requested"
                      /\ StillPending(s)' = {}
    BY DEF CollisionIsTheDrivers
  <2>1. txn'[s] = txn[s] /\ txn[s].ride \in Request /\ RideLocked(txn[s].ride)
    BY DEF Idle, LocksOK, TxnsOK, RideLocked
  <2>2. rides[txn[s].ride].status = "requested" /\ StillPending(s) = {}
    BY <2>1 DEF LocksOK, CollisionIsTheDrivers
  <2>3. StillPending(s)' \subseteq StillPending(s)
    BY <2>1 DEF StillPending, PendingOffers, Pending
  <2> QED  BY <2>1, <2>2, <2>3
<1> QED  BY <1>1, <1>2, <1>3 DEF LocksOK

\* Expiring or rejecting pending offers, of whatever ride.
LEMMA ResolvePreserves ==
  ASSUME IInv, NEW ids, NEW new \in {"expired", "rejected"},
         offers' = Resolve(ids, new), UNCHANGED <<rides, earnings>>,
         UNCHANGED txn \/ \E s \in Session : End(s)
  PROVE  IInv'
<1>1. /\ offers' \in [OfferId -> Offer]
      /\ \A o \in OfferId :
           /\ offers'[o].ride = offers[o].ride
           /\ offers'[o].driver = offers[o].driver
           /\ offers'[o].due = offers[o].due
           /\ offers'[o].status =
                IF o \in ids /\ offers[o].status = "pending" THEN new ELSE offers[o].status
  BY ResolveFacts DEF IInv, OfferStatus
<1>2. txn' \in [Session -> Txn] /\ \A t \in Session : txn'[t] = txn[t] \/ txn'[t] = Idle
  BY EndFacts DEF IInv, TypeOK
<1>3. TypeOK'
  BY <1>1, <1>2 DEF IInv, TypeOK
<1>4. RowsOK' /\ ReservationsExclusive'
  BY <1>1 DEF IInv, TablesOK, RowsOK, ReservationsExclusive, Pending
<1>5. OffersAgreeWithRides'
  BY <1>1 DEF IInv, TablesOK, OffersAgreeWithRides, Pending
<1>6. UnassignedHaveNoStep' /\ TripsExclusive' /\ NoInconsistentRides' /\ CreditedOnce'
  BY DEF IInv, TablesOK, UnassignedHaveNoStep, TripsExclusive, NoInconsistentRides, CreditedOnce
<1>7. LocksOK'
  BY <1>1, <1>2, LocksSurvive DEF IInv
<1> QED  BY <1>3, <1>4, <1>5, <1>6, <1>7 DEF IInv, TablesOK

LEMMA DeadlinePreserves ==
  ASSUME IInv, NEW o \in OfferId, DeadlinePasses(o)
  PROVE  IInv'
<1>1. /\ offers' \in [OfferId -> Offer]
      /\ \A p \in OfferId :
           /\ offers'[p].ride = offers[p].ride
           /\ offers'[p].driver = offers[p].driver
           /\ offers'[p].status = offers[p].status
           /\ offers[p].due => offers'[p].due
  BY DEF IInv, TypeOK, DeadlinePasses, Offer
<1>2. TypeOK'
  BY <1>1 DEF IInv, TypeOK, DeadlinePasses
<1>3. TablesOK'
  BY <1>1 DEF IInv, TablesOK, RowsOK, ReservationsExclusive, OffersAgreeWithRides,
              Pending, DeadlinePasses, UnassignedHaveNoStep, TripsExclusive, NoInconsistentRides, CreditedOnce
<1>4. LocksOK'
  BY <1>1, LocksSurvive DEF IInv, DeadlinePasses
<1> QED  BY <1>2, <1>3, <1>4 DEF IInv

\* The lock and the check it covers carry the reservation through the insert;
\* the index on the driver does the rest.
LEMMA OfferMadePreserves ==
  ASSUME IInv, NEW s \in Session, OfferMade(s)
  PROVE  IInv'
<1> DEFINE r == txn[s].ride
           d == txn[s].driver
           row == [status |-> "pending", ride |-> r, driver |-> d, due |-> FALSE]
<1>1. PICK new \in OfferId :
        /\ IsNextOfferId(new)
        /\ offers' = [Resolve(txn[s].overdue, "expired") EXCEPT ![new] = row]
  BY DEF OfferMade
<1>2. /\ r \in Request /\ d \in Driver /\ rides[r].status = "requested"
      /\ StillPending(s) = {} /\ RideLocked(r) /\ CollidingOffers(s) = {}
  BY DEF OfferMade, IInv, LocksOK, TxnsOK, CollisionIsTheDrivers, RideLocked
<1>3. offers[new].status = "none"
  BY <1>1 DEF IsNextOfferId
<1>4. /\ offers' \in [OfferId -> Offer]
      /\ offers'[new] = row
      /\ \A o \in OfferId : o # new =>
           /\ offers'[o].ride = offers[o].ride
           /\ offers'[o].driver = offers[o].driver
           /\ offers'[o].due = offers[o].due
           /\ offers'[o].status =
                IF o \in txn[s].overdue /\ offers[o].status = "pending"
                THEN "expired" ELSE offers[o].status
  <2>1. row \in Offer
    BY <1>2 DEF Offer, OfferStatus
  <2> HIDE DEF row
  <2> QED  BY <1>1, <2>1, ResolveFacts DEF IInv, OfferStatus
<1>5. /\ txn' \in [Session -> Txn] /\ txn'[s] = Idle
      /\ \A t \in Session : t # s => txn'[t] = txn[t]
  BY EndFacts DEF OfferMade, IInv
<1>6. TypeOK'
  BY <1>4, <1>5 DEF IInv, TypeOK, OfferMade
<1>7. RowsOK'
  BY <1>2, <1>4 DEF IInv, TablesOK, RowsOK
<1>8. ReservationsExclusive'
  <2>1. \A o \in OfferId : o # new /\ offers'[o].status = "pending"
          => offers[o].status = "pending" /\ offers[o].ride # r /\ offers[o].driver # d
    BY <1>2, <1>4 DEF CollidingOffers, Pending
  <2> QED  BY <1>4, <2>1 DEF IInv, TablesOK, ReservationsExclusive, Pending
<1>9. OffersAgreeWithRides'
  <2>1. /\ OffersAgreeWithRides /\ rides' = rides
        /\ \A o \in OfferId : offers'[o].status = "accepted" <=> offers[o].status = "accepted"
        /\ \A o \in OfferId : offers[o].status = "accepted" => offers'[o] = offers[o]
    <3>1. ASSUME NEW o \in OfferId, offers[o].status = "accepted"
          PROVE  offers'[o] = offers[o]
      <4>1. o # new /\ Resolve(txn[s].overdue, "expired")[o] = offers[o]
        BY <1>3, <3>1 DEF Resolve, Pending
      <4> QED  BY <1>1, <4>1 DEF Resolve
    <3>2. \A o \in OfferId : offers'[o].status = "accepted" => offers[o].status = "accepted"
      BY <1>4
    <3>3. OffersAgreeWithRides /\ rides' = rides
      BY DEF IInv, TablesOK, OfferMade
    <3> QED  BY <3>1, <3>2, <3>3
  <2>2. \A o \in OfferId : offers'[o].status = "pending" =>
          o = new \/ (offers[o].status = "pending" /\ offers'[o].ride = offers[o].ride)
    BY <1>4
  <2>3. \A o \in OfferId : Pending(o)' => rides'[offers'[o].ride].status = "requested"
    BY <1>2, <1>4, <2>1, <2>2 DEF OffersAgreeWithRides, Pending
  <2>4. \A q \in Request :
          rides[q].status \in AssignedStatus =>
            \E o \in OfferId :
              /\ offers'[o].ride = q /\ offers'[o].status = "accepted"
              /\ \A p \in OfferId : offers'[p].ride = q /\ offers'[p].status = "accepted" => p = o
    BY <2>1 DEF OffersAgreeWithRides
  <2> QED  BY <2>1, <2>3, <2>4 DEF OffersAgreeWithRides
<1>10. UnassignedHaveNoStep' /\ TripsExclusive' /\ NoInconsistentRides' /\ CreditedOnce'
  BY DEF IInv, TablesOK, UnassignedHaveNoStep, TripsExclusive, NoInconsistentRides, CreditedOnce, OfferMade
<1>11. LocksOK'
  <2>1. TxnsOK'
    BY <1>3, <1>4, <1>5 DEF IInv, LocksOK, TxnsOK, Idle, TypeOK, Txn
  <2>2. OneHolder'
    BY <1>5 DEF IInv, LocksOK, OneHolder, Idle
  <2>3. CollisionIsTheDrivers'
    <3> SUFFICES ASSUME NEW t \in Session, txn'[t].op = "insert"
                 PROVE  /\ rides'[txn'[t].ride].status = "requested"
                        /\ StillPending(t)' = {}
      BY DEF CollisionIsTheDrivers
    <3>1. txn'[t] = txn[t] /\ t # s /\ txn[t].ride # r
      BY <1>5 DEF Idle, IInv, LocksOK, OneHolder, OfferMade
    <3>2. rides[txn[t].ride].status = "requested" /\ StillPending(t) = {}
      BY <3>1 DEF IInv, LocksOK, CollisionIsTheDrivers
    <3>3. StillPending(t)' \subseteq StillPending(t)
      BY <1>4, <3>1 DEF StillPending, PendingOffers, Pending
    <3> QED  BY <3>1, <3>2, <3>3 DEF OfferMade
  <2> QED  BY <2>1, <2>2, <2>3 DEF LocksOK
<1> QED  BY <1>6, <1>7, <1>8, <1>9, <1>10, <1>11 DEF IInv, TablesOK

\* What an accept makes of a ride's row.
LEMMA AcceptedRow ==
  ASSUME NEW row \in Ride, NEW d \in Driver,
         "accepted" \in RideStatus, "accepted" \in PROGRESS_STEPS
  PROVE  [row EXCEPT !.status = "accepted", !.progress = "accepted", !.driver = d] \in Ride
  BY DEF Ride

LEMMA AcceptWinsPreserves ==
  ASSUME IInv, NEW s \in Session, AcceptWins(s)
  PROVE  IInv'
<1> DEFINE r == txn[s].ride
           d == txn[s].driver
<1>1. PICK o \in OfferId :
        /\ IsLatestOffer(o, r, d) /\ Pending(o)
        /\ offers' = Resolve({o}, "accepted")
  BY DEF AcceptWins, AtAccept
<1>2. /\ r \in Request /\ d \in Driver /\ d # Null
      /\ rides[r].status = "requested" /\ ~RideLocked(r) /\ ~HasActiveRide(d)
      /\ offers[o].ride = r /\ offers[o].driver = d /\ offers[o].status = "pending"
  BY <1>1, NullAssumption
     DEF AcceptWins, AtAccept, IInv, LocksOK, TxnsOK, IsLatestOffer, Pending
<1>3. /\ rides' \in [Request -> Ride]
      /\ \A q \in Request : q # r => rides'[q] = rides[q]
      /\ rides'[r].status = "accepted" /\ rides'[r].progress = "accepted"
      /\ rides'[r].driver = d /\ rides'[r].rider = rides[r].rider
      /\ rides'[r].paid = rides[r].paid
  <2> DEFINE row == [rides[r] EXCEPT !.status = "accepted", !.progress = "accepted", !.driver = d]
  <2>1. rides' = [rides EXCEPT ![r] = row]
    BY <1>2 DEF AcceptWins, IInv, TypeOK, Ride
  <2>2. row \in Ride /\ rides[r] \in Ride
    <3>1. rides[r] \in Ride
      BY <1>2 DEF IInv, TypeOK
    <3>2. "accepted" \in RideStatus /\ "accepted" \in PROGRESS_STEPS
      BY DEF RideStatus, OpenStatus, ACTIVE_STATUSES, PROGRESS_STEPS
    <3> QED  BY <1>2, <3>1, <3>2, AcceptedRow
  <2>3. /\ row.status = "accepted" /\ row.progress = "accepted" /\ row.driver = d
        /\ row.rider = rides[r].rider /\ row.paid = rides[r].paid
    BY <2>2 DEF Ride
  <2> HIDE DEF row
  <2> QED  BY <1>2, <2>1, <2>2, <2>3 DEF IInv, TypeOK
<1>4. /\ offers' \in [OfferId -> Offer]
      /\ \A p \in OfferId :
           /\ offers'[p].ride = offers[p].ride
           /\ offers'[p].driver = offers[p].driver
           /\ offers'[p].due = offers[p].due
           /\ offers'[p].status = IF p = o THEN "accepted" ELSE offers[p].status
  BY <1>1, <1>2, ResolveFacts DEF IInv, OfferStatus
<1>5. txn' \in [Session -> Txn] /\ \A t \in Session : txn'[t] = txn[t] \/ txn'[t] = Idle
  BY EndFacts DEF AcceptWins, IInv
<1>6. TypeOK'
  BY <1>2, <1>3, <1>4, <1>5 DEF IInv, TypeOK, AcceptWins
<1>7. RowsOK' /\ ReservationsExclusive'
  BY <1>2, <1>4 DEF IInv, TablesOK, RowsOK, ReservationsExclusive, Pending
<1>8. TripsExclusive'
  BY <1>2, <1>3 DEF IInv, TablesOK, TripsExclusive, HasActiveRide, OpenStatus, ACTIVE_STATUSES
<1>9. OffersAgreeWithRides'
  <2>1. \A p \in OfferId : Pending(p)' => Pending(p) /\ p # o /\ offers[p].ride # r
    BY <1>2, <1>4 DEF IInv, TablesOK, ReservationsExclusive, Pending
  <2>2. \A p \in OfferId : offers[p].status = "accepted" => offers[p].ride # r
    BY <1>2 DEF IInv, TablesOK, OffersAgreeWithRides, AssignedStatus, ACTIVE_STATUSES
  <2>3. \A p \in OfferId : Pending(p) => offers[p].ride \in Request
    BY DEF IInv, TablesOK, RowsOK, Pending
  <2>4. \A p \in OfferId : offers[p].status = "accepted" => offers[p].ride \in Request
    BY DEF IInv, TablesOK, RowsOK
  <2>5. \A p \in OfferId : Pending(p)' => rides'[offers'[p].ride].status = "requested"
    BY <1>3, <1>4, <2>1, <2>3 DEF IInv, TablesOK, OffersAgreeWithRides
  <2>6. \A p \in OfferId : offers'[p].status = "accepted" =>
          /\ rides'[offers'[p].ride].status \in AssignedStatus
          /\ rides'[offers'[p].ride].driver = offers'[p].driver
    BY <1>2, <1>3, <1>4, <2>2, <2>4
       DEF IInv, TablesOK, OffersAgreeWithRides, AssignedStatus, ACTIVE_STATUSES
  <2>7. ASSUME NEW q \in Request, rides'[q].status \in AssignedStatus
        PROVE  \E p \in OfferId :
                 /\ offers'[p].ride = q /\ offers'[p].status = "accepted"
                 /\ \A x \in OfferId : offers'[x].ride = q /\ offers'[x].status = "accepted" => x = p
    <3>1. CASE q = r
      BY <1>2, <1>4, <2>2, <3>1
    <3>2. CASE q # r
      <4>1. PICK p \in OfferId :
              /\ offers[p].ride = q /\ offers[p].status = "accepted"
              /\ \A x \in OfferId : offers[x].ride = q /\ offers[x].status = "accepted" => x = p
        BY <1>3, <2>7, <3>2 DEF IInv, TablesOK, OffersAgreeWithRides
      <4> QED  BY <1>2, <1>4, <3>2, <4>1
    <3> QED  BY <3>1, <3>2
  <2> QED  BY <2>5, <2>6, <2>7 DEF OffersAgreeWithRides
<1>10. UnassignedHaveNoStep' /\ NoInconsistentRides'
  BY <1>2, <1>3 DEF IInv, TablesOK, UnassignedHaveNoStep, NoInconsistentRides, AssignedStatus, ACTIVE_STATUSES
<1>11. CreditedOnce'
  <2>1. ~rides[r].paid
    BY <1>2 DEF IInv, TablesOK, NoInconsistentRides
  <2>2. \A q \in Request : rides'[q].paid = rides[q].paid
    BY <1>3
  <2>3. \A q \in Request : rides[q].paid => rides'[q].driver = rides[q].driver
    BY <1>3, <2>1
  <2>4. earnings' = earnings
    BY DEF AcceptWins
  <2> QED  BY <2>2, <2>3, <2>4 DEF IInv, TablesOK, CreditedOnce
<1>12. LocksOK'
  BY <1>2, <1>3, <1>4, <1>5, LocksSurvive DEF IInv
<1> QED  BY <1>6, <1>7, <1>8, <1>9, <1>10, <1>11, <1>12 DEF IInv, TablesOK

LEMMA CancelPreserves ==
  ASSUME IInv, NEW s \in Session, CancelUnfulfilled(s)
  PROVE  IInv'
<1> DEFINE r == txn[s].ride
<1>1. /\ r \in Request /\ rides[r].status = "requested" /\ ~RideLocked(r)
      /\ offers' = Resolve(PendingOffers(r), "expired")
  BY DEF CancelUnfulfilled, Unfulfilled, IInv, LocksOK, TxnsOK
<1>2. /\ rides' \in [Request -> Ride]
      /\ \A q \in Request : q # r => rides'[q] = rides[q]
      /\ rides'[r].status = "cancelled" /\ rides'[r].progress = rides[r].progress
      /\ rides'[r].driver = rides[r].driver /\ rides'[r].rider = rides[r].rider
      /\ rides'[r].paid = rides[r].paid
  BY <1>1 DEF CancelUnfulfilled, IInv, TypeOK, Ride, RideStatus
<1>3. /\ offers' \in [OfferId -> Offer]
      /\ \A p \in OfferId :
           /\ offers'[p].ride = offers[p].ride
           /\ offers'[p].driver = offers[p].driver
           /\ offers'[p].due = offers[p].due
           /\ offers'[p].status = IF p \in PendingOffers(r) THEN "expired" ELSE offers[p].status
  BY <1>1, ResolveFacts DEF IInv, OfferStatus, PendingOffers, Pending
<1>4. txn' \in [Session -> Txn] /\ \A t \in Session : txn'[t] = txn[t] \/ txn'[t] = Idle
  BY EndFacts DEF CancelUnfulfilled, IInv
<1>5. TypeOK'
  BY <1>2, <1>3, <1>4 DEF IInv, TypeOK, CancelUnfulfilled
<1>6. RowsOK' /\ ReservationsExclusive'
  BY <1>3 DEF IInv, TablesOK, RowsOK, ReservationsExclusive, PendingOffers, Pending
<1>7. TripsExclusive'
  BY <1>1, <1>2 DEF IInv, TablesOK, TripsExclusive, OpenStatus, ACTIVE_STATUSES
<1>8. OffersAgreeWithRides'
  <2>1. \A p \in OfferId : Pending(p)' => Pending(p) /\ offers[p].ride # r
    BY <1>3 DEF PendingOffers, Pending
  <2>2. \A p \in OfferId : offers'[p].status = "accepted" <=> offers[p].status = "accepted"
    BY <1>3 DEF PendingOffers, Pending
  <2>3. \A p \in OfferId : Pending(p)' => rides'[offers'[p].ride].status = "requested"
    BY <1>2, <1>3, <2>1 DEF IInv, TablesOK, RowsOK, OffersAgreeWithRides, Pending
  <2>4. \A p \in OfferId : offers[p].status = "accepted" => offers[p].ride \in Request \ {r}
    BY <1>1 DEF IInv, TablesOK, RowsOK, OffersAgreeWithRides, AssignedStatus, ACTIVE_STATUSES
  <2>5. \A q \in Request : rides'[q].status \in AssignedStatus => q # r /\ rides[q].status \in AssignedStatus
    BY <1>2 DEF AssignedStatus, ACTIVE_STATUSES
  <2> QED  BY <1>2, <1>3, <2>2, <2>3, <2>4, <2>5 DEF IInv, TablesOK, OffersAgreeWithRides
<1>9. UnassignedHaveNoStep' /\ NoInconsistentRides'
  BY <1>1, <1>2 DEF IInv, TablesOK, UnassignedHaveNoStep, NoInconsistentRides, AssignedStatus, ACTIVE_STATUSES
<1>10. CreditedOnce'
  BY <1>2 DEF IInv, TablesOK, CreditedOnce, CancelUnfulfilled
<1>11. LocksOK'
  <2>1. \A q \in Request : RideLocked(q) => rides'[q].status = rides[q].status
    BY <1>1, <1>2
  <2>2. \A o \in OfferId :
          /\ offers[o].status # "none" => offers'[o].status # "none"
          /\ offers'[o].status = "pending" => offers[o].status = "pending"
    BY <1>3
  <2> QED  BY <1>3, <1>4, <2>1, <2>2, LocksSurvive DEF IInv
<1> QED  BY <1>5, <1>6, <1>7, <1>8, <1>9, <1>10, <1>11 DEF IInv, TablesOK

LEMMA CreatePreserves ==
  ASSUME IInv, NEW r \in Request, NEW u \in Rider, NEW food \in BOOLEAN,
         CreateRideRequest(r, u, food)
  PROVE  IInv'
<1> DEFINE row == [status |-> "requested", rider |-> u, driver |-> Null,
                   progress |-> Null, food |-> food, paid |-> FALSE]
<1>1. rides' = [rides EXCEPT ![r] = row] /\ row \in Ride
  BY DEF CreateRideRequest, Ride, RideStatus, OpenStatus
<1>2. /\ rides[r].status = "none"
      /\ \A q \in Request : rides[q].rider = u => rides[q].status \notin OpenStatus
      /\ UNCHANGED <<offers, earnings, txn>>
  BY DEF CreateRideRequest
<1>3. /\ rides' \in [Request -> Ride] /\ rides'[r] = row
      /\ \A q \in Request : q # r => rides'[q] = rides[q]
  BY <1>1 DEF IInv, TypeOK
<1>4. TypeOK'
  BY <1>2, <1>3 DEF IInv, TypeOK
<1>5. RowsOK' /\ ReservationsExclusive'
  BY <1>2 DEF IInv, TablesOK, RowsOK, ReservationsExclusive, Pending
<1>6. TripsExclusive'
  BY <1>2, <1>3 DEF IInv, TablesOK, TripsExclusive, ACTIVE_STATUSES
<1>7. OffersAgreeWithRides'
  <2>1. \A o \in OfferId :
          Pending(o) \/ offers[o].status = "accepted" => offers[o].ride \in Request \ {r}
    BY <1>2 DEF IInv, TablesOK, RowsOK, OffersAgreeWithRides, Pending, AssignedStatus,
                ACTIVE_STATUSES
  <2>2. \A q \in Request : rides'[q].status \in AssignedStatus => q # r
    BY <1>3 DEF AssignedStatus, ACTIVE_STATUSES
  <2> QED  BY <1>2, <1>3, <2>1, <2>2 DEF IInv, TablesOK, OffersAgreeWithRides, Pending
<1>8. UnassignedHaveNoStep' /\ NoInconsistentRides'
  BY <1>3, NullStepAssumption
     DEF IInv, TablesOK, UnassignedHaveNoStep, NoInconsistentRides, AssignedStatus, ACTIVE_STATUSES, PROGRESS_STEPS
<1>9. CreditedOnce'
  BY <1>2, <1>3 DEF IInv, TablesOK, NoInconsistentRides, CreditedOnce
<1>10. LocksOK'
  <2>1. \A q \in Request : RideLocked(q) => rides'[q].status = rides[q].status
    BY <1>2, <1>3 DEF RideLocked, IInv, LocksOK, CollisionIsTheDrivers
  <2> QED  BY <1>2, <2>1, LocksSurvive DEF IInv
<1> QED  BY <1>4, <1>5, <1>6, <1>7, <1>8, <1>9, <1>10 DEF IInv, TablesOK

\* A trip step and a payment keep a ride assigned to its driver.
LEMMA AssignedRideAgrees ==
  ASSUME IInv, NEW r \in Request, rides[r].status \in AssignedStatus,
         rides' \in [Request -> Ride], UNCHANGED offers,
         rides'[r].status \in AssignedStatus, rides'[r].driver = rides[r].driver,
         \A q \in Request : q # r => rides'[q] = rides[q]
  PROVE  OffersAgreeWithRides'
<1>1. \A o \in OfferId : Pending(o) => offers[o].ride \in Request \ {r}
  BY DEF IInv, TablesOK, RowsOK, OffersAgreeWithRides, Pending, AssignedStatus, ACTIVE_STATUSES
<1>2. \A o \in OfferId : offers[o].status = "accepted" => offers[o].ride \in Request
  BY DEF IInv, TablesOK, RowsOK
<1> QED  BY <1>1, <1>2 DEF IInv, TablesOK, OffersAgreeWithRides, Pending

LEMMA ProgressPreserves ==
  ASSUME IInv, NEW r \in Request, NEW d \in Driver, NEW step \in PROGRESS_STEPS,
         UpdateProgress(r, d, step)
  PROVE  IInv'
<1> DEFINE row == [rides[r] EXCEPT !.progress = step, !.status = StatusForStep(step)]
<1>1. rides' = [rides EXCEPT ![r] = row]
  BY DEF UpdateProgress, IInv, TypeOK, Ride
<1>2. /\ row \in Ride
      /\ row.status = StatusForStep(step) /\ row.progress = step
      /\ row.driver = rides[r].driver /\ row.rider = rides[r].rider /\ row.paid = rides[r].paid
  <2>1. rides[r] \in Ride
    BY DEF IInv, TypeOK
  <2>2. StatusForStep(step) \in RideStatus
    BY DEF RideStatus, OpenStatus, ACTIVE_STATUSES, StatusForStep
  <2> PICK status \in RideStatus : status = StatusForStep(step)
    BY <2>2
  <2> PICK was \in Ride : was = rides[r]
    BY <2>1
  <2> DEFINE now == [was EXCEPT !.progress = step, !.status = status]
  <2>3. /\ now \in Ride /\ now.status = status /\ now.progress = step
        /\ now.driver = was.driver /\ now.rider = was.rider /\ now.paid = was.paid
    BY DEF Ride
  <2>4. row = now
    OBVIOUS
  <2> HIDE DEF row, now
  <2> QED  BY <2>3, <2>4
<1> HIDE DEF row
<1>3. /\ rides' \in [Request -> Ride] /\ rides'[r] = row
      /\ \A q \in Request : q # r => rides'[q] = rides[q]
  BY <1>1, <1>2 DEF IInv, TypeOK
<1>4. /\ rides[r].status \in ACTIVE_STATUSES /\ step # "accepted"
      /\ UNCHANGED <<offers, earnings, txn>>
  BY DEF UpdateProgress
<1>5. /\ row.status \in AssignedStatus
      /\ row.status = "in_progress" <=> step = "trip_started"
      /\ row.status = "completed" <=> step = "completed"
  BY <1>2 DEF StatusForStep, AssignedStatus, ACTIVE_STATUSES
<1>6. TypeOK'
  BY <1>3, <1>4 DEF IInv, TypeOK
<1>7. RowsOK' /\ ReservationsExclusive'
  BY <1>4 DEF IInv, TablesOK, RowsOK, ReservationsExclusive, Pending
<1>8. TripsExclusive'
  BY <1>2, <1>3, <1>4 DEF IInv, TablesOK, TripsExclusive, OpenStatus
<1>9. OffersAgreeWithRides'
  BY <1>2, <1>3, <1>4, <1>5, AssignedRideAgrees DEF AssignedStatus
<1>10. UnassignedHaveNoStep' /\ NoInconsistentRides'
  BY <1>2, <1>3, <1>4, <1>5 DEF IInv, TablesOK, UnassignedHaveNoStep, NoInconsistentRides, AssignedStatus,
     ACTIVE_STATUSES
<1>11. CreditedOnce'
  BY <1>2, <1>3, <1>4 DEF IInv, TablesOK, CreditedOnce
<1>12. LocksOK'
  <2>1. \A q \in Request : RideLocked(q) => rides'[q].status = rides[q].status
    BY <1>3 DEF UpdateProgress
  <2> QED  BY <1>4, <2>1, LocksSurvive DEF IInv
<1> QED  BY <1>6, <1>7, <1>8, <1>9, <1>10, <1>11, <1>12 DEF IInv, TablesOK

LEMMA PaymentPreserves ==
  ASSUME IInv, NEW r \in Request, NEW d \in Driver, ConfirmPayment(r, d)
  PROVE  IInv'
<1> DEFINE row == [rides[r] EXCEPT !.paid = TRUE]
<1>1. rides' = [rides EXCEPT ![r] = row]
  BY DEF ConfirmPayment, IInv, TypeOK, Ride
<1>2. /\ row \in Ride
      /\ row.status = rides[r].status /\ row.progress = rides[r].progress
      /\ row.driver = rides[r].driver /\ row.rider = rides[r].rider /\ row.paid = TRUE
  BY DEF IInv, TypeOK, Ride
<1> HIDE DEF row
<1>3. /\ rides' \in [Request -> Ride] /\ rides'[r] = row
      /\ \A q \in Request : q # r => rides'[q] = rides[q]
  BY <1>1, <1>2 DEF IInv, TypeOK
<1>4. /\ rides[r].status = "completed" /\ rides[r].driver = d /\ ~rides[r].paid
      /\ UNCHANGED <<offers, txn>>
  BY DEF ConfirmPayment
<1>5. /\ earnings' \in [Driver -> [Request -> Nat]]
      /\ \A e \in Driver, q \in Request :
           earnings'[e][q] = IF e = d /\ q = r THEN earnings[e][q] + 1 ELSE earnings[e][q]
  BY DEF ConfirmPayment, IInv, TypeOK
<1>6. TypeOK'
  BY <1>3, <1>4, <1>5 DEF IInv, TypeOK, ConfirmPayment
<1>7. RowsOK' /\ ReservationsExclusive'
  BY <1>4 DEF IInv, TablesOK, RowsOK, ReservationsExclusive, Pending
<1>8. TripsExclusive'
  BY <1>2, <1>3 DEF IInv, TablesOK, TripsExclusive
<1>9. OffersAgreeWithRides'
  BY <1>2, <1>3, <1>4, AssignedRideAgrees DEF AssignedStatus
<1>10. UnassignedHaveNoStep' /\ NoInconsistentRides'
  BY <1>2, <1>3, <1>4 DEF IInv, TablesOK, UnassignedHaveNoStep, NoInconsistentRides
<1>11. CreditedOnce'
  BY <1>2, <1>3, <1>4, <1>5 DEF IInv, TablesOK, CreditedOnce
<1>12. LocksOK'
  <2>1. \A q \in Request : RideLocked(q) => rides'[q].status = rides[q].status
    BY <1>2, <1>3
  <2> QED  BY <1>4, <2>1, LocksSurvive DEF IInv
<1> QED  BY <1>6, <1>7, <1>8, <1>9, <1>10, <1>11, <1>12 DEF IInv, TablesOK

-----------------------------------------------------------------------------
(* The invariant                                                           *)

LEMMA InitEstablishes == Init => IInv
<1> SUFFICES ASSUME Init PROVE IInv
  OBVIOUS
<1> USE DEF Init, Idle
<1>1. TypeOK
  BY DEF TypeOK, Ride, RideStatus, Offer, OfferStatus, Txn
<1>2. RowsOK /\ ReservationsExclusive /\ OffersAgreeWithRides
  BY DEF RowsOK, ReservationsExclusive, OffersAgreeWithRides, Pending, AssignedStatus,
         ACTIVE_STATUSES
<1>3. TripsExclusive /\ CreditedOnce
  BY DEF TripsExclusive, CreditedOnce, OpenStatus, ACTIVE_STATUSES
<1>4. UnassignedHaveNoStep /\ NoInconsistentRides
  BY NullStepAssumption DEF UnassignedHaveNoStep, NoInconsistentRides, AssignedStatus, ACTIVE_STATUSES, PROGRESS_STEPS
<1>5. LocksOK
  BY DEF LocksOK, TxnsOK, OneHolder, CollisionIsTheDrivers
<1> QED  BY <1>1, <1>2, <1>3, <1>4, <1>5 DEF IInv, TablesOK

LEMMA TxnStepPreserves ==
  ASSUME IInv, NEW s \in Session, TxnStep(s)
  PROVE  IInv'
<1>1. CASE OfferNotRequested(s) \/ OfferCollides(s) \/ AcceptNotOffered(s)
           \/ AcceptRefused(s) \/ CancelRefused(s) \/ Abort(s)
  BY <1>1, RollbackPreserves
     DEF OfferNotRequested, OfferCollides, AcceptNotOffered, AcceptRefused, CancelRefused, Abort
<1>2. CASE OfferRefused(s) \/ AcceptTooLate(s) \/ ExpireOffer(s)
  BY <1>2, ResolvePreserves DEF OfferRefused, AcceptTooLate, ExpireOffer
<1>3. CASE OfferChecked(s)
  BY <1>3, CheckedPreserves
<1>4. CASE OfferMade(s)
  BY <1>4, OfferMadePreserves
<1>5. CASE AcceptWins(s)
  BY <1>5, AcceptWinsPreserves
<1>6. CASE CancelUnfulfilled(s)
  BY <1>6, CancelPreserves
<1> QED  BY <1>1, <1>2, <1>3, <1>4, <1>5, <1>6 DEF TxnStep

LEMMA BeginTxnPreserves ==
  ASSUME IInv, NEW s \in Session, BeginTxn(s)
  PROVE  IInv'
<1>1. ASSUME NEW r \in Request, BeginCancel(s, r) PROVE IInv'
  <2>1. {o \in OfferId : offers[o].ride = r} \in SUBSET OfferId
    OBVIOUS
  <2> QED  BY <1>1, <2>1, BeginPreserves DEF BeginCancel
<1>2. ASSUME NEW r \in Request, NEW d \in Driver, BeginOffer(s, r, d) PROVE IInv'
  <2>1. {o \in OfferId : offers[o].ride = r \/ offers[o].driver = d} \in SUBSET OfferId
    OBVIOUS
  <2> QED  BY <1>2, <2>1, BeginPreserves DEF BeginOffer
<1>3. ASSUME NEW r \in Request, NEW d \in Driver, BeginAccept(s, r, d) PROVE IInv'
  <2>1. {o \in OfferId : offers[o].ride = r /\ offers[o].driver = d} \in SUBSET OfferId
    OBVIOUS
  <2> QED  BY <1>3, <2>1, BeginPreserves DEF BeginAccept
<1>4. ASSUME NEW o \in OfferId, BeginExpire(s, o) PROVE IInv'
  <2>1. offers[o].ride \in Request /\ {o} \in SUBSET OfferId
    BY <1>4 DEF BeginExpire, Pending, IInv, TablesOK, RowsOK
  <2> QED  BY <1>4, <2>1, BeginPreserves DEF BeginExpire
<1> QED  BY <1>1, <1>2, <1>3, <1>4 DEF BeginTxn

LEMMA OneStepCallPreserves ==
  ASSUME IInv, OneStepCall
  PROVE  IInv'
<1>1. ASSUME NEW r \in Request, NEW u \in Rider, NEW food \in FoodChoice,
             CreateRideRequest(r, u, food)
      PROVE  IInv'
  BY <1>1, CreatePreserves, FoodAssumption
<1>2. ASSUME NEW r \in Request, NEW d \in Driver, RejectOffer(r, d) PROVE IInv'
  BY <1>2, ResolvePreserves DEF RejectOffer
<1>3. ASSUME NEW r \in Request, NEW d \in Driver, NEW step \in PROGRESS_STEPS,
             UpdateProgress(r, d, step)
      PROVE  IInv'
  BY <1>3, ProgressPreserves
<1>4. ASSUME NEW r \in Request, NEW d \in Driver, ConfirmPayment(r, d) PROVE IInv'
  BY <1>4, PaymentPreserves
<1> QED  BY <1>1, <1>2, <1>3, <1>4 DEF OneStepCall

LEMMA NextPreserves == IInv /\ [Next]_vars => IInv'
<1> SUFFICES ASSUME IInv, [Next]_vars PROVE IInv'
  OBVIOUS
<1>1. CASE UNCHANGED vars
  <2>1. TypeOK'
    BY <1>1 DEF vars, IInv, TypeOK
  <2>2. TablesOK'
    BY <1>1, TablesUnchanged DEF vars, IInv
  <2>3. LocksOK'
    BY <1>1, LocksSurvive DEF vars, IInv
  <2> QED  BY <2>1, <2>2, <2>3 DEF IInv
<1>2. CASE Next
  BY <1>2, BeginTxnPreserves, TxnStepPreserves, OneStepCallPreserves, DeadlinePreserves DEF Next
<1> QED  BY <1>1, <1>2

THEOREM Invariance == Spec => []IInv
  BY InitEstablishes, NextPreserves, PTL DEF Spec

\* Every column holds a value of its type, in every reachable state.
THEOREM TypeCorrect == Spec => []TypeOK
  BY Invariance, PTL DEF IInv

\* At most one pending offer per driver and per ride.
THEOREM ReservationsAreExclusive == Spec => []ReservationsExclusive
  BY Invariance, PTL DEF IInv, TablesOK

\* No driver on two active rides, no rider in two.
THEOREM TripsAreExclusive == Spec => []TripsExclusive
  BY Invariance, PTL DEF IInv, TablesOK

\* The rides table and the ride_offers table agree on who drives what.
THEOREM TablesAgree == Spec => []OffersAgreeWithRides
  BY Invariance, PTL DEF IInv, TablesOK

\* The admin page's inconsistent-rides query always returns zero.
THEOREM RidesAreConsistent == Spec => []NoInconsistentRides
  BY Invariance, PTL DEF IInv, TablesOK

\* Each paid ride is credited once, to its driver, and no other ride is.
THEOREM FaresCreditedOnce == Spec => []CreditedOnce
  BY Invariance, PTL DEF IInv, TablesOK

\* A unique violation in create_offer is always the driver's.
THEOREM CollisionsAreTheDrivers == Spec => []CollisionIsTheDrivers
  BY Invariance, PTL DEF IInv, LocksOK

-----------------------------------------------------------------------------
(* What a step may never do                                                *)

\* The steps that write the rides table, and the others.
LEMMA RideWriters ==
  ASSUME [Next]_vars
  PROVE  \/ UNCHANGED <<rides, earnings>>
         \/ \E r \in Request, u \in Rider, food \in FoodChoice : CreateRideRequest(r, u, food)
         \/ \E s \in Session : AcceptWins(s)
         \/ \E s \in Session : CancelUnfulfilled(s)
         \/ \E r \in Request, d \in Driver, step \in PROGRESS_STEPS : UpdateProgress(r, d, step)
         \/ \E r \in Request, d \in Driver : ConfirmPayment(r, d)
<1>1. ASSUME NEW s \in Session, BeginTxn(s) PROVE UNCHANGED <<rides, earnings>>
  BY <1>1 DEF BeginTxn, BeginCancel, BeginOffer, BeginAccept, BeginExpire, Begin
<1>2. ASSUME NEW s \in Session, TxnStep(s)
      PROVE  UNCHANGED <<rides, earnings>> \/ AcceptWins(s) \/ CancelUnfulfilled(s)
  BY <1>2 DEF TxnStep, OfferNotRequested, OfferRefused, OfferChecked, OfferCollides, OfferMade,
              AcceptTooLate, AcceptNotOffered, AcceptRefused, ExpireOffer, CancelRefused, Abort,
              Rollback
<1>3. ASSUME NEW o \in OfferId, DeadlinePasses(o) PROVE UNCHANGED <<rides, earnings>>
  BY <1>3 DEF DeadlinePasses
<1>4. ASSUME NEW r \in Request, NEW d \in Driver, RejectOffer(r, d)
      PROVE  UNCHANGED <<rides, earnings>>
  BY <1>4 DEF RejectOffer
<1>5. CASE UNCHANGED vars
  BY <1>5 DEF vars
<1>6. CASE \E s \in Session : BeginTxn(s) \/ TxnStep(s)
  BY <1>1, <1>2, <1>6
<1>7. CASE OneStepCall
  BY <1>4, <1>7 DEF OneStepCall
<1>8. CASE \E o \in OfferId : DeadlinePasses(o)
  BY <1>3, <1>8
<1> QED  BY <1>5, <1>6, <1>7, <1>8 DEF Next

\* What an accept does to its ride and its offer.
LEMMA AcceptEffect ==
  ASSUME IInv, NEW s \in Session, AcceptWins(s)
  PROVE  \E r \in Request, d \in Driver, o \in OfferId :
           /\ rides[r].status = "requested" /\ ~HasActiveRide(d)
           /\ Pending(o) /\ offers[o].ride = r /\ offers[o].driver = d
           /\ offers'[o].status = "accepted"
           /\ rides' = [rides EXCEPT ![r].status = "accepted", ![r].progress = "accepted",
                                     ![r].driver = d]
           /\ rides'[r].driver = d
           /\ UNCHANGED earnings
<1> DEFINE r == txn[s].ride
           d == txn[s].driver
<1>1. PICK o \in OfferId :
        /\ IsLatestOffer(o, r, d) /\ Pending(o)
        /\ offers' = Resolve({o}, "accepted")
  BY DEF AcceptWins, AtAccept
<1>2. r \in Request /\ d \in Driver
  BY DEF AcceptWins, AtAccept, IInv, LocksOK, TxnsOK
<1>3. offers'[o].status = "accepted"
  BY <1>1, ResolveFacts DEF IInv, OfferStatus, Pending
<1>4. rides'[r].driver = d
  BY <1>2 DEF AcceptWins, IInv, TypeOK, Ride
<1> QED  BY <1>1, <1>2, <1>3, <1>4 DEF AcceptWins, IsLatestOffer

\* Status, trip step, rider, driver and payment of a ride only go forward.
LEMMA StepMovesForward ==
  ASSUME IInv, [Next]_vars, NEW r \in Request
  PROVE  MovesForward(r)
<1> USE DEF MovesForward
<1>1. CASE UNCHANGED <<rides, earnings>>
  BY <1>1
<1>2. ASSUME NEW q \in Request, NEW u \in Rider, NEW food \in FoodChoice,
             CreateRideRequest(q, u, food)
      PROVE  MovesForward(r)
  <2>1. CASE r = q
    <3>1. /\ rides[r].status = "none" /\ rides'[r].status = "requested"
          /\ rides[r].progress \notin PROGRESS_STEPS
          /\ rides[r].driver = Null /\ ~rides[r].paid
      BY <1>2, <2>1, NullStepAssumption
         DEF CreateRideRequest, IInv, TypeOK, Ride, TablesOK, NoInconsistentRides,
             UnassignedHaveNoStep, AssignedStatus, ACTIVE_STATUSES
    <3> QED  BY <3>1 DEF StatusMoves
  <2>2. CASE r # q
    BY <1>2, <2>2 DEF CreateRideRequest, IInv, TypeOK
  <2> QED  BY <2>1, <2>2
<1>3. ASSUME NEW s \in Session, AcceptWins(s) PROVE MovesForward(r)
  <2>1. PICK q \in Request, d \in Driver :
          /\ rides[q].status = "requested"
          /\ rides' = [rides EXCEPT ![q].status = "accepted", ![q].progress = "accepted",
                                    ![q].driver = d]
    BY <1>3, AcceptEffect
  <2>2. CASE r = q
    <3>1. /\ rides[r].progress \notin PROGRESS_STEPS
          /\ rides[r].driver = Null /\ ~rides[r].paid
      BY <2>1, <2>2, NullStepAssumption
         DEF IInv, TypeOK, Ride, TablesOK, NoInconsistentRides,
             UnassignedHaveNoStep, AssignedStatus, ACTIVE_STATUSES
    <3>2. rides'[r].status = "accepted" /\ rides'[r].rider = rides[r].rider
      BY <2>1, <2>2 DEF IInv, TypeOK, Ride
    <3> QED  BY <2>1, <2>2, <3>1, <3>2 DEF StatusMoves
  <2>3. CASE r # q
    BY <2>1, <2>3 DEF IInv, TypeOK
  <2> QED  BY <2>2, <2>3
<1>4. ASSUME NEW s \in Session, CancelUnfulfilled(s) PROVE MovesForward(r)
  <2>1. txn[s].ride \in Request /\ rides[txn[s].ride].status = "requested"
    BY <1>4 DEF CancelUnfulfilled, Unfulfilled, IInv, LocksOK, TxnsOK
  <2>2. CASE r = txn[s].ride
    BY <1>4, <2>1, <2>2 DEF CancelUnfulfilled, IInv, TypeOK, Ride, StatusMoves
  <2>3. CASE r # txn[s].ride
    BY <1>4, <2>3 DEF CancelUnfulfilled, IInv, TypeOK
  <2> QED  BY <2>2, <2>3
<1>5. ASSUME NEW q \in Request, NEW d \in Driver, NEW step \in PROGRESS_STEPS,
             UpdateProgress(q, d, step)
      PROVE  MovesForward(r)
  <2>1. CASE r = q
    <3>1. /\ rides'[r].progress = step /\ rides'[r].status = StatusForStep(step)
          /\ rides'[r].rider = rides[r].rider /\ rides'[r].driver = rides[r].driver
          /\ rides'[r].paid = rides[r].paid
      BY <1>5, <2>1 DEF UpdateProgress, IInv, TypeOK, Ride
    <3>2. StepRank[rides[r].progress] < StepRank[step] \/ rides[r].progress \notin PROGRESS_STEPS
      BY <1>5, <2>1 DEF UpdateProgress, CurrentStep, StepRank, PROGRESS_STEPS
    <3>3. rides[r].status # StatusForStep(step)
          => <<rides[r].status, StatusForStep(step)>> \in StatusMoves
      <4>1. rides[r].status = "in_progress" => step = "completed"
        BY <1>5, <2>1
           DEF UpdateProgress, CurrentStep, StepRank, PROGRESS_STEPS, IInv, TablesOK,
               NoInconsistentRides
      <4> QED  BY <1>5, <2>1, <4>1 DEF UpdateProgress, ACTIVE_STATUSES, StatusForStep, StatusMoves
    <3> QED  BY <3>1, <3>2, <3>3
  <2>2. CASE r # q
    BY <1>5, <2>2 DEF UpdateProgress, IInv, TypeOK
  <2> QED  BY <2>1, <2>2
<1>6. ASSUME NEW q \in Request, NEW d \in Driver, ConfirmPayment(q, d)
      PROVE  MovesForward(r)
  <2>1. CASE r = q
    BY <1>6, <2>1 DEF ConfirmPayment, IInv, TypeOK, Ride
  <2>2. CASE r # q
    BY <1>6, <2>2 DEF ConfirmPayment, IInv, TypeOK
  <2> QED  BY <2>1, <2>2
<1> QED  BY <1>1, <1>2, <1>3, <1>4, <1>5, <1>6, RideWriters

\* Rides only move forward.
THEOREM ForwardOnly == Spec => RidesMoveForward
<1>1. IInv /\ [Next]_vars => [\A r \in Request : MovesForward(r)]_vars
  BY StepMovesForward
<1> QED  BY <1>1, Invariance, PTL DEF Spec, RidesMoveForward

LEMMA StepGainsDriverByOffer ==
  ASSUME IInv, [Next]_vars, NEW r \in Request
  PROVE  GainsDriverByOffer(r)
<1> SUFFICES ASSUME rides[r].driver # rides'[r].driver
             PROVE  \E o \in OfferId :
                      /\ Pending(o) /\ offers'[o].status = "accepted"
                      /\ offers[o].ride = r /\ offers[o].driver = rides'[r].driver
  BY DEF GainsDriverByOffer
<1>1. ~UNCHANGED <<rides, earnings>>
  OBVIOUS
<1>2. \A q \in Request, u \in Rider, food \in FoodChoice : ~CreateRideRequest(q, u, food)
  BY DEF CreateRideRequest, IInv, TypeOK, Ride, TablesOK, NoInconsistentRides, AssignedStatus,
         ACTIVE_STATUSES
<1>3. \A s \in Session : ~CancelUnfulfilled(s)
  BY DEF CancelUnfulfilled, IInv, TypeOK, Ride
<1>4. \A q \in Request, d \in Driver, step \in PROGRESS_STEPS : ~UpdateProgress(q, d, step)
  BY DEF UpdateProgress, IInv, TypeOK, Ride
<1>5. ASSUME NEW q \in Request, NEW d \in Driver, ConfirmPayment(q, d) PROVE FALSE
  <2>1. rides \in [Request -> Ride] /\ rides' = [rides EXCEPT ![q].paid = TRUE]
    BY <1>5 DEF ConfirmPayment, IInv, TypeOK
  <2>2. rides'[r].driver = rides[r].driver
    BY <2>1 DEF Ride
  <2> QED  BY <2>2
<1>6. PICK s \in Session : AcceptWins(s)
  BY <1>1, <1>2, <1>3, <1>4, <1>5, RideWriters
<1>7. PICK q \in Request, d \in Driver, o \in OfferId :
        /\ Pending(o) /\ offers[o].ride = q /\ offers[o].driver = d
        /\ offers'[o].status = "accepted"
        /\ rides' = [rides EXCEPT ![q].status = "accepted", ![q].progress = "accepted",
                                  ![q].driver = d]
        /\ rides'[q].driver = d
  BY <1>6, AcceptEffect
<1>8. q = r
  BY <1>7 DEF IInv, TypeOK
<1> QED  BY <1>7, <1>8

\* A ride is assigned only by turning its driver's pending offer into the
\* accepted one.
THEOREM AssignedByOffer == Spec => AssignmentConsumesOffer
<1>1. IInv /\ [Next]_vars => [\A r \in Request : GainsDriverByOffer(r)]_vars
  BY StepGainsDriverByOffer
<1> QED  BY <1>1, Invariance, PTL DEF Spec, AssignmentConsumesOffer

\* The steps that write the ride_offers table, and the others.  An offer is
\* marked expired only when some transaction has found it overdue.
LEMMA OfferWriters ==
  ASSUME IInv, [Next]_vars
  PROVE  \/ UNCHANGED offers
         \/ \E s \in Session : OfferMade(s)
         \/ \E o \in OfferId : DeadlinePasses(o)
         \/ \E ids \in SUBSET OfferId, new \in {"accepted", "rejected"} : offers' = Resolve(ids, new)
         \/ \E ids \in SUBSET OfferId :
              offers' = Resolve(ids, "expired") /\ \A o \in ids : offers[o].due
<1> DEFINE Expires == \E ids \in SUBSET OfferId :
                        offers' = Resolve(ids, "expired") /\ \A o \in ids : offers[o].due
           Answers == \E ids \in SUBSET OfferId, new \in {"accepted", "rejected"} :
                        offers' = Resolve(ids, new)
<1>1. ASSUME NEW s \in Session, BeginTxn(s) PROVE UNCHANGED offers
  BY <1>1 DEF BeginTxn, BeginCancel, BeginOffer, BeginAccept, BeginExpire, Begin
<1>2. ASSUME NEW s \in Session, TxnStep(s)
      PROVE  UNCHANGED offers \/ OfferMade(s) \/ Answers \/ Expires
  <2>1. txn[s].overdue \in SUBSET OfferId /\ \A o \in txn[s].overdue : offers[o].due
    BY DEF IInv, TypeOK, Txn, LocksOK, TxnsOK
  <2>2. CASE OfferRefused(s) \/ ExpireOffer(s)
    BY <2>1, <2>2 DEF OfferRefused, ExpireOffer
  <2>3. CASE AcceptTooLate(s)
    <3>1. PICK o \in OfferId : o \in txn[s].overdue /\ offers' = Resolve({o}, "expired")
      BY <2>3 DEF AcceptTooLate
    <3> QED  BY <2>1, <3>1
  <2>4. CASE AcceptWins(s)
    BY <2>4 DEF AcceptWins
  <2>5. CASE CancelUnfulfilled(s)
    <3>1. /\ PendingOffers(txn[s].ride) \subseteq txn[s].overdue
          /\ offers' = Resolve(PendingOffers(txn[s].ride), "expired")
      BY <2>5 DEF CancelUnfulfilled, Unfulfilled, StillPending
    <3> QED  BY <2>1, <3>1
  <2> QED
    BY <1>2, <2>2, <2>3, <2>4, <2>5
       DEF TxnStep, OfferNotRequested, OfferChecked, OfferCollides, AcceptNotOffered,
           AcceptRefused, CancelRefused, Abort, Rollback
<1>3. CASE OneStepCall
  <2>1. ASSUME NEW r \in Request, NEW d \in Driver, RejectOffer(r, d) PROVE Answers
    <3>1. {o \in PendingOffers(r) : offers[o].driver = d} \in SUBSET OfferId
      BY DEF PendingOffers
    <3> QED  BY <2>1, <3>1 DEF RejectOffer
  <2> QED  BY <1>3, <2>1 DEF OneStepCall, CreateRideRequest, UpdateProgress, ConfirmPayment
<1>4. CASE UNCHANGED vars
  BY <1>4 DEF vars
<1>5. CASE \E s \in Session : BeginTxn(s) \/ TxnStep(s)
  BY <1>1, <1>2, <1>5
<1> QED  BY <1>3, <1>4, <1>5 DEF Next

LEMMA StepStaysAnswered ==
  ASSUME IInv, [Next]_vars, NEW o \in OfferId
  PROVE  StaysAnswered(o)
<1> SUFFICES ASSUME offers[o].status \notin {"none", "pending"} PROVE offers'[o] = offers[o]
  BY DEF StaysAnswered
<1>1. \A ids, new : Resolve(ids, new)[o] = offers[o]
  BY DEF Resolve, Pending
<1>2. ASSUME NEW s \in Session, OfferMade(s) PROVE offers'[o] = offers[o]
  <2>1. PICK n \in OfferId :
          /\ offers[n].status = "none"
          /\ offers' = [Resolve(txn[s].overdue, "expired") EXCEPT ![n] =
                          [status |-> "pending", ride |-> txn[s].ride,
                           driver |-> txn[s].driver, due |-> FALSE]]
    BY <1>2 DEF OfferMade, IsNextOfferId
  <2>2. n # o
    BY <2>1
  <2> QED  BY <1>1, <2>1, <2>2 DEF Resolve
<1>3. ASSUME NEW p \in OfferId, DeadlinePasses(p) PROVE offers'[o] = offers[o]
  BY <1>3 DEF DeadlinePasses, Pending, IInv, TypeOK
<1> QED  BY <1>1, <1>2, <1>3, OfferWriters

\* An answered offer never changes again.
THEOREM AnswersFinal == Spec => AnswersAreFinal
<1>1. IInv /\ [Next]_vars => [\A o \in OfferId : StaysAnswered(o)]_vars
  BY StepStaysAnswered
<1> QED  BY <1>1, Invariance, PTL DEF Spec, AnswersAreFinal

LEMMA StepKeepsLive ==
  ASSUME IInv, [Next]_vars, NEW o \in OfferId
  PROVE  KeptWhileLive(o)
<1> SUFFICES ASSUME Pending(o), ~offers[o].due
             PROVE  /\ offers'[o].status # "expired"
                    /\ rides'[offers[o].ride].status # "cancelled"
  BY DEF KeptWhileLive
<1> DEFINE r == offers[o].ride
<1>1. offers[o].status = "pending" /\ r \in Request /\ rides[r].status = "requested"
  BY DEF Pending, IInv, TablesOK, RowsOK, OffersAgreeWithRides
<1>2. offers'[o].status # "expired"
  <2>1. ASSUME NEW ids \in SUBSET OfferId, NEW new \in {"accepted", "rejected"},
               offers' = Resolve(ids, new)
        PROVE  offers'[o].status # "expired"
    BY <1>1, <2>1, ResolveFacts DEF IInv, OfferStatus
  <2>2. ASSUME NEW ids, offers' = Resolve(ids, "expired"), \A p \in ids : offers[p].due
        PROVE  offers'[o].status # "expired"
    BY <1>1, <2>2, ResolveFacts DEF IInv, OfferStatus
  <2>3. ASSUME NEW s \in Session, OfferMade(s) PROVE offers'[o].status # "expired"
    <3>1. PICK n \in OfferId :
            /\ offers[n].status = "none"
            /\ offers' = [Resolve(txn[s].overdue, "expired") EXCEPT ![n] =
                            [status |-> "pending", ride |-> txn[s].ride,
                             driver |-> txn[s].driver, due |-> FALSE]]
      BY <2>3 DEF OfferMade, IsNextOfferId
    <3>2. n # o /\ o \notin txn[s].overdue
      BY <1>1, <3>1 DEF IInv, LocksOK, TxnsOK
    <3>3. offers'[o] = offers[o]
      BY <3>1, <3>2 DEF Resolve
    <3> QED  BY <1>1, <3>3
  <2>4. ASSUME NEW p \in OfferId, DeadlinePasses(p) PROVE offers'[o].status # "expired"
    BY <1>1, <2>4 DEF DeadlinePasses, IInv, TypeOK, Offer
  <2>5. CASE UNCHANGED offers
    BY <1>1, <2>5
  <2> QED  BY <2>1, <2>2, <2>3, <2>4, <2>5, OfferWriters
<1>3. rides'[r].status # "cancelled"
  <2>1. CASE \E s \in Session : CancelUnfulfilled(s)
    <3>1. PICK s \in Session : CancelUnfulfilled(s)
      BY <2>1
    <3>2. txn[s].ride # r
      BY <3>1 DEF CancelUnfulfilled, Unfulfilled, StillPending, PendingOffers, IInv, LocksOK, TxnsOK
    <3> QED  BY <1>1, <3>1, <3>2 DEF CancelUnfulfilled, IInv, TypeOK
  <2>2. CASE \E s \in Session : AcceptWins(s)
    <3>1. PICK q \in Request, d \in Driver :
            rides' = [rides EXCEPT ![q].status = "accepted", ![q].progress = "accepted",
                                   ![q].driver = d]
      BY <2>2, AcceptEffect
    <3> QED  BY <1>1, <3>1 DEF IInv, TypeOK, Ride
  <2>3. ASSUME NEW q \in Request, NEW u \in Rider, NEW food \in FoodChoice,
               CreateRideRequest(q, u, food)
        PROVE  rides'[r].status # "cancelled"
    BY <1>1, <2>3 DEF CreateRideRequest, IInv, TypeOK
  <2>4. ASSUME NEW q \in Request, NEW d \in Driver, NEW step \in PROGRESS_STEPS,
               UpdateProgress(q, d, step)
        PROVE  rides'[r].status # "cancelled"
    BY <1>1, <2>4 DEF UpdateProgress, IInv, TypeOK, ACTIVE_STATUSES
  <2>5. ASSUME NEW q \in Request, NEW d \in Driver, ConfirmPayment(q, d)
        PROVE  rides'[r].status # "cancelled"
    BY <1>1, <2>5 DEF ConfirmPayment, IInv, TypeOK
  <2>6. CASE UNCHANGED <<rides, earnings>>
    BY <1>1, <2>6
  <2> QED  BY <2>1, <2>2, <2>3, <2>4, <2>5, <2>6, RideWriters
<1> QED  BY <1>2, <1>3

\* A live offer is neither expired nor left without its ride.
THEOREM LiveOffersKept == Spec => LiveOffersAreKept
<1>1. IInv /\ [Next]_vars => [\A o \in OfferId : KeptWhileLive(o)]_vars
  BY StepKeepsLive
<1> QED  BY <1>1, Invariance, PTL DEF Spec, LiveOffersAreKept

-----------------------------------------------------------------------------
(* Refinement                                                              *)

\* The phase of a ride is determined by its status and its payment.
LEMMA PhaseFacts ==
  ASSUME TypeOK, NEW r \in Request
  PROVE  /\ rides[r].status = "none" => PhaseOf(r) = "none"
         /\ rides[r].status = "requested" => PhaseOf(r) = "waiting"
         /\ rides[r].status = "cancelled" => PhaseOf(r) = "cancelled"
         /\ rides[r].status \in ACTIVE_STATUSES => PhaseOf(r) = "driving"
         /\ rides[r].status = "completed" =>
              PhaseOf(r) = IF rides[r].paid THEN "settled" ELSE "arrived"
         /\ PhaseOf(r) \in {"waiting", "driving"} <=> rides[r].status \in OpenStatus
  BY DEF PhaseOf, TypeOK, Ride, RideStatus, OpenStatus, ACTIVE_STATUSES

LEMMA LifecycleInit == Init => Lifecycle!LifeInit
<1> SUFFICES ASSUME Init PROVE Lifecycle!LifeInit
  OBVIOUS
<1>1. \A r \in Request :
        PhaseOf(r) = "none" /\ rides[r].rider = Null /\ rides[r].driver = Null
  BY DEF Init, PhaseOf, ACTIVE_STATUSES
<1>2. [r \in Request |-> PhaseOf(r)] = [r \in Request |-> "none"]
  BY <1>1
<1>3. /\ [r \in Request |-> rides[r].rider] = [r \in Request |-> Null]
      /\ [r \in Request |-> rides[r].driver] = [r \in Request |-> Null]
  BY <1>1
<1> QED  BY <1>2, <1>3 DEF Init, Lifecycle!LifeInit

LEMMA LifecycleStep ==
  ASSUME IInv, IInv', [Next]_vars
  PROVE  [Lifecycle!LifeNext]_Lifecycle!lifeVars
<1> DEFINE phase == [r \in Request |-> PhaseOf(r)]
           rider == [r \in Request |-> rides[r].rider]
           winner == [r \in Request |-> rides[r].driver]
<1>0. TypeOK /\ TypeOK'
  BY DEF IInv
<1>1. CASE UNCHANGED <<rides, earnings>>
  BY <1>1 DEF Lifecycle!lifeVars, PhaseOf
<1>2. ASSUME NEW r \in Request, NEW u \in Rider, NEW food \in FoodChoice,
             CreateRideRequest(r, u, food)
      PROVE  Lifecycle!Ask(r, u)
  <2>1. /\ rides[r].status = "none" /\ rides'[r].status = "requested"
        /\ rides'[r].rider = u /\ rides'[r].driver = rides[r].driver
        /\ \A q \in Request : q # r => rides'[q] = rides[q]
    BY <1>2 DEF CreateRideRequest, IInv, TypeOK, Ride, TablesOK, NoInconsistentRides,
                AssignedStatus, ACTIVE_STATUSES
  <2>2. PhaseOf(r) = "none" /\ PhaseOf(r)' = "waiting"
    BY <1>0, <2>1, PhaseFacts DEF PhaseOf, ACTIVE_STATUSES
  <2>3. \A q \in Request : q # r => PhaseOf(q)' = PhaseOf(q)
    BY <2>1 DEF PhaseOf
  <2>4. phase' = [phase EXCEPT ![r] = "waiting"]
    BY <2>2, <2>3
  <2>5. rider' = [rider EXCEPT ![r] = u] /\ winner' = winner
    BY <2>1
  <2>6. \A q \in Request : rides[q].rider = u => PhaseOf(q) \notin {"waiting", "driving"}
    BY <1>0, <1>2, PhaseFacts DEF CreateRideRequest
  <2> QED  BY <1>2, <2>2, <2>4, <2>5, <2>6 DEF Lifecycle!Ask, Lifecycle!Current, CreateRideRequest
<1>3. ASSUME NEW s \in Session, AcceptWins(s)
      PROVE  \E r \in Request, d \in Driver : Lifecycle!Assign(r, d)
  <2>1. PICK r \in Request, d \in Driver :
          /\ rides[r].status = "requested" /\ ~HasActiveRide(d)
          /\ rides' = [rides EXCEPT ![r].status = "accepted", ![r].progress = "accepted",
                                    ![r].driver = d]
          /\ UNCHANGED earnings
    BY <1>3, AcceptEffect
  <2>2. /\ rides'[r].status = "accepted" /\ rides'[r].driver = d
        /\ rides'[r].rider = rides[r].rider
        /\ \A q \in Request : q # r => rides'[q] = rides[q]
    BY <2>1 DEF IInv, TypeOK, Ride
  <2>3. PhaseOf(r) = "waiting" /\ PhaseOf(r)' = "driving"
    BY <1>0, <2>1, <2>2, PhaseFacts DEF PhaseOf, ACTIVE_STATUSES
  <2>4. \A q \in Request : q # r => PhaseOf(q)' = PhaseOf(q)
    BY <2>2 DEF PhaseOf
  <2>5. phase' = [phase EXCEPT ![r] = "driving"]
    BY <2>3, <2>4
  <2>6. winner' = [winner EXCEPT ![r] = d] /\ rider' = rider
    BY <2>2
  <2>7. \A q \in Request : rides[q].driver = d => PhaseOf(q) # "driving"
    <3> TAKE q \in Request
    <3>1. rides[q].driver = d => rides[q].status \notin ACTIVE_STATUSES
      BY <2>1 DEF HasActiveRide
    <3>2. PhaseOf(q) = "driving" => rides[q].status \in ACTIVE_STATUSES
      BY <1>0 DEF PhaseOf, TypeOK, Ride, RideStatus, OpenStatus, ACTIVE_STATUSES
    <3> QED  BY <3>1, <3>2
  <2>8. Lifecycle!Assign(r, d)
    BY <2>1, <2>3, <2>5, <2>6, <2>7 DEF Lifecycle!Assign
  <2> QED  BY <2>8
<1>4. ASSUME NEW s \in Session, CancelUnfulfilled(s)
      PROVE  \E r \in Request : Lifecycle!Cancel(r)
  <2>1. PICK r \in Request : r = txn[s].ride /\ rides[r].status = "requested"
    BY <1>4 DEF CancelUnfulfilled, Unfulfilled, IInv, LocksOK, TxnsOK
  <2>2. /\ rides'[r].status = "cancelled" /\ rides'[r].driver = rides[r].driver
        /\ rides'[r].rider = rides[r].rider
        /\ \A q \in Request : q # r => rides'[q] = rides[q]
    BY <1>4, <2>1 DEF CancelUnfulfilled, IInv, TypeOK, Ride
  <2>3. PhaseOf(r) = "waiting" /\ PhaseOf(r)' = "cancelled"
    BY <1>0, <2>1, <2>2, PhaseFacts DEF PhaseOf, ACTIVE_STATUSES
  <2>4. phase' = [phase EXCEPT ![r] = "cancelled"]
    <3>1. \A q \in Request : q # r => PhaseOf(q)' = PhaseOf(q)
      BY <2>2 DEF PhaseOf
    <3> QED  BY <2>3, <3>1
  <2>5. rider' = rider /\ winner' = winner
    BY <2>2
  <2> QED  BY <1>4, <2>1, <2>3, <2>4, <2>5 DEF Lifecycle!Cancel, CancelUnfulfilled
<1>5. ASSUME NEW r \in Request, NEW d \in Driver, NEW step \in PROGRESS_STEPS,
             UpdateProgress(r, d, step)
      PROVE  Lifecycle!Arrive(r) \/ UNCHANGED Lifecycle!lifeVars
  <2>1. /\ rides[r].status \in ACTIVE_STATUSES
        /\ rides'[r].status = StatusForStep(step) /\ rides'[r].driver = rides[r].driver
        /\ rides'[r].rider = rides[r].rider /\ rides'[r].paid = rides[r].paid
        /\ \A q \in Request : q # r => rides'[q] = rides[q]
        /\ ~rides[r].paid
    BY <1>5 DEF UpdateProgress, IInv, TypeOK, Ride, TablesOK, NoInconsistentRides, ACTIVE_STATUSES
  <2>2. PhaseOf(r) = "driving" /\ \A q \in Request : q # r => PhaseOf(q)' = PhaseOf(q)
    BY <1>0, <2>1, PhaseFacts DEF PhaseOf
  <2>3. rider' = rider /\ winner' = winner /\ UNCHANGED earnings
    <3>1. \A q \in Request :
            rides'[q].rider = rides[q].rider /\ rides'[q].driver = rides[q].driver
      BY <2>1
    <3> QED  BY <1>5, <3>1 DEF UpdateProgress
  <2>4. CASE step = "completed"
    <3>1. PhaseOf(r)' = "arrived"
      BY <2>1, <2>4 DEF StatusForStep, PhaseOf, ACTIVE_STATUSES
    <3>2. phase' = [phase EXCEPT ![r] = "arrived"]
      BY <2>2, <3>1
    <3> QED  BY <2>2, <2>3, <3>2 DEF Lifecycle!Arrive
  <2>5. CASE step # "completed"
    <3>1. PhaseOf(r)' = "driving"
      BY <2>1, <2>5 DEF StatusForStep, PhaseOf, ACTIVE_STATUSES
    <3>2. phase' = phase
      BY <2>2, <3>1
    <3> QED  BY <2>3, <3>2 DEF Lifecycle!lifeVars
  <2> QED  BY <2>4, <2>5
<1>6. ASSUME NEW r \in Request, NEW d \in Driver, ConfirmPayment(r, d)
      PROVE  Lifecycle!Settle(r, d)
  <2>1. /\ rides[r].status = "completed" /\ ~rides[r].paid /\ rides[r].driver = d
        /\ rides'[r].status = "completed" /\ rides'[r].paid
        /\ rides'[r].driver = rides[r].driver /\ rides'[r].rider = rides[r].rider
        /\ \A q \in Request : q # r => rides'[q] = rides[q]
        /\ earnings' = [earnings EXCEPT ![d][r] = @ + 1]
    BY <1>6 DEF ConfirmPayment, IInv, TypeOK, Ride
  <2>2. PhaseOf(r) = "arrived" /\ PhaseOf(r)' = "settled"
    BY <2>1 DEF PhaseOf, ACTIVE_STATUSES
  <2>3. phase' = [phase EXCEPT ![r] = "settled"]
    <3>1. \A q \in Request : q # r => PhaseOf(q)' = PhaseOf(q)
      BY <2>1 DEF PhaseOf
    <3> QED  BY <2>2, <3>1
  <2>4. rider' = rider /\ winner' = winner
    BY <2>1
  <2> QED  BY <2>1, <2>2, <2>3, <2>4 DEF Lifecycle!Settle
<1> QED
  BY <1>1, <1>2, <1>3, <1>4, <1>5, <1>6, RideWriters DEF Lifecycle!LifeNext

\* The service implements the lifecycle: initial states map to initial states
\* and every step maps to a step of one ride or to none.
THEOREM Refinement == Spec => ImplementsLifecycle
<1>1. IInv /\ IInv' /\ [Next]_vars => [Lifecycle!LifeNext]_Lifecycle!lifeVars
  BY LifecycleStep
<1> QED
  BY <1>1, LifecycleInit, Invariance, PTL DEF Spec, ImplementsLifecycle, Lifecycle!LifeSpec

-----------------------------------------------------------------------------
(* The offer book                                                          *)

Phases == [r \in Request |-> BookPhase(r)]
Winners == [r \in Request |-> rides[r].driver]
PairsOf(ids) == {PairOf(o) : o \in {p \in ids : Pending(p)}}
Asked == PairsOf(OfferId)
Late == {PairOf(o) : o \in {p \in OfferId : Pending(p) /\ offers[p].due}}

\* What create_offer marks expired stood in the way of its own insert.
OverdueIsTheirs ==
  \A s \in Session : \A o \in txn[s].overdue :
    txn[s].op \in {"offer", "insert"} =>
      offers[o].ride = txn[s].ride \/ offers[o].driver = txn[s].driver

\* A row never changes its ride or its driver.
LEMMA RowsKeepPairs ==
  ASSUME IInv, [Next]_vars, NEW o \in OfferId, offers[o].status # "none"
  PROVE  offers'[o].ride = offers[o].ride /\ offers'[o].driver = offers[o].driver
<1>1. \A ids, new : /\ Resolve(ids, new)[o].ride = offers[o].ride
                    /\ Resolve(ids, new)[o].driver = offers[o].driver
  BY DEF Resolve, IInv, TypeOK, Offer
<1>2. ASSUME NEW s \in Session, OfferMade(s)
      PROVE  offers'[o].ride = offers[o].ride /\ offers'[o].driver = offers[o].driver
  <2>1. PICK n \in OfferId :
          /\ offers[n].status = "none"
          /\ offers' = [Resolve(txn[s].overdue, "expired") EXCEPT ![n] =
                          [status |-> "pending", ride |-> txn[s].ride,
                           driver |-> txn[s].driver, due |-> FALSE]]
    BY <1>2 DEF OfferMade, IsNextOfferId
  <2>2. n # o
    BY <2>1
  <2>3. offers'[o] = Resolve(txn[s].overdue, "expired")[o]
    BY <2>1, <2>2 DEF Resolve
  <2> QED  BY <1>1, <2>3
<1>3. ASSUME NEW p \in OfferId, DeadlinePasses(p)
      PROVE  offers'[o].ride = offers[o].ride /\ offers'[o].driver = offers[o].driver
  BY <1>3 DEF DeadlinePasses, IInv, TypeOK, Offer
<1> QED  BY <1>1, <1>2, <1>3, OfferWriters

\* A transaction goes on with what it found, ends, or begins.
LEMMA TxnWriters ==
  ASSUME IInv, [Next]_vars, NEW t \in Session
  PROVE  \/ txn'[t] = txn[t]
         \/ txn'[t].op \notin {"offer", "insert"}
         \/ /\ txn[t].op = "offer" /\ txn'[t].ride = txn[t].ride
            /\ txn'[t].driver = txn[t].driver /\ txn'[t].overdue = txn[t].overdue
         \/ \E r \in Request, d \in Driver : BeginOffer(t, r, d)
<1> txn \in [Session -> Txn]
  BY DEF IInv, TypeOK
<1>1. ASSUME NEW s \in Session, End(s) PROVE txn'[t] = txn[t] \/ txn'[t].op = "idle"
  BY <1>1 DEF End, Idle
<1>2. ASSUME NEW s \in Session, BeginTxn(s)
      PROVE  \/ txn'[t] = txn[t] \/ txn'[t].op \notin {"offer", "insert"}
             \/ \E r \in Request, d \in Driver : BeginOffer(t, r, d)
  BY <1>2 DEF BeginTxn, BeginCancel, BeginAccept, BeginExpire, BeginOffer, Begin
<1>3. ASSUME NEW s \in Session, OfferChecked(s)
      PROVE  \/ txn'[t] = txn[t]
             \/ /\ txn[t].op = "offer" /\ txn'[t].ride = txn[t].ride
                /\ txn'[t].driver = txn[t].driver /\ txn'[t].overdue = txn[t].overdue
  BY <1>3 DEF OfferChecked, AtOffer, Txn
<1>4. ASSUME NEW s \in Session, TxnStep(s)
      PROVE  End(s) \/ OfferChecked(s)
  BY <1>4 DEF TxnStep, OfferNotRequested, OfferRefused, OfferCollides, OfferMade,
              AcceptTooLate, AcceptWins, AcceptNotOffered, AcceptRefused, ExpireOffer,
              CancelUnfulfilled, CancelRefused, Abort, Rollback
<1>5. CASE OneStepCall \/ (\E o \in OfferId : DeadlinePasses(o)) \/ UNCHANGED vars
  BY <1>5 DEF OneStepCall, CreateRideRequest, RejectOffer, UpdateProgress, ConfirmPayment,
              DeadlinePasses, vars
<1> QED  BY <1>1, <1>2, <1>3, <1>4, <1>5 DEF Next

LEMMA OverdueStaysTheirs ==
  ASSUME IInv, OverdueIsTheirs, [Next]_vars
  PROVE  OverdueIsTheirs'
<1> SUFFICES ASSUME NEW t \in Session, NEW o \in txn'[t].overdue,
                    txn'[t].op \in {"offer", "insert"}
             PROVE  offers'[o].ride = txn'[t].ride \/ offers'[o].driver = txn'[t].driver
  BY DEF OverdueIsTheirs
<1>1. CASE txn'[t] = txn[t] \/ (/\ txn[t].op = "offer" /\ txn'[t].ride = txn[t].ride
                                /\ txn'[t].driver = txn[t].driver
                                /\ txn'[t].overdue = txn[t].overdue)
  <2>1. /\ o \in OfferId /\ offers[o].status # "none"
        /\ offers[o].ride = txn[t].ride \/ offers[o].driver = txn[t].driver
    BY <1>1 DEF OverdueIsTheirs, IInv, TypeOK, Txn, LocksOK, TxnsOK
  <2> QED  BY <1>1, <2>1, RowsKeepPairs
<1>2. ASSUME NEW r \in Request, NEW d \in Driver, BeginOffer(t, r, d)
      PROVE  offers'[o].ride = txn'[t].ride \/ offers'[o].driver = txn'[t].driver
  <2>1. /\ txn'[t].ride = r /\ txn'[t].driver = d
        /\ txn'[t].overdue \subseteq {p \in OfferId : offers[p].ride = r \/ offers[p].driver = d}
    BY <1>2 DEF BeginOffer, Begin, IInv, TypeOK
  <2> QED  BY <1>2, <2>1 DEF BeginOffer, Begin
<1> QED  BY <1>1, <1>2, TxnWriters

LEMMA OverdueInvariance == Spec => []OverdueIsTheirs
<1>1. Init => OverdueIsTheirs
  BY DEF Init, OverdueIsTheirs, Idle
<1>2. IInv /\ OverdueIsTheirs /\ [Next]_vars => OverdueIsTheirs'
  BY OverdueStaysTheirs
<1> QED  BY <1>1, <1>2, Invariance, PTL DEF Spec

\* A step of the service that is none of the book.
LEMMA BookUnchanged ==
  ASSUME UNCHANGED <<rides, offers>> PROVE UNCHANGED Book!bookVars
  BY DEF Book!bookVars, BookPhase, PairOf, Pending

\* The unique indexes: a pair stands for one row.
LEMMA PairsAreRows ==
  ASSUME IInv, NEW o \in OfferId, NEW p \in OfferId, Pending(o), Pending(p),
         offers[o].ride = offers[p].ride \/ offers[o].driver = offers[p].driver
  PROVE  o = p
  BY DEF IInv, TablesOK, ReservationsExclusive

LEMMA PairsAreTyped ==
  ASSUME IInv, NEW o \in OfferId, Pending(o)
  PROVE  /\ PairOf(o) \in Request \X Driver
         /\ PairOf(o)[1] = offers[o].ride /\ PairOf(o)[2] = offers[o].driver
  BY DEF IInv, TablesOK, RowsOK, PairOf, Pending

\* Answering rows takes their pairs, and no others, off the book.
LEMMA ResolveDrops ==
  ASSUME IInv, NEW ids \in SUBSET OfferId, NEW new \in {"accepted", "rejected", "expired"},
         offers' = Resolve(ids, new)
  PROVE  Asked' = Asked \ PairsOf(ids) /\ Late' = Late \ PairsOf(ids)
<1>1. \A o \in OfferId :
        /\ PairOf(o)' = PairOf(o) /\ offers'[o].due = offers[o].due
        /\ Pending(o)' <=> Pending(o) /\ o \notin ids
  BY ResolveFacts DEF IInv, OfferStatus, PairOf, Pending
<1>2. ASSUME NEW o \in OfferId, Pending(o)
      PROVE  PairOf(o) \in PairsOf(ids) <=> o \in ids
  <2>1. ASSUME NEW p \in ids, Pending(p), PairOf(p) = PairOf(o) PROVE o = p
    BY <1>2, <2>1, PairsAreRows DEF PairOf
  <2> QED
    BY <1>2, <2>1 DEF PairsOf
<1>3. Asked' = Asked \ PairsOf(ids)
  <2>1. Asked' = {PairOf(o) : o \in {p \in OfferId : Pending(p) /\ p \notin ids}}
    BY <1>1 DEF Asked, PairsOf
  <2> QED
    BY <1>2, <2>1 DEF Asked, PairsOf
<1>4. Late' = Late \ PairsOf(ids)
  <2>1. Late' = {PairOf(o) : o \in {p \in OfferId : (Pending(p) /\ offers[p].due) /\ p \notin ids}}
    BY <1>1 DEF Late
  <2> QED
    BY <1>2, <2>1 DEF Late
<1> QED
  BY <1>3, <1>4

\* A change of one row changes one phase and one winner.
LEMMA RowMoves ==
  ASSUME NEW r \in Request, \A q \in Request : q # r => rides'[q] = rides[q]
  PROVE  /\ Phases' = [Phases EXCEPT ![r] = BookPhase(r)']
         /\ Winners' = [Winners EXCEPT ![r] = rides'[r].driver]
         /\ rides'[r].driver = rides[r].driver => Winners' = Winners
<1>1. \A q \in Request : q # r => BookPhase(q)' = BookPhase(q)
  BY DEF BookPhase
<1>2. Phases' = [Phases EXCEPT ![r] = BookPhase(r)']
  BY <1>1 DEF Phases
<1>3. Winners' = [Winners EXCEPT ![r] = rides'[r].driver]
  BY DEF Winners
<1>4. rides'[r].driver = rides[r].driver => Winners' = Winners
  BY DEF Winners
<1> QED
  BY <1>2, <1>3, <1>4

\* Rows that some transaction found overdue may be marked expired.
LEMMA Withdraws ==
  ASSUME IInv, NEW ids \in SUBSET OfferId, \A o \in ids : offers[o].due,
         offers' = Resolve(ids, "expired"), UNCHANGED rides
  PROVE  [Book!BookNext]_Book!bookVars
<1>0. PICK gone : gone = PairsOf(ids)
  OBVIOUS
<1>1. gone \subseteq Late
  BY <1>0 DEF PairsOf, Late
<1>2. Asked' = Asked \ gone /\ Late' = Late \ gone
  BY <1>0, ResolveDrops
<1>3. Book!Withdraw(gone)
  <2>1. /\ [r \in Request |-> BookPhase(r)]' = [r \in Request |-> BookPhase(r)]
        /\ [r \in Request |-> rides[r].driver]' = [r \in Request |-> rides[r].driver]
    BY DEF BookPhase
  <2> QED
    BY <1>1, <1>2, <2>1 DEF Book!Withdraw, Book!Drop, Asked, PairsOf, Late
<1>4. \E set \in SUBSET Late : Book!Withdraw(set)
  BY <1>1, <1>3
<1>5. Book!BookNext
  BY <1>4 DEF Book!BookNext, Late
<1> QED
  BY <1>5

\* What the insert takes out of the way was overdue when its transaction
\* began, and the ride is still waiting: the lock held since the check.
LEMMA OfferMadeAsks ==
  ASSUME IInv, OverdueIsTheirs, NEW s \in Session, OfferMade(s)
  PROVE  [Book!BookNext]_Book!bookVars
<1> DEFINE x == <<txn[s].ride, txn[s].driver>>
           gone == PairsOf(txn[s].overdue)
           inTheWay == {y \in Asked : y[1] = x[1] \/ y[2] = x[2]}
<1>1. /\ txn[s].ride \in Request /\ txn[s].driver \in Driver
      /\ txn[s].overdue \in SUBSET OfferId
      /\ \A o \in txn[s].overdue : offers[o].due
      /\ rides[txn[s].ride].status = "requested"
  BY DEF OfferMade, IInv, TypeOK, Txn, LocksOK, TxnsOK, CollisionIsTheDrivers
<1>2. PICK n \in OfferId :
        /\ offers[n].status = "none"
        /\ offers' = [Resolve(txn[s].overdue, "expired") EXCEPT ![n] =
                        [status |-> "pending", ride |-> txn[s].ride,
                         driver |-> txn[s].driver, due |-> FALSE]]
  BY DEF OfferMade, IsNextOfferId
<1>3. /\ PairOf(n)' = x /\ Pending(n)' /\ ~offers'[n].due /\ ~Pending(n)
      /\ \A o \in OfferId : o # n =>
           /\ PairOf(o)' = PairOf(o) /\ offers'[o].due = offers[o].due
           /\ Pending(o)' <=> Pending(o) /\ o \notin txn[s].overdue
  <2> DEFINE row == [status |-> "pending", ride |-> txn[s].ride,
                     driver |-> txn[s].driver, due |-> FALSE]
             resolved == Resolve(txn[s].overdue, "expired")
  <2>1. \A o \in OfferId :
          /\ resolved[o].ride = offers[o].ride /\ resolved[o].driver = offers[o].driver
          /\ resolved[o].due = offers[o].due
          /\ resolved[o].status = IF o \in txn[s].overdue /\ offers[o].status = "pending"
                                  THEN "expired" ELSE offers[o].status
    BY ResolveFacts DEF IInv, OfferStatus
  <2>2. offers' = [resolved EXCEPT ![n] = row] /\ DOMAIN resolved = OfferId
    BY <1>2 DEF Resolve
  <2>3. /\ row.status = "pending" /\ row.ride = txn[s].ride
        /\ row.driver = txn[s].driver /\ row.due = FALSE
    OBVIOUS
  <2> HIDE DEF row, resolved
  <2>4. offers'[n] = row /\ \A o \in OfferId : o # n => offers'[o] = resolved[o]
    BY <2>2
  <2>5. PairOf(n)' = x /\ Pending(n)' /\ ~offers'[n].due /\ ~Pending(n)
    BY <1>2, <2>3, <2>4 DEF PairOf, Pending
  <2>6. ASSUME NEW o \in OfferId, o # n
        PROVE  /\ PairOf(o)' = PairOf(o) /\ offers'[o].due = offers[o].due
               /\ Pending(o)' <=> Pending(o) /\ o \notin txn[s].overdue
    BY <2>1, <2>4, <2>6 DEF PairOf, Pending
  <2> QED
    BY <2>5, <2>6
<1>4. ASSUME NEW o \in OfferId, Pending(o)
      PROVE  PairOf(o) \in gone <=> o \in txn[s].overdue
  <2>1. ASSUME NEW p \in txn[s].overdue, Pending(p), PairOf(p) = PairOf(o) PROVE o = p
    BY <1>1, <1>4, <2>1, PairsAreRows DEF PairOf
  <2> QED
    BY <1>4, <2>1 DEF PairsOf
<1>5. Asked' = (Asked \ gone) \cup {x}
  <2>1. Asked' = {PairOf(o)' : o \in {p \in OfferId : Pending(p)'}}
    BY DEF Asked, PairsOf
  <2>2. Asked' = {PairOf(o) : o \in {p \in OfferId : Pending(p) /\ p \notin txn[s].overdue}}
                   \cup {x}
    BY <1>3, <2>1
  <2> HIDE DEF gone, x
  <2> QED
    BY <1>4, <2>2 DEF Asked, PairsOf
<1>6. Late' = Late \ gone
  <2>1. Late' = {PairOf(o) : o \in {p \in OfferId :
                   (Pending(p) /\ offers[p].due) /\ p \notin txn[s].overdue}}
    BY <1>3 DEF Late
  <2> HIDE DEF gone
  <2> QED
    BY <1>4, <2>1 DEF Late
<1>7. inTheWay = gone \cap inTheWay
  <2>1. ASSUME NEW o \in OfferId, Pending(o),
               offers[o].ride = txn[s].ride \/ offers[o].driver = txn[s].driver
        PROVE  o \in txn[s].overdue
    BY <2>1 DEF OfferMade, CollidingOffers
  <2> QED
    BY <1>4, <2>1 DEF Asked, PairsOf, PairOf
<1>8. gone \subseteq Late
  BY <1>1 DEF PairsOf, Late
<1>9. Phases[x[1]] = "waiting" /\ Phases' = Phases /\ Winners' = Winners
  <2>1. BookPhase(txn[s].ride) = "waiting"
    BY <1>1 DEF BookPhase, ACTIVE_STATUSES
  <2>2. x[1] = txn[s].ride /\ Phases[txn[s].ride] = "waiting"
    BY <1>1, <2>1 DEF Phases
  <2>3. Phases' = Phases /\ Winners' = Winners
    BY DEF OfferMade, Phases, BookPhase, Winners
  <2> HIDE DEF x
  <2> QED
    BY <2>2, <2>3
<1>10. gone \subseteq inTheWay
  <2>1. ASSUME NEW o \in txn[s].overdue, Pending(o)
        PROVE  offers[o].ride = txn[s].ride \/ offers[o].driver = txn[s].driver
    BY <2>1 DEF OfferMade, OverdueIsTheirs
  <2> QED
    BY <1>1, <2>1 DEF Asked, PairsOf, PairOf
<1>11. PICK pair \in Request \X Driver : pair = x
  BY <1>1
<1> HIDE DEF x, gone
<1>12. Book!Ask(pair)
  BY <1>5, <1>6, <1>7, <1>8, <1>9, <1>10, <1>11
  DEF Book!Ask, Book!InTheWayOf, Asked, PairsOf, Late, Phases, Winners
<1> QED
  BY <1>11, <1>12 DEF Book!BookNext

\* One answered row is one pair.
LEMMA PairOfOne ==
  ASSUME NEW o \in OfferId, Pending(o) PROVE PairsOf({o}) = {PairOf(o)}
  BY DEF PairsOf

\* The winner was asked, and drives nothing else.
LEMMA AcceptWinsInBook ==
  ASSUME IInv, NEW s \in Session, AcceptWins(s)
  PROVE  [Book!BookNext]_Book!bookVars
<1> PICK r \in Request, d \in Driver : r = txn[s].ride /\ d = txn[s].driver
  BY DEF AcceptWins, AtAccept, IInv, LocksOK, TxnsOK
<1>1. PICK o \in OfferId :
        /\ Pending(o) /\ offers[o].ride = r /\ offers[o].driver = d
        /\ offers' = Resolve({o}, "accepted")
  BY DEF AcceptWins, AtAccept, IsLatestOffer
<1> PICK x : x = <<r, d>>
  OBVIOUS
<1>2. x \in Request \X Driver /\ x[1] = r /\ x[2] = d /\ PairOf(o) = x
  BY <1>1 DEF PairOf
<1>3. Asked' = Asked \ {x} /\ Late' = Late \ {x} /\ x \in Asked
  BY <1>1, <1>2, ResolveDrops, PairOfOne DEF Asked, PairsOf
<1>4. /\ rides[r].status = "requested" /\ ~HasActiveRide(d)
      /\ rides'[r].status = "accepted" /\ rides'[r].driver = d
      /\ \A q \in Request : q # r => rides'[q] = rides[q]
  BY DEF AcceptWins, IInv, TypeOK, Ride
<1>5. BookPhase(r) = "waiting" /\ BookPhase(r)' = "driving"
  BY <1>4 DEF BookPhase, ACTIVE_STATUSES
<1>6. /\ Phases' = [Phases EXCEPT ![r] = "driving"] /\ Phases[r] = "waiting"
      /\ Winners' = [Winners EXCEPT ![r] = d]
  BY <1>4, <1>5, RowMoves DEF Phases
<1>7. \A q \in Request : ~(Winners[q] = d /\ Phases[q] = "driving")
  <2> SUFFICES ASSUME NEW q \in Request, rides[q].driver = d PROVE BookPhase(q) # "driving"
    BY DEF Winners, Phases
  <2>1. rides[q].status \in RideStatus \ ACTIVE_STATUSES
    BY <1>4 DEF HasActiveRide, IInv, TypeOK, Ride
  <2> QED
    BY <2>1 DEF BookPhase, RideStatus, OpenStatus, ACTIVE_STATUSES
<1>8. Book!Win(x)
  BY <1>2, <1>3, <1>6, <1>7
  DEF Book!Win, Book!Moves, Book!Driving, Book!Drop, Asked, PairsOf, Late, Phases, Winners
<1> QED
  BY <1>2, <1>8 DEF Book!BookNext

\* cancel_unfulfilled takes back the overdue offers of the ride it cancels.
LEMMA CancelsInBook ==
  ASSUME IInv, NEW s \in Session, CancelUnfulfilled(s)
  PROVE  [Book!BookNext]_Book!bookVars
<1> PICK r \in Request : r = txn[s].ride /\ rides[r].status = "requested"
  BY DEF CancelUnfulfilled, Unfulfilled, IInv, LocksOK, TxnsOK
<1>1. /\ offers' = Resolve(PendingOffers(r), "expired")
      /\ \A o \in PendingOffers(r) : offers[o].due
  BY DEF CancelUnfulfilled, Unfulfilled, StillPending, IInv, LocksOK, TxnsOK
<1>2. PairsOf(PendingOffers(r)) = {x \in Asked : x[1] = r}
  BY DEF PairsOf, Asked, PendingOffers, PairOf
<1>3. PairsOf(PendingOffers(r)) \subseteq Late
  BY <1>1 DEF PairsOf, Late, PendingOffers
<1>4. Asked' = Asked \ PairsOf(PendingOffers(r)) /\ Late' = Late \ PairsOf(PendingOffers(r))
  <2>1. PendingOffers(r) \in SUBSET OfferId
    BY DEF PendingOffers
  <2> QED
    BY <1>1, <2>1, ResolveDrops
<1>5. /\ rides'[r].status = "cancelled" /\ rides'[r].driver = rides[r].driver
      /\ \A q \in Request : q # r => rides'[q] = rides[q]
  BY DEF CancelUnfulfilled, IInv, TypeOK, Ride
<1>6. BookPhase(r) = "waiting" /\ BookPhase(r)' = "cancelled"
  BY <1>5 DEF BookPhase, ACTIVE_STATUSES
<1>7. /\ Phases' = [Phases EXCEPT ![r] = "cancelled"] /\ Phases[r] = "waiting"
      /\ Winners' = Winners
  BY <1>5, <1>6, RowMoves DEF Phases
<1> DEFINE mine == {x \in Asked : x[1] = r}
<1>8. mine \subseteq Late /\ Asked' = Asked \ mine /\ Late' = Late \ mine
  BY <1>2, <1>3, <1>4
<1>9. Book!Cancel(r)
  BY <1>7, <1>8
  DEF Book!Cancel, Book!AskedFor, Book!Moves, Book!Drop, Asked, PairsOf, Late, Phases, Winners
<1> QED
  BY <1>9 DEF Book!BookNext

\* reject_offer answers the one offer the driver holds for the ride.
LEMMA DeclinesInBook ==
  ASSUME IInv, NEW r \in Request, NEW d \in Driver, RejectOffer(r, d)
  PROVE  [Book!BookNext]_Book!bookVars
<1> DEFINE held == {o \in PendingOffers(r) : offers[o].driver = d}
<1>1. PICK o \in OfferId : Pending(o) /\ offers[o].ride = r /\ offers[o].driver = d
  BY DEF RejectOffer, PendingOffers
<1>2. held = {o}
  BY <1>1, PairsAreRows DEF PendingOffers
<1>3. offers' = Resolve({o}, "rejected") /\ UNCHANGED rides
  BY <1>2 DEF RejectOffer
<1> PICK x : x = <<r, d>>
  OBVIOUS
<1>4. x \in Request \X Driver /\ PairOf(o) = x
  BY <1>1 DEF PairOf
<1>5. Asked' = Asked \ {x} /\ Late' = Late \ {x} /\ x \in Asked
  BY <1>1, <1>3, <1>4, ResolveDrops, PairOfOne DEF Asked, PairsOf
<1>6. Book!Decline(x)
  <2>1. Phases' = Phases /\ Winners' = Winners
    BY <1>3 DEF Phases, Winners, BookPhase
  <2> QED
    BY <1>5, <2>1
    DEF Book!Decline, Book!Drop, Asked, PairsOf, Late, Phases, Winners
<1> QED
  BY <1>4, <1>6 DEF Book!BookNext

LEMMA LapsesInBook ==
  ASSUME IInv, NEW o \in OfferId, DeadlinePasses(o)
  PROVE  [Book!BookNext]_Book!bookVars
<1> PICK x \in Request \X Driver : x = PairOf(o)
  BY PairsAreTyped DEF DeadlinePasses
<1>1. \A p \in OfferId :
        /\ PairOf(p)' = PairOf(p) /\ (Pending(p)' <=> Pending(p))
        /\ p # o => offers'[p].due = offers[p].due
        /\ offers'[o].due /\ Pending(o) /\ ~offers[o].due
  BY DEF DeadlinePasses, PairOf, Pending, IInv, TypeOK, Offer
<1>2. Asked' = Asked /\ x \in Asked
  BY <1>1 DEF Asked, PairsOf
<1>3. x \notin Late
  <2>1. ASSUME NEW p \in OfferId, Pending(p), PairOf(p) = x PROVE p = o
    BY <1>1, <2>1, PairsAreRows DEF PairOf
  <2> QED
    BY <1>1, <2>1 DEF Late
<1>4. Late' = Late \cup {x}
  BY <1>1 DEF Late
<1>5. UNCHANGED rides
  BY DEF DeadlinePasses
<1>6. Book!Lapse(x)
  BY <1>2, <1>3, <1>4, <1>5 DEF Book!Lapse, Asked, PairsOf, Late, BookPhase
<1> QED
  BY <1>6 DEF Book!BookNext

\* The calls that touch no offer.
LEMMA RideCallsInBook ==
  ASSUME IInv, NEW r \in Request,
         \/ \E u \in Rider, food \in FoodChoice : CreateRideRequest(r, u, food)
         \/ \E d \in Driver, step \in PROGRESS_STEPS : UpdateProgress(r, d, step)
         \/ \E d \in Driver : ConfirmPayment(r, d)
  PROVE  [Book!BookNext]_Book!bookVars
<1>0. UNCHANGED offers /\ \A q \in Request : q # r => rides'[q] = rides[q]
  BY DEF CreateRideRequest, UpdateProgress, ConfirmPayment, IInv, TypeOK
<1>1. ASSUME NEW u \in Rider, NEW food \in FoodChoice, CreateRideRequest(r, u, food)
      PROVE  Book!Open(r)
  <2>1. /\ rides[r].status = "none" /\ rides'[r].status = "requested"
        /\ rides'[r].driver = rides[r].driver
    BY <1>1 DEF CreateRideRequest, IInv, TypeOK, TablesOK, NoInconsistentRides,
                AssignedStatus, ACTIVE_STATUSES
  <2>2. BookPhase(r) = "none" /\ BookPhase(r)' = "waiting"
    BY <2>1 DEF BookPhase, ACTIVE_STATUSES
  <2>3. /\ Phases' = [Phases EXCEPT ![r] = "waiting"] /\ Phases[r] = "none"
        /\ Winners' = Winners
    BY <1>0, <2>1, <2>2, RowMoves DEF Phases
  <2> QED
    BY <1>0, <2>3
    DEF Book!Open, Book!Moves, Phases, Winners, PairOf, Pending
<1>2. ASSUME NEW d \in Driver, NEW step \in PROGRESS_STEPS, UpdateProgress(r, d, step)
      PROVE  Book!Finish(r) \/ UNCHANGED Book!bookVars
  <2>1. /\ rides[r].status \in ACTIVE_STATUSES /\ rides'[r].driver = rides[r].driver
        /\ rides'[r].status = StatusForStep(step)
    BY <1>2 DEF UpdateProgress, IInv, TypeOK, Ride
  <2>2. BookPhase(r) = "driving" /\ BookPhase(r)' \in {"driving", "over"}
    BY <2>1 DEF BookPhase, StatusForStep, ACTIVE_STATUSES
  <2> PICK to : to = BookPhase(r)'
    OBVIOUS
  <2>3. Phases' = [Phases EXCEPT ![r] = to] /\ Phases[r] = "driving" /\ Winners' = Winners
    BY <1>0, <2>1, <2>2, RowMoves DEF Phases
  <2>4. CASE to = "over"
    BY <1>0, <2>3, <2>4 DEF Book!Finish, Book!Moves, Phases, Winners, PairOf, Pending
  <2>5. CASE to = "driving"
    <3>1. Phases' = Phases
      BY <2>3, <2>5 DEF Phases
    <3> QED
      BY <1>0, <2>3, <3>1 DEF Book!bookVars, Phases, Winners, PairOf, Pending
  <2> QED
    BY <2>2, <2>4, <2>5
<1>3. ASSUME NEW d \in Driver, ConfirmPayment(r, d)
      PROVE  UNCHANGED Book!bookVars
  <2>1. /\ rides'[r].driver = rides[r].driver
        /\ rides[r].status = "completed" /\ rides'[r].status = "completed"
    BY <1>3 DEF ConfirmPayment, IInv, TypeOK, Ride
  <2>2. \A q \in Request : /\ rides'[q].status = rides[q].status
                           /\ rides'[q].driver = rides[q].driver
    BY <1>0, <2>1
  <2>3. \A q \in Request : BookPhase(q)' = BookPhase(q)
    BY <2>2 DEF BookPhase
  <2>4. Phases' = Phases /\ Winners' = Winners
    BY <2>2, <2>3 DEF Phases, Winners
  <2> QED
    BY <1>0, <2>4 DEF Book!bookVars, Phases, Winners, PairOf, Pending
<1> QED
  BY <1>1, <1>2, <1>3 DEF Book!BookNext

LEMMA StepInBook ==
  ASSUME IInv, OverdueIsTheirs, [Next]_vars
  PROVE  [Book!BookNext]_Book!bookVars
<1>1. ASSUME NEW s \in Session, BeginTxn(s) PROVE UNCHANGED Book!bookVars
  BY <1>1, BookUnchanged
  DEF BeginTxn, BeginCancel, BeginOffer, BeginAccept, BeginExpire, Begin
<1>2. ASSUME NEW s \in Session, TxnStep(s) PROVE [Book!BookNext]_Book!bookVars
  <2>1. txn[s].overdue \in SUBSET OfferId /\ \A o \in txn[s].overdue : offers[o].due
    BY DEF IInv, TypeOK, Txn, LocksOK, TxnsOK
  <2>2. CASE OfferRefused(s) \/ ExpireOffer(s)
    BY <2>1, <2>2, Withdraws DEF OfferRefused, ExpireOffer
  <2>3. CASE AcceptTooLate(s)
    <3>1. PICK o \in OfferId : o \in txn[s].overdue /\ offers' = Resolve({o}, "expired")
      BY <2>3 DEF AcceptTooLate
    <3>2. {o} \in SUBSET OfferId /\ \A p \in {o} : offers[p].due
      BY <2>1, <3>1
    <3> QED
      BY <2>3, <3>1, <3>2, Withdraws DEF AcceptTooLate
  <2>4. CASE OfferMade(s) \/ AcceptWins(s) \/ CancelUnfulfilled(s)
    BY <2>4, OfferMadeAsks, AcceptWinsInBook, CancelsInBook
  <2>5. CASE \/ OfferNotRequested(s) \/ OfferChecked(s) \/ OfferCollides(s)
             \/ AcceptNotOffered(s) \/ AcceptRefused(s) \/ CancelRefused(s) \/ Abort(s)
    BY <2>5, BookUnchanged
    DEF OfferNotRequested, OfferChecked, OfferCollides, AcceptNotOffered, AcceptRefused,
        CancelRefused, Abort, Rollback
  <2> QED
    BY <1>2, <2>2, <2>3, <2>4, <2>5 DEF TxnStep
<1>3. CASE OneStepCall
  BY <1>3, RideCallsInBook, DeclinesInBook DEF OneStepCall
<1>4. CASE \E o \in OfferId : DeadlinePasses(o)
  BY <1>4, LapsesInBook
<1>5. CASE UNCHANGED vars
  BY <1>5, BookUnchanged DEF vars
<1> QED
  BY <1>1, <1>2, <1>3, <1>4, <1>5 DEF Next

LEMMA BookStart == Init => Book!BookInit
<1> SUFFICES ASSUME Init PROVE Book!BookInit
  OBVIOUS
<1>1. Phases = [r \in Request |-> "none"] /\ Winners = [r \in Request |-> Null]
  <2>1. \A r \in Request : rides[r].status = "none" /\ rides[r].driver = Null
    BY DEF Init
  <2>2. \A r \in Request : BookPhase(r) = "none"
    BY <2>1 DEF BookPhase, ACTIVE_STATUSES
  <2> QED
    BY <2>1, <2>2 DEF Phases, Winners
<1>2. Asked = {} /\ Late = {}
  BY DEF Init, Asked, PairsOf, Late, Pending
<1> QED
  BY <1>1, <1>2 DEF Book!BookInit, Phases, Winners, Asked, PairsOf, Late

\* The service keeps an offer book, whatever its transactions have read
\* before they waited for a lock.
THEOREM OfferBookKept == Spec => ImplementsOfferBook
<1>1. IInv /\ OverdueIsTheirs /\ [Next]_vars => [Book!BookNext]_Book!bookVars
  BY StepInBook
<1> QED
  BY <1>1, BookStart, Invariance, OverdueInvariance, PTL
  DEF Spec, ImplementsOfferBook, Book!BookSpec

=============================================================================
