----------------------------- MODULE Fares_proofs -----------------------------
(***************************************************************************)
(* Fares for every distance and every price: receipts add up, and no       *)
(* payment is refused.  Everything rests on what the two roundings do.     *)
(***************************************************************************)
EXTENDS Fares, TLAPS

WholeRupees == {x \in Int : x % Rupee = 0}

LEMMA RoundIsWhole ==
  ASSUME NEW x \in Int
  PROVE  /\ Round(x) \in WholeRupees
         /\ Round(x) - x \in -500..500
<1> DEFINE w == x \div 1000
           p == x % 1000
<1>1. w \in Int /\ p \in 0..999 /\ x = 1000 * w + p
  BY SMT
<1>2. Round(x) = 1000 * w \/ Round(x) = 1000 * (w + 1)
  BY <1>1 DEF Round, Whole, Part, Rupee
<1>3. Round(x) = 1000 * w => p <= 500
  <2>1. SUFFICES ASSUME p > 500 PROVE Round(x) = 1000 * (w + 1)
    BY <1>1
  <2> QED BY <2>1, <1>1 DEF Round, Whole, Part, Rupee
<1>4. Round(x) = 1000 * (w + 1) => p >= 500
  <2>1. SUFFICES ASSUME p < 500 PROVE Round(x) = 1000 * w
    BY <1>1
  <2> QED BY <2>1, <1>1 DEF Round, Whole, Part, Rupee
<1> HIDE DEF w, p
<1>5. Round(x) - x \in -500..500
  BY <1>1, <1>2, <1>3, <1>4
<1>6. (1000 * w) % 1000 = 0 /\ (1000 * (w + 1)) % 1000 = 0
  BY <1>1
<1> QED BY <1>1, <1>2, <1>5, <1>6 DEF WholeRupees, Rupee

LEMMA MathRoundIsNear ==
  ASSUME NEW x \in Int
  PROVE  /\ MathRound(x) \in Int
         /\ MathRound(x) - x \in -499..500
BY DEF MathRound, Whole, Rupee

LEMMA MathRoundKeepsWhole ==
  ASSUME NEW x \in WholeRupees
  PROVE  MathRound(x) = x
BY DEF MathRound, Whole, WholeRupees, Rupee

\* BASE_FARE is an even number of rupees: a half is rounded the same way with
\* it as without.
LEMMA RideFareIsItsParts ==
  ASSUME NEW m \in Nat
  PROVE  CalculateRideFare(m) = BASE_FARE + Round(m * PER_KM_RATE)
<1> DEFINE y == m * PER_KM_RATE
<1>1. y \in Nat BY DEF PER_KM_RATE
<1> HIDE DEF y
<1>2. /\ (40000 + y) \div 1000 = 40 + y \div 1000
      /\ (40000 + y) % 1000 = y % 1000
  BY <1>1
<1>3. (40 + y \div 1000) % 2 = (y \div 1000) % 2
  <2>1. y \div 1000 \in Int BY <1>1
  <2> QED BY <2>1
<1>4. Round(40000 + y) = 40000 + Round(y)
  BY <1>1, <1>2, <1>3 DEF Round, Whole, Part, Rupee
<1> QED BY <1>4 DEF y, CalculateRideFare, BASE_FARE, Rupee

-----------------------------------------------------------------------------
(* The sums a page shows beside a total.                                   *)

LEMMA BreakdownAddsUp ==
  ASSUME NEW m \in Nat, NEW food \in Nat, NEW price \in Nat,
         price = 0 => food = 0,
         NEW b, b = BuildFareBreakdown(m, food, price)
  PROVE  /\ b.total \in WholeRupees
         /\ ~FoodIsNextDoor(b) => /\ Near(EstimateRows(b), MathRound(b.total))
                                  /\ Near(CardRows(b), MathRound(b.total))
<1> DEFINE ridefare == CalculateRideFare(m)
           delivery == CalculateFoodFare(food, 0)
           charged == If(food # 0, delivery)
           sum == ridefare + charged + price
<1>1. /\ b.base = BASE_FARE /\ b.km = Round(m * PER_KM_RATE) /\ b.ride = ridefare
      /\ b.food_metres = food /\ b.delivery = delivery /\ b.food_price = price
      /\ b.total = Round(sum)
  BY DEF BuildFareBreakdown
<1>2. ridefare \in WholeRupees /\ delivery \in WholeRupees
  <2>1. /\ BASE_FARE + m * PER_KM_RATE \in Int
        /\ food * PER_KM_RATE + FOOD_PICKUP_SURCHARGE + 0 \in Int
    BY DEF BASE_FARE, PER_KM_RATE, FOOD_PICKUP_SURCHARGE, Rupee
  <2> QED BY <2>1, RoundIsWhole DEF CalculateRideFare, CalculateFoodFare
<1>3. ridefare = b.base + b.km
  BY <1>1, RideFareIsItsParts
<1> HIDE DEF ridefare, delivery
<1>4. ridefare \in Int /\ delivery \in Int /\ charged \in Int /\ sum \in Int
  BY <1>2 DEF WholeRupees, If
<1>5. /\ b.total \in WholeRupees /\ MathRound(b.total) = b.total
      /\ b.total - sum \in -500..500
  <2>1. PICK t \in Int : t = sum
    BY <1>4
  <2>2. b.total = Round(t)
    BY <2>1, <1>1
  <2>3. Round(t) \in WholeRupees /\ Round(t) - t \in -500..500
    BY RoundIsWhole
  <2>4. b.total \in WholeRupees /\ b.total - t \in -500..500
    BY <2>2, <2>3, Zenon
  <2>5. MathRound(b.total) = b.total
    BY <2>4, MathRoundKeepsWhole
  <2> QED BY <2>1, <2>4, <2>5
<1>6. MathRound(price) \in Int /\ MathRound(price) - price \in -499..500
  BY MathRoundIsNear
<1>7. b.total \in Int
  BY <1>5 DEF WholeRupees
<1>8. ASSUME ~FoodIsNextDoor(b)
      PROVE  Near(EstimateRows(b), MathRound(b.total)) /\ Near(CardRows(b), MathRound(b.total))
  <2>1. CASE price = 0
    <3>1. food = 0 /\ sum = ridefare /\ MathRound(price) = 0
      BY <2>1, <1>4 DEF If, MathRound, Whole, Rupee
    <3>2. EstimateRows(b) = ridefare /\ CardRows(b) = ridefare
      BY <3>1, <1>1, <1>3, <1>4 DEF EstimateRows, CardRows, If
    <3>3. PICK x, t \in Int : x = ridefare /\ t = b.total
      BY <1>4, <1>7
    <3>4. t - x \in -500..500
      BY <3>1, <3>3, <1>5
    <3>5. Near(x, t)
      BY <3>4 DEF Near, Rupee
    <3> QED BY <3>2, <3>3, <3>5, <1>5
  <2>2. CASE price # 0
    <3>1. food >= 5 /\ sum = ridefare + delivery + price
      BY <2>2, <1>8, <1>1 DEF FoodIsNextDoor, If
    <3>2. /\ EstimateRows(b) = ridefare + (MathRound(price) + delivery)
          /\ CardRows(b) = ridefare + MathRound(price) + delivery
      BY <3>1, <1>1, <1>3 DEF EstimateRows, CardRows, If
    <3>3. b.total - (ridefare + delivery + price) \in -500..500
      BY <3>1, <1>5
    <3>4. price \in Int
      OBVIOUS
    <3>5. /\ Near(ridefare + (MathRound(price) + delivery), b.total)
          /\ Near(ridefare + MathRound(price) + delivery, b.total)
      <4>1. PICK s, t \in Int : s = MathRound(price) /\ t = b.total
        BY <1>6, <1>7
      <4>2. s - price \in -499..500 /\ t - (ridefare + delivery + price) \in -500..500
        BY <4>1, <3>3, <1>6
      <4>3. ridefare \in Int /\ delivery \in Int
        BY <1>4
      <4> HIDE DEF sum, charged
      <4>4. /\ Near(ridefare + (s + delivery), t)
            /\ Near(ridefare + s + delivery, t)
        BY <4>2, <4>3, <3>4 DEF Near, Rupee
      <4> QED BY <4>1, <4>4
    <3> QED BY <3>2, <3>5, <1>5
  <2> QED BY <2>1, <2>2
<1> QED BY <1>5, <1>8

-----------------------------------------------------------------------------
Broken(r) == BuildFareBreakdown(r.metres, r.food_metres, r.food_price)

Booked ==
  /\ ride \in Ride /\ ride.status # "refused"
  /\ ride.food_price = 0 => ride.food_metres = 0
  /\ ride.fare = Broken(ride).total

IInv ==
  /\ order \in Prices \cup {0}
  /\ estimate # None =>
       \E m \in Metres, f \in Metres \cup {0} :
         (order = 0 => f = 0) /\ estimate = BuildFareBreakdown(m, f, order)
  /\ ride # None => Booked
  /\ card # None => ride # None /\ card = Broken(ride)
  /\ claimed # None => ride # None /\ claimed = ride.fare

LEMMA DataAreNaturals == \A x \in Metres \cup Prices \cup {0} : x \in Nat
BY DataAssumption

LEMMA InitHolds == Init => IInv
BY DEF Init, IInv

\* A status is all that changes in a booked ride.
LEMMA StatusOnly ==
  ASSUME IInv, ride # None, NEW s \in {"completed", "paid"},
         ride' = [ride EXCEPT !.status = s]
  PROVE  /\ Booked' /\ ride' # None
         /\ Broken(ride)' = Broken(ride) /\ ride'.fare = ride.fare
<1>1. ride \in Ride /\ Booked BY DEF IInv, Booked
<1>2. /\ ride' \in Ride /\ ride'.status = s /\ ride'.fare = ride.fare
      /\ ride'.metres = ride.metres /\ ride'.food_metres = ride.food_metres
      /\ ride'.food_price = ride.food_price
  BY <1>1 DEF Ride
<1>3. Broken(ride)' = Broken(ride) BY <1>2 DEF Broken
<1> QED BY <1>1, <1>2, <1>3, DataAssumption DEF Booked

LEMMA StepHolds == IInv /\ [Next]_vars => IInv'
<1> SUFFICES ASSUME IInv, [Next]_vars PROVE IInv'
  OBVIOUS
<1>1. CASE FareEstimate
  <2>1. PICK l \in Legs : estimate' = BuildFareBreakdown(l[1], l[2], order)
    BY <1>1 DEF FareEstimate
  <2>2. l[1] \in Metres /\ l[2] \in Metres \cup {0} /\ (order = 0 => l[2] = 0)
    BY <2>1 DEF Legs
  <2> QED BY <1>1, <2>1, <2>2 DEF FareEstimate, IInv
<1>2. CASE RequestRide
  <2>1. PICK l \in Legs :
          ride' = [fare |-> BuildFareBreakdown(l[1], l[2], order).total, metres |-> l[1],
                   food_metres |-> l[2], food_price |-> order, status |-> "requested"]
    BY <1>2 DEF RequestRide
  <2>2. l[1] \in Metres /\ l[2] \in Metres \cup {0} /\ (order = 0 => l[2] = 0)
    BY <2>1 DEF Legs
  <2>3. order \in Prices \cup {0} /\ order \in Nat /\ l[1] \in Nat /\ l[2] \in Nat
    BY <2>2, DataAreNaturals DEF IInv
  <2>4. BuildFareBreakdown(l[1], l[2], order).total \in Int
    BY <2>2, <2>3, BreakdownAddsUp DEF WholeRupees
  <2>5. /\ ride'.metres = l[1] /\ ride'.food_metres = l[2] /\ ride'.food_price = order
        /\ ride'.status = "requested"
        /\ ride'.fare = BuildFareBreakdown(l[1], l[2], order).total
        /\ ride' \in Ride
    BY <2>1, <2>2, <2>3, <2>4 DEF Ride
  <2>6. Booked'
    BY <2>2, <2>5 DEF Booked, Broken
  <2> QED BY <1>2, <2>6 DEF RequestRide, IInv
<1>3. CASE Offer
  BY <1>3 DEF Offer, IInv, Booked, Broken
<1>4. CASE Complete
  <2>1. Booked' /\ ride' # None /\ Broken(ride)' = Broken(ride) /\ ride'.fare = ride.fare
    BY <1>4, StatusOnly DEF Complete
  <2> QED BY <1>4, <2>1 DEF Complete, IInv, Broken
<1>5. CASE Collect
  <2>1. /\ ride \in Ride /\ ride.fare = Broken(ride).total
        /\ ride.food_price = 0 => ride.food_metres = 0
    BY <1>5 DEF Collect, IInv, Booked
  <2>2. ride.metres \in Nat /\ ride.food_metres \in Nat /\ ride.food_price \in Nat
    BY <2>1, DataAreNaturals DEF Ride
  <2>3. ride.fare \in WholeRupees
    BY <2>1, <2>2, BreakdownAddsUp DEF Broken
  <2>4. claimed' = ride.fare
    BY <1>5, <2>3, MathRoundKeepsWhole DEF Collect
  <2> QED BY <1>5, <2>4 DEF Collect, IInv, Booked, Broken
<1>6. CASE ConfirmPayment
  <2>1. ride # None /\ claimed = ride.fare /\ ride.fare \in Int
    BY <1>6 DEF ConfirmPayment, IInv, Booked, Ride
  <2>2. ~Mismatch
    BY <2>1 DEF Mismatch, Tolerance, Rupee
  <2>3. ride' = [ride EXCEPT !.status = "paid"]
    BY <1>6, <2>2 DEF ConfirmPayment
  <2>4. Booked' /\ ride' # None /\ Broken(ride)' = Broken(ride) /\ ride'.fare = ride.fare
    BY <2>1, <2>3, StatusOnly
  <2> QED BY <1>6, <2>4 DEF ConfirmPayment, IInv, Broken
<1>7. CASE UNCHANGED vars
  BY <1>7 DEF vars, IInv, Booked, Broken
<1> QED BY <1>1, <1>2, <1>3, <1>4, <1>5, <1>6, <1>7 DEF Next

LEMMA ReceiptsFollow == IInv => ReceiptsAddUp
<1> SUFFICES ASSUME IInv PROVE ReceiptsAddUp
  OBVIOUS
<1>1. ASSUME estimate # None, ~FoodIsNextDoor(estimate)
      PROVE  Near(EstimateRows(estimate), MathRound(estimate.total))
  <2>1. PICK m \in Metres, f \in Metres \cup {0} :
          (order = 0 => f = 0) /\ estimate = BuildFareBreakdown(m, f, order)
    BY <1>1 DEF IInv
  <2>2. order \in Nat /\ m \in Nat /\ f \in Nat
    BY DataAssumption DEF IInv
  <2> QED BY <1>1, <2>1, <2>2, BreakdownAddsUp
<1>2. ASSUME card # None, ~FoodIsNextDoor(card)
      PROVE  Near(CardRows(card), MathRound(ride.fare))
  <2>1. /\ ride \in Ride /\ ride.fare = card.total /\ card = Broken(ride)
        /\ ride.food_price = 0 => ride.food_metres = 0
    BY <1>2 DEF IInv, Booked
  <2>2. ride.metres \in Nat /\ ride.food_metres \in Nat /\ ride.food_price \in Nat
    BY <2>1, DataAreNaturals DEF Ride
  <2> QED BY <1>2, <2>1, <2>2, BreakdownAddsUp DEF Broken
<1> QED BY <1>1, <1>2 DEF ReceiptsAddUp

-----------------------------------------------------------------------------
\* The inductive invariant: what is stored and shown is one breakdown, and what
\* is claimed is the stored fare.
THEOREM Invariance == Spec => []IInv
BY InitHolds, StepHolds, PTL DEF Spec

\* pricing_service.py:25: receipts add up, for every distance and every price.
THEOREM ReceiptsAlwaysAddUp == Spec => []ReceiptsAddUp
BY Invariance, ReceiptsFollow, PTL

\* ride_service.py:545: no payment the page claims is refused.
THEOREM PaymentsAlwaysMatch == Spec => []PaymentsMatch
<1>1. IInv => PaymentsMatch
  BY DEF IInv, Booked, PaymentsMatch
<1> QED BY <1>1, Invariance, PTL
=============================================================================
