-------------------------------- MODULE Fares --------------------------------
(***************************************************************************)
(* What a ride costs, from the rider's estimate to the payment.            *)
(* pricing_service.py is asked three times, with distances from separate   *)
(* routing calls or from the stored ride; the pages round again what they  *)
(* show, and the driver's page sends back the amount it rounded.           *)
(* Distances are in metres and money in thousandths of a rupee, so that a  *)
(* kilometre's rate times a distance is exact.                             *)
(***************************************************************************)
EXTENDS Integers

CONSTANTS Metres,   \* what road_route may answer for a leg
          Prices,   \* of food orders
          None

Ride == [fare : Int, metres : Metres, food_metres : Metres \cup {0},
         food_price : Prices \cup {0},
         status : {"requested", "completed", "paid", "refused"}]

ASSUME DataAssumption ==
  Metres \subseteq Nat /\ Prices \subseteq Nat \ {0} /\ None \notin Ride \cup Int

Rupee == 1000
BASE_FARE == 40 * Rupee
PER_KM_RATE == 12           \* thousandths of a rupee per metre
FOOD_PICKUP_SURCHARGE == 50 * Rupee

VARIABLES order,     \* price of the rider's food order; 0: no food
          estimate,  \* the breakdown in the rider's fare box
          ride,      \* the stored fare and details, and how far the ride is
          card,      \* the breakdown and fare on the driver's ride card
          claimed    \* amount of the driver's payment_collected

vars == <<order, estimate, ride, card, claimed>>

-----------------------------------------------------------------------------
(* Python rounds halves to even, JavaScript's Math.round rounds them up.   *)

Whole(x) == x \div Rupee
Part(x) == x % Rupee

Round(x) ==
  LET up == Part(x) > 500 \/ (Part(x) = 500 /\ Whole(x) % 2 = 1)
  IN Rupee * (Whole(x) + IF up THEN 1 ELSE 0)

MathRound(x) == Rupee * Whole(x + 500)

CalculateRideFare(m) == Round(BASE_FARE + m * PER_KM_RATE)
CalculateFoodFare(m, price) == Round(m * PER_KM_RATE + FOOD_PICKUP_SURCHARGE + price)

If(b, x) == IF b THEN x ELSE 0

\* Mutant: the total is rounded once, from the exact parts.
BreakdownRoundedOnce(m, food, price) ==
  [base |-> BASE_FARE, km |-> Round(m * PER_KM_RATE), ride |-> CalculateRideFare(m),
   food_metres |-> food, delivery |-> CalculateFoodFare(food, 0), food_price |-> price,
   total |-> Round(BASE_FARE + m * PER_KM_RATE + price
                     + If(food # 0, food * PER_KM_RATE + FOOD_PICKUP_SURCHARGE))]

\* Mutant: the total keeps the order's paise.
BreakdownUnrounded(m, food, price) ==
  [base |-> BASE_FARE, km |-> Round(m * PER_KM_RATE), ride |-> CalculateRideFare(m),
   food_metres |-> food, delivery |-> CalculateFoodFare(food, 0), food_price |-> price,
   total |-> CalculateRideFare(m) + If(food # 0, CalculateFoodFare(food, 0)) + price]

BuildFareBreakdown(m, food, price) ==
  [base |-> BASE_FARE, km |-> Round(m * PER_KM_RATE), ride |-> CalculateRideFare(m),
   food_metres |-> food, delivery |-> CalculateFoodFare(food, 0), food_price |-> price,
   total |-> Round(CalculateRideFare(m) + If(food # 0, CalculateFoodFare(food, 0)) + price)]

-----------------------------------------------------------------------------
Init ==
  /\ order \in Prices \cup {0}
  /\ estimate = None /\ ride = None /\ card = None /\ claimed = None

\* Each leg is a routing call of its own: OSRM's distance, or the straight
\* line's when OSRM does not answer.
Legs == Metres \X (IF order = 0 THEN {0} ELSE Metres)

FareEstimate ==
  /\ ride = None
  /\ \E l \in Legs : estimate' = BuildFareBreakdown(l[1], l[2], order)
  /\ UNCHANGED <<order, ride, card, claimed>>

\* The price is read again from the menu; distances are asked for again.
RequestRide ==
  /\ ride = None
  /\ \E l \in Legs :
       ride' = [fare |-> BuildFareBreakdown(l[1], l[2], order).total, metres |-> l[1],
                food_metres |-> l[2], food_price |-> order, status |-> "requested"]
  /\ UNCHANGED <<order, estimate, card, claimed>>

\* _offer_payload breaks the stored details down once more.
Offer ==
  /\ ride # None /\ ride.status = "requested"
  /\ card' = BuildFareBreakdown(ride.metres, ride.food_metres, ride.food_price)
  /\ UNCHANGED <<order, estimate, ride, claimed>>

Complete ==
  /\ ride # None /\ ride.status = "requested" /\ card # None
  /\ ride' = [ride EXCEPT !.status = "completed"]
  /\ UNCHANGED <<order, estimate, card, claimed>>

\* The page asks for, and sends, the fare rounded.
Collect ==
  /\ ride # None /\ ride.status = "completed" /\ claimed = None
  /\ claimed' = MathRound(ride.fare)
  /\ UNCHANGED <<order, estimate, ride, card>>

Tolerance == Rupee \div 100
Mismatch == claimed - ride.fare > Tolerance \/ ride.fare - claimed > Tolerance

ConfirmPayment ==
  /\ claimed # None /\ ride.status = "completed"
  /\ ride' = [ride EXCEPT !.status = IF Mismatch THEN "refused" ELSE "paid"]
  /\ UNCHANGED <<order, estimate, card, claimed>>

Next == FareEstimate \/ RequestRide \/ Offer \/ Complete \/ Collect \/ ConfirmPayment

Spec == Init /\ [][Next]_vars

-----------------------------------------------------------------------------
(* What the pages show                                                     *)

\* The rider's fare box has the food rows only if is_food_ride.
EstimateRows(b) ==
  b.base + b.km + If(b.food_metres # 0, MathRound(b.food_price) + b.delivery)

\* The driver's card has the order's cost, and the delivery unless its distance,
\* in hundredths of a kilometre, is 0.
CardRows(b) ==
  b.ride + MathRound(b.food_price) + If(b.food_metres >= 5, b.delivery)

Near(x, y) == x - y \in -Rupee..Rupee
FoodIsNextDoor(b) == b.food_price # 0 /\ b.food_metres < 5

\* pricing_service.py:25: what a page lists adds up to the total beside it, up
\* to the rupee its rounding may cost, unless the food comes from next door.
ReceiptsAddUp ==
  /\ estimate # None /\ ~FoodIsNextDoor(estimate)
       => Near(EstimateRows(estimate), MathRound(estimate.total))
  /\ card # None /\ ~FoodIsNextDoor(card) => Near(CardRows(card), MathRound(ride.fare))

\* ride_service.py:545: the amount the page asks for and sends is never refused,
\* after four roundings in three programs.
PaymentsMatch == ride # None => ride.status # "refused"
=============================================================================
