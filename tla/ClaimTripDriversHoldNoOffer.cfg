SPECIFICATION Spec
CONSTANTS
  Rider = {u1, u2}
  Driver = {d1, d2}
  Request = {r1, r2}
  Session = {s1, s2}
  FoodChoice = {FALSE}
  MaxOffers = 2
  Null = Null
SYMMETRY Interchangeable
CHECK_DEADLOCK FALSE
INVARIANT TripDriversHoldNoOffer
