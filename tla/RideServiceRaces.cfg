SPECIFICATION Spec
CONSTANTS
  Rider = {u1, u2}
  Driver = {d1, d2}
  Request = {r1, r2}
  Session = {s1, s2}
  FoodChoice = {TRUE}
  MaxOffers = 2
  Null = Null
SYMMETRY Interchangeable
CHECK_DEADLOCK FALSE
INVARIANTS
  ReservationsExclusive
  TripsExclusive
  OffersAgreeWithRides
  CollisionIsTheDrivers
  NoInconsistentRides
  CreditedOnce
PROPERTIES
  AssignmentConsumesOffer
  LiveOffersAreKept
  RidesMoveForward
  AnswersAreFinal
  ImplementsLifecycle
  ImplementsOfferBook
