SPECIFICATION FairSpec
CONSTANTS
  Driver = {d1}
  Request = {r1, r2}
  Job = {j1}
  Maintenance = Maintenance
  MAX_OFFER_ATTEMPTS = 1
  MaxFaults = 0
  Null = Null
INVARIANT OneUnansweredOffer
PROPERTIES EveryRequestAnswered ImplementsOfferBook
CHECK_DEADLOCK FALSE
