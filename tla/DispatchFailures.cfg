SPECIFICATION FairSpec
CONSTANTS
  Driver = {d1, d2}
  Request = {r1}
  Job = {j1}
  Maintenance = Maintenance
  MAX_OFFER_ATTEMPTS = 2
  MaxFaults = 1
  Null = Null
PROPERTIES SearchesGetShorter EveryRequestAnswered EveryOfferAnswered EverySearchEnds
CHECK_DEADLOCK FALSE
