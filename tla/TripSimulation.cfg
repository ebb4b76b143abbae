SPECIFICATION FairSpec
CONSTANTS
  Driver = {d1}
  Request = {r1, r2}
  Simulators = {"node", "python"}
  MaxFaults = 1
  Null = Null
INVARIANTS ReportsFitRides ProgressIsDriven TripsAreCarriedOn
PROPERTY TripsEnd
CHECK_DEADLOCK FALSE
