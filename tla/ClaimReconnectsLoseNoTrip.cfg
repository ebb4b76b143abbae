SPECIFICATION Spec
CONSTANTS
  MaxRides = 1
  MaxSockets = 2
  MaxToggles = 0
  MaxFaults = 0
  MaxInFlight = 2
PROPERTY ReconnectsLoseNoTrip
CHECK_DEADLOCK FALSE
