SPECIFICATION Spec
CONSTANTS
  MaxRides = 1
  MaxSockets = 2
  MaxToggles = 1
  MaxFaults = 1
  MaxInFlight = 2
INVARIANTS ConfirmedTripsAreReal ConfirmedTripsAreHeard
CHECK_DEADLOCK FALSE
PROPERTIES ReconnectShowsTheTrip HeartbeatHeals GhostsLeave
