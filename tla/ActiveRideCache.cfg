SPECIFICATION Spec
CONSTANTS
  Request = {r1, r2}
  Ping = {p1, p2}
  None = None
  Absent = Absent
INVARIANT CacheAgrees
PROPERTY TripsBecomeVisible
