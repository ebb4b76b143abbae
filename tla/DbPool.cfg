SPECIFICATION Spec
CONSTANTS
  Caller = {c1, c2, c3}
  Conn = {k1, k2}
  DB_POOL_MAX_CONN = 2
  MaxBreaks = 1
  Null = Null
INVARIANTS NoPoolError BreaksCostSlots
PROPERTY KeepsServing
