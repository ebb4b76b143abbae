SPECIFICATION Spec
CONSTANTS
  Metres = {0, 4, 125, 375, 2000}
  Prices = {45250, 99500, 120000}
  None = None
INVARIANTS ReceiptsAddUp PaymentsMatch
CHECK_DEADLOCK FALSE
