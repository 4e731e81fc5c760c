CONSTANTS
  Ticker = {1, 2}
  Lot = {l1, l2}
  None = none
  MaxEdits = 2
  MaxAlerts = 1
  MaxSessions = 2
  Overlapping = TRUE

SPECIFICATION MCSpec

INVARIANTS
  TypeOK

PROPERTY SerialSettles

CHECK_DEADLOCK FALSE
