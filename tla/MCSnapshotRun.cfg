CONSTANTS
  Ticker = {1, 2}
  Held = {1, 2}
  Keep = 2
  MaxClock = 3
  MaxFetches = 1
  Midnight = 1
  None = none
  MaxSessions = 2
  MaxRuns = 1
  Overlapping = TRUE
  Parts = {"snapshots", "samples", "run"}

SPECIFICATION MCSpec

INVARIANTS
  TypeOK
  WholeTotals
  CalmHistory

PROPERTIES
  Retention
  Quits

CHECK_DEADLOCK FALSE
