CONSTANTS
  Sector = {s1, s2}
  MaxHoldings = 2
  MaxRuns = 2
  Impatient = TRUE

SPECIFICATION MCSpec

INVARIANT PagesTellTheTruth

PROPERTY PagesEnd

CHECK_DEADLOCK FALSE
