CONSTANTS
  None = None
  NotFinite = NotFinite
  Width = 6
  Height = 4
  Points = 3
  Premiums = 3
  IV_MAX_ITERATIONS = 3
  TRADING_DAYS = 2
  MIN_RETURN_SAMPLES = 1
  MaxRows = 3
  MaxCloses = 5
  MaxRoom = 40
  MaxFields = 4
  MaxTiles = 4
  MaxDays = 3

SPECIFICATION FiguresSpec

INVARIANTS
  LayoutsFit
  MathematicsHolds
  FiguresAgree

CHECK_DEADLOCK FALSE
