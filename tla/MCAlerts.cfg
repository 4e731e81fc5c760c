CONSTANTS
  high = high
  low = low
  aapl = aapl
  Alert <- MCAlert
  TickerOf <- MCTickerOf
  AboveAlerts <- MCAboveAlerts
  ThresholdOf <- MCThresholdOf
  Ticker <- MCTicker
  Price <- MCPrice
  Faults = {"db_error", "restart"}
  Overlapping = TRUE
  MaxFires = 2
  MaxReloads = 1

SPECIFICATION MCSpec

INVARIANTS
  TypeOK
  FiredIsRecorded
  NoSilentTrigger
  NothingLost
  SerialListIsTable
PROPERTIES
  RetiredStaysQuiet
  FireReachesTable
  SerialImplementsLifecycle
