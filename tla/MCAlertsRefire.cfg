CONSTANTS
  high = high
  low = low
  aapl = aapl
  Alert <- MCAlert
  TickerOf <- MCTickerOf
  AboveAlerts <- MCAboveAlerts
  ThresholdOf <- MCThresholdOf
  Ticker <- MCTicker
  Price <- MCPrice
  Faults = {}
  Overlapping = TRUE
  MaxFires = 2
  MaxReloads = 1

SPECIFICATION MCSpec

INVARIANT FiresOnce

CHECK_DEADLOCK FALSE
