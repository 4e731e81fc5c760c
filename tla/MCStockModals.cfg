CONSTANTS
  aapl = aapl
  brk = brk
  analysis = analysis
  Ticker <- MCTicker
  NoTicker = NoTicker
  InfoPanel <- MCInfo
  Chart = chart
  NoChain = NoChain
  Expirations <- MCExpirations
  MaxPending = 4
  MaxPresses = 4
  Failures = TRUE
  Overlapping = TRUE

SPECIFICATION MCSpec

INVARIANTS
  ModalTypeOK
  FetchesAreClaimed
  ShownIsSelected

PROPERTY ModalsFill

CHECK_DEADLOCK FALSE
