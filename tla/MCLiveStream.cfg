CONSTANTS
  aapl = aapl
  msft = msft
  Symbol <- MCSymbol
  MaxConns = 4
  DropStops = TRUE
  Faults = {"start_fails", "server_ends"}
  Overlapping = TRUE

SPECIFICATION MCSpec

INVARIANTS
  TypeOK
  StreamInHand

PROPERTY CalmCoveredInTheEnd

CHECK_DEADLOCK FALSE
