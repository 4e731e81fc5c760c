CONSTANTS
  Ticker = {"A", "B", "C"}
  Sorts <- MCSorts
  SortedBy <- MCSortedBy
  Queries = {"b"}
  Matching <- MCMatching
  Empty = "none"
  Sizes = {1, 2, 3}
  Holdable = {"C"}
  Watchlists = {{"A", "C"}}
  MaxReloads = 1
  MaxKeys = 2
  Calm = FALSE

SPECIFICATION MCSpec

INVARIANTS
  TypeOK
  CursorOnRow
  CalmView

PROPERTY ResizeKeepsRow
