CONSTANTS
  Ticker = {1, 2, 3}
  MaxToggles = 2
  Overlapping = TRUE
  FeedMax = 2
  Headlines <- MCHeadlines
  MaxRefreshes = 2
  MaxCursor = 1
  Patient = FALSE

SPECIFICATION MCSpec

INVARIANTS
  TypeOK
  PendingIsCovered
  PatientPromise

PROPERTY LoadingEnds
