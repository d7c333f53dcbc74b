CONSTANTS
  a = a b = b
  NoValue = NoValue
  Store = {a, b}
  Version = {1, 2}
  Failures = {"AUTHENTICATION_REQUIRED", "NETWORK_UNAVAILABLE"}
  MaxSearches = 3
  MaxPositions = 2
  MaxDetails = 2
SPECIFICATION FairSpec
INVARIANTS OneSnapshotOnScreen
PROPERTIES LoadingEnds
CHECK_DEADLOCK FALSE
