CONSTANTS
  r1 = r1
  r2 = r2
  d1 = d1
  d2 = d2
  p1 = p1
  p2 = p2
  NoRun = NoRun
  NStores = 1
  Run <- TwoRuns
  Discovery = {d1, d2}
  Proc = {p1, p2}
  DiscoveryOf <- EachItsOwn
  Matched <- AllMatched
  Listed <- FirstStoreListed
  Pii <- NewestPii
  FirstDay = 3
  LastDay = 4
  Window = 3
  PageSize = 2
  LiveReader = FALSE
  ProviderMoves = {"post"}
  Faults = {"crash", "budget"}
  MaxInvocations = 2
SPECIFICATION Spec
SYMMETRY Symmetry
INVARIANTS SeenIsStored AnchorIsSeen CollectedHasRows NothingMissingBehindAnchor
PROPERTIES ImplementsLedger
CHECK_DEADLOCK FALSE
