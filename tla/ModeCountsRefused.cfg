CONSTANTS
  r1 = r1
  r2 = r2
  d1 = d1
  d2 = d2
  p1 = p1
  p2 = p2
  NoRun = NoRun
  NStores = 1
  Run <- TwoRuns
  Discovery = {d1, d2}
  Proc = {p1}
  DiscoveryOf <- EachItsOwn
  Matched <- AllMatched
  Listed <- FirstStoreListed
  Pii <- NoPii
  FirstDay = 3
  LastDay = 3
  Window = 10
  PageSize = 1
  LiveReader = FALSE
  ProviderMoves = {"hide"}
  Faults = {"budget"}
  MaxInvocations = 3
SPECIFICATION Spec
INVARIANTS ModeCountsAddUp
CHECK_DEADLOCK FALSE
