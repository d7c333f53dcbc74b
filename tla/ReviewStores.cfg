CONSTANTS
  r1 = r1
  r2 = r2
  d1 = d1
  d2 = d2
  p1 = p1
  p2 = p2
  NoRun = NoRun
  NStores = 2
  Run <- TwoRuns
  Discovery = {d1, d2}
  Proc = {p1}
  DiscoveryOf <- EachItsOwn
  Matched <- SecondFewer
  Listed <- DaysDealt
  Pii <- NoPii
  FirstDay = 1
  LastDay = 1
  Window = 10
  PageSize = 1
  LiveReader = FALSE
  ProviderMoves = {"hide", "reveal"}
  Faults = {"crash", "budget", "operator", "read", "fingerprint", "integrity", "access", "dom"}
  MaxInvocations = 2
SPECIFICATION Spec
INVARIANTS TypeOK SucceededMeansComplete
PROPERTIES CompleteStaysComplete
CHECK_DEADLOCK FALSE
