CONSTANTS
  d1 = d1 r1 = r1 s1 = s1 v1 = v1 x1 = x1 x2 = x2
  Store = {s1}
  Discovery = {d1}
  Run = {r1}
  Review = {v1}
  DeleteRun = {x1, x2}
  NoRun = NoRun
  DiscoveryOf <- OneDiscovery
  StoreOf <- AllInOneStore
  RawDays = 1
  AuditDays = 2
  LastDay = 4
SPECIFICATION RawSpec
INVARIANTS PurgeNeverBlocked
PROPERTIES PurgeSparesRetained NothingOutstays
CHECK_DEADLOCK FALSE
