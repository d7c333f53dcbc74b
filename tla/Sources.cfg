CONSTANTS
  l1 = l1 l2 = l2 l3 = l3 l4 = l4 p1 = p1 p2 = p2 r1 = r1 r2 = r2 s1 = s1 s2 = s2
  Process = {p1}
  Run = {r1, r2}
  NoRun = NoRun
  Place = {l1, l2, l3, l4}
  Order <- PlaceOrder
  AtStart = {l2, l4}
  Approved = {l1, l2, l3, l4}
  Invalid = {}
  KeyOf <- TwinKeys
  StoreOf <- Stores
  StoreId = {s1, s2}
  NoStore = NoStore
  CellsOf <- Border
  Quarter = {1, 2, 3, 4}
  MaxDepth = 1
  PageSize = 1
  PageLimit = 3
  Cap = 3
  Moves = {"appear"}
  Failures = {"ACCESS", "NETWORK", "OTHER", "CRASH"}
  CatalogMoves = FALSE
  Name = {"Alpha", "Beta"}
  Address = {"Jongno"}
  Phone = {"none", "02-1", "02-2"}
  NoPhone = "none"
  Position = {1, 3}
  NoPosition = 0
  Near = 1
  MaxStores = 2
  Caller = {p1, p2}
  Row <- RowSet
  RowOrder <- Rows
  RowsAtStart <- FirstRows
  RowsPerPage = 2
  IngestionFailures = {"FETCH", "SHORT", "STORAGE", "CRASH"}
  MaxDrift = 1
  MaxChanges = 2
  MaxCalls = 3
SPECIFICATION SourcesSpec
INVARIANTS CompleteCoversSeoul SucceededIsComplete SnapshotIsOneMoment ReportAgrees
PROPERTIES DiscoveryEnds LinksAreStable HolesForceBackfill InvocationEnds
CHECK_DEADLOCK FALSE
