CONSTANTS
  p1 = p1 p2 = p2 k1 = k1 k2 = k2 n1 = n1 n2 = n2 x = x y = y
  Parts = {"publishing"}
  NoPhone = NoPhone
  NoPosition = NoPosition
  Similarity <- Dissimilar
  ChainLimit = 6
  AutoMerge = 9200
  Review = 7500
  Process = {p1, p2}
  Snapshot = {1, 2, 3}
  RowsOf <- Same
  BasisDay <- Days
  EvidenceSets <- Proofs
  Batch <- NoBatches
  Retries = FALSE
  None = None
  FreshDays = 0
  MaxDay = 1
  MaxReviews = 2
SPECIFICATION CatalogSpec
INVARIANTS IdentityKept
CHECK_DEADLOCK FALSE
