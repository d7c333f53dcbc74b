CONSTANTS
  p1 = p1 p2 = p2 k1 = k1 k2 = k2 n1 = n1 n2 = n2 x = x y = y
  Parts = {"publishing", "searching"}
  NoPhone = NoPhone
  NoPosition = NoPosition
  Similarity <- Dissimilar
  ChainLimit = 6
  AutoMerge = 9200
  Review = 7500
  Process = {p1, p2}
  Snapshot = {1, 2, 3}
  RowsOf <- Closing
  BasisDay <- Days
  EvidenceSets <- Proofs
  Batch <- Batches
  Retries = TRUE
  None = None
  FreshDays = 0
  MaxDay = 1
  MaxReviews = 2
SPECIFICATION CatalogSpec
INVARIANTS PublicIsInActiveSnapshot ActiveEvidenceFits SameVersionSameAnswer SearchAnswers CompleteMissesNothing
CHECK_DEADLOCK FALSE
