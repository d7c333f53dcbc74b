CONSTANTS
  x = x y = y ph1 = ph1 ph2 = ph2 n1 = n1 n2 = n2 n3 = n3 b1 = b1 b2 = b2
  k1 = k1 k2 = k2
  gu = gu dong = dong shop = shop bread = bread c1 = c1 c2 = c2 c3 = c3
  None = None
  NoPhone = NoPhone
  NoPosition = NoPosition
  u1 = u1 s1 = s1 s2 = s2
  User = {u1}
  Store = {s1, s2}
  NoFile = NoFile
  Partial = Partial
  MaxSchema = 3
  TablesOf <- SchemaTables
  Similarity <- BrandSimilarity
  ChainLimit = 3
  AutoMerge = 9200
  Review = 7500
  CandidateFacts <- BranchFacts
  Evidence <- EvidenceItems
  AnyKey = k1
  MaxStores = 3
  MaxEvidence = 2
  DaysPerWeek = 3
  MinutesPerDay = 4
  MaxIntervals = 3
  PartOf <- Parts
  EnoughReviews = 3
  PriorWeight = 5
  DefaultMean = 4000
  Category = {c1, c2, c3}
  ShopFacts <- FilterFacts
  Queries <- FilterQueries
  MaxCandidates = 2
SPECIFICATION DecisionsSpec
SYMMETRY Symmetry
INVARIANTS DoubtHoldsStoreBack EligibleIsWholeBrand OpenIsCovered WayOutIsOffered RankIsStrict VerifiedIsTheCopy
CHECK_DEADLOCK FALSE
