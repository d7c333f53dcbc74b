CONSTANTS
  d1 = d1 r1 = r1 r2 = r2 s1 = s1 v1 = v1 v2 = v2 x1 = x1 p1 = p1
  Store = {s1}
  Discovery = {d1}
  Run = {r1, r2}
  Review = {v1, v2}
  DeleteRun = {x1}
  NoRun = NoRun
  DiscoveryOf <- OneDiscovery
  StoreOf <- AllInOneStore
  RawDays = 1
  AuditDays = 9
  LastDay = 3
  Publisher = {p1}
  DayOf <- DayByReview
  Window = 1
SPECIFICATION Spec
SYMMETRY Symmetry
INVARIANTS OnlyPublicDocuments SearchedIsPublished
PROPERTIES NoPublishedReviewLost ImplementsCorpus
CHECK_DEADLOCK FALSE
