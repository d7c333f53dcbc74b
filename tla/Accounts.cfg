CONSTANTS
  k1 = k1 k2 = k2 s1 = s1 p1 = p1 p2 = p2
  NoStore = NoStore
  Person = {k1, k2}
  Store = {s1}
  Process = {p1, p2}
  Lifetime = 2
  RecentAge = 0
  HistoryLimit = 1
  MaxUsers = 2
  MaxSessions = 2
  MaxHistory = 2
  MaxTime = 1
SPECIFICATION FairSpec
INVARIANTS NothingWithoutAccount
PROPERTIES ShownChangesByOwner WithdrawalAnswered
CHECK_DEADLOCK FALSE
