SPECIFICATION Spec
CONSTANTS
  w1 = w1
  w2 = w2
  kArticle = kArticle
  kSearch = kSearch
  absent = absent
  nobody = nobody
  Threads <- MCThreads
  Keys = {kArticle, kSearch}
  KindOf <- MCKindOf
  TTL <- MCTTL
  Extension = 1
  LeftAges = {0, 3}
  MaxDay = 2
  NoEntry = absent
  NoThread = nobody
INVARIANTS
  AnswersAreFresh
PROPERTIES
  NoCallForWhatIsCached
  RefreshLeavesNoneExpired
SYMMETRY
  Symmetry
