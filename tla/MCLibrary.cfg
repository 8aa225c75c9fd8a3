SPECIFICATION MCSpec
CONSTANTS
  u1 = u1
  u2 = u2
  u3 = u3
  h1 = h1
  h2 = h2
  t1 = t1
  Urls <- MCUrls
  Handlers <- MCHandlers
  Seeds <- MCSeeds
  Batches <- MCBatches
  Topics <- MCTopics
  Sources <- MCSources
  Filters <- MCFilters
  Pages <- MCPages
  PageSize = 1
  Floor = 2
  Ceiling = 3
  Day = 1
  MaxFetches = 3
  MaxWriters = 2
  MaxFaults = 1
  MaxTime = 2
  TTL = 1
  NoArticle = NoArticle
  NoVector = NoVector
  Idle = Idle
  NoEntry = NoEntry
  Degraded = Degraded
SYMMETRY MCSymmetry
INVARIANTS
  VectorsFollowRows
  DriftExplained
  FacetsFresh
  SearchPage
CHECK_DEADLOCK FALSE
