SPECIFICATION MCSpec
CONSTANTS
  a1 = a1
  a2 = a2
  t1 = t1
  t2 = t2
  t3 = t3
  v1 = v1
  v2 = v2
  h1 = h1
  h2 = h2
  h3 = h3
  r1 = r1
  r2 = r2
  g = g
  Articles <- MCArticleSet
  Tasks <- MCTasks
  Scores <- MCScores
  Visitors <- MCVisitors
  Lifetimes <- MCLifetimes
  Slots = 1
  PoolSize = 2
  Staleness = 1
  MaxTime = 2
  MaxLinks = 2
  Deleted = Deleted
  Null = Null
  Idle = Idle
  Handlers <- MCHandlers
  Forever = Forever
  Limit = 2
  Window = 2
  MaxHits = 4
  MaxLag = 2
  MaxFaults = 1
  Requests <- MCRequests
  GivenIds <- MCGivenIds
  Malformed = Malformed
  NoId = NoId
  MaxRequests = 3
  NoRequest = NoRequest
  Scopes = {"limiter"}
PROPERTIES
  BucketForgives
CHECK_DEADLOCK FALSE
