SPECIFICATION MCSpec
CONSTANTS
  x = x
  y = y
  g1 = g1
  g2 = g2
  h1 = h1
  h2 = h2
  host1 = host1
  host2 = host2
  Null = Null
  Urls <- MCUrls
  Guids <- MCGuids
  Batches <- MCBatches
  Contents <- MCContents
  Handlers <- MCHandlers
  MaxRequests = 3
  Scrapes <- MCHandlers
  Hosts <- MCHosts
  Threads = 1
  CacheTtl = 2
  CacheSize = 1
  DnsTimeout = 1
  RedirectCap = 2
  Nobody = Nobody
  NoScrape = NoScrape
INVARIANTS
  TablesConsistent
  ReportedOnce
  VerdictsExpire
PROPERTIES
  ImportTellsTruth
  RequestAnswered
  LookupsEnd
CHECK_DEADLOCK FALSE
