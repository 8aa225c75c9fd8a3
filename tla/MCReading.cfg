SPECIFICATION MCSpec
CONSTANTS
  f1 = f1
  f2 = f2
  text = text
  choice = choice
  slot1 = slot1
  slot2 = slot2
  Articles <- MCArticleSet
  DayLength = 2
  TickHour = 1
  Days = 2
  Cap = 2
  MaxClusters = 3
  MaxIndices = 2
  Limit = 2
  Depth = 3
  MaxNotes = 3
  MaxNotifications = 3
  DropdownLimit = 2
  Fetches <- MCFetches
  MaxFaults = 1
  KeyValues <- MCKeyValues
  Upstream <- MCUpstream
  Locales <- MCLocales
  Default = "en"
  Bare = "bare"
  TokenLife = 1
  CookieLife = 2
  NoVisit = NoVisit
  Texts <- MCTexts
  FilterValues <- MCFilterValues
  NoText = NoText
  NoChoice = NoChoice
  NoNav = NoNav
  NoAnswer = NoAnswer
  Slots <- MCSlots
  Unsafe = Unsafe
  Blank <- MCBlank
  Null = Null
  Idle = Idle
  NoCursor = NoCursor
  NoWalk = NoWalk
  NoRequest = NoRequest
  NoCall = NoCall
INVARIANTS
  ToldOnce
  LeftOutExplained
  LostOnlyAtBoundaries
  OneAnswer
  PickerPredicts
  MetricsAgree
  RedirectsEnd
  ShownIsAsked
PROPERTIES
  BellSettles
CHECK_DEADLOCK FALSE
