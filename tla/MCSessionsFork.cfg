SPECIFICATION Spec
CONSTANTS
  u1 = u1
  b1 = b1
  b2 = b2
  h1 = h1
  h2 = h2
  Null = Null
  Users = {u1}
  Browsers <- MCBrowsers
  Handlers <- MCHandlers
  MaxTokens = 3
  MaxFaults = 0
INVARIANTS
  AtMostOneLiveToken
CHECK_DEADLOCK FALSE
