SPECIFICATION UnsubscribeSpec
CONSTANTS
  u1 = u1
  r1 = r1
  m1 = m1
  c1 = c1
  c2 = c2
  Null = Null
  Users <- MCUsers
  Runners <- MCRunners
  Mailers <- MCMailers
  Consumers <- MCConsumers
  MaxDay = 1
  MaxSends = 2
  MaxFaults = 0
  MaxRequests = 3
INVARIANTS
  ClickNeverConflicts
CHECK_DEADLOCK FALSE
