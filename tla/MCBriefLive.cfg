SPECIFICATION FairSpec
CONSTANTS
  u1 = u1
  u2 = u2
  r1 = r1
  r2 = r2
  m1 = m1
  Null = Null
  Users <- MCUsers
  Runners <- MCRunners
  Mailers <- MCMailers
  MaxDay = 1
  MaxSends = 1
  MaxFaults = 1
PROPERTIES
  TickedUserGetsBrief
  ImplementsContract
CHECK_DEADLOCK FALSE
