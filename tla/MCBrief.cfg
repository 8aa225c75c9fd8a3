SPECIFICATION Spec
CONSTANTS
  u1 = u1
  u2 = u2
  r1 = r1
  r2 = r2
  m1 = m1
  Null = Null
  Users = {u1}
  Runners <- MCRunners
  Mailers <- MCMailers
  MaxDay = 2
  MaxSends = 2
  MaxFaults = 1
SYMMETRY MCRunnerSymmetry
INVARIANTS
  UniqueBrief
  BriefAnnounced
  EmailedMeansAccepted
PROPERTIES
  ReplacedOnlyAfterFailure
CHECK_DEADLOCK FALSE
