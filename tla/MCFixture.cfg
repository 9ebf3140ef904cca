CONSTANTS
  p1 = p1
  p2 = p2
  t1 = t1
  t2 = t2
  Pages <- BothPages
  Steadfast <- One
  Targets <- BothTargets
  Period = 1
  None = None
  MaxRuns = 2
  MaxCalls = 1
  MaxSends = 1
SPECIFICATION FixtureFairSpec
INVARIANTS
  FixtureInv
PROPERTIES
  StatusesInOrder
  Settles
