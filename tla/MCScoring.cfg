CONSTANTS
  Drones = {d1, d2}
  Targets = {t1, t2}
  None <- Nowhere
  MaxTime = 5
  Reach = 4
  Headings = {1}
  Margin = 1
  Offsets <- MCOffsets
  MaxLag = 1
  MaxClaims <- MCMaxClaims
  Profiles = {"software-sim", "gazebo"}
SPECIFICATION ScoringFairSpec
INVARIANT ScoringInv
PROPERTY RunEnds
CHECK_DEADLOCK FALSE
