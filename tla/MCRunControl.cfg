CONSTANTS
  g1 = g1
  g2 = g2
  g3 = g3
  c1 = c1
  c2 = c2
  Goals <- AllGoals
  Known <- Good
  None = None
  LaunchMayFail = TRUE
  Callers <- AllCallers
  RtfControllable = TRUE
  GoalRtf <- Asked
  CallRtf <- Wanted
  DefaultRtf = 2
  WorldRtf = 2
SPECIFICATION ControlFairSpec
INVARIANTS
  RunIsWatched
  ActiveIsExecuting
  ControlInv
PROPERTIES
  ServesRuns
  CancelAnswered
CHECK_DEADLOCK FALSE
