CONSTANTS
  Drones = {d1}
  Targets = {t1, t2}
  None = None
  TLock = 2
  TLost = 2
  TFresh = 1
  LostTimeout = 3
  Trips = {"fence", "battery"}
SPECIFICATION BeatFairSpec
INVARIANTS
  TimerInv
  TaskAndTrack
PROPERTIES
  CaptureConfirmed
  KeepsPromise
  PursuitNeedsMeasurements
  ReturnsToIdle
CHECK_DEADLOCK TRUE
