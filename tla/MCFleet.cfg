CONSTANTS
  Drones = {d1}
  Targets = {t1, t2}
  None = None
  Absent = Absent
  Redundancy = 1
  TLock = 1
  TLost = 0
  TFresh = 0
  LostTimeout = 0
  Trips = {}
  StatusDepth = 2
  AssignDepth = 2
SPECIFICATION FleetFairSpec
INVARIANT FleetInv
PROPERTIES
  TableIsObeyed
  FailedIsReleased
CHECK_DEADLOCK TRUE
