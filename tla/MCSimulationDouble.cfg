CONSTANTS
  d1 = d1
  d2 = d2
  Drones <- MCDrones
  Order <- MCOrder
  Targets = {t1, t2}
  None = None
  Absent = Absent
  Redundancy = 1
  TLock = 2
  TLost = 1
  TFresh = 1
  LostTimeout = 1
  Trips = {}
SYMMETRY Symmetry
SPECIFICATION SimSpec
INVARIANT NeverDoubleCommitted
CHECK_DEADLOCK FALSE
