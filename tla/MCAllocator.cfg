CONSTANTS
  Drones = {d1, d2, d3}
  Targets = {t1, t2}
  None = None
  Absent = Absent
  Redundancy = 2
  Big = 100
SYMMETRY Symmetry
SPECIFICATION AllocSpec
INVARIANTS
  SolverIsOptimal
PROPERTIES
  EntriesKept
  NeverPilesOn
  NoIdleWhileOpen
CHECK_DEADLOCK TRUE
