CONSTANTS
  Sessions = 2
  MaxWrites = 3
  Epoch = 1
  IncludeLogs = TRUE
  MaxControls = 2
  None <- NoTime
SPECIFICATION ReplaySpec
INVARIANTS
  ReplayInv
  TransportObeyed
PROPERTIES
  SessionsImmutable
  PlaysAgain
CHECK_DEADLOCK FALSE
