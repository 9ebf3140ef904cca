CONSTANTS
  None <- Unknown
  Sockets = 2
  MaxSwitches = 2
  MaxPending = 1
SPECIFICATION ClientFairSpec
INVARIANTS
  ClientInv
  AnswersMeetRequests
PROPERTIES
  IndicatorFollows
  ComesBack
