CONSTANTS
  v1 = v1
  v2 = v2
  Viewers <- Both
  Steadfast <- One
  Operators <- One
  None = None
  WireLimit = 1
  LogRows = 1
  EventRows = 2
  DiskMayFail = TRUE
  MaxItems = 3
SPECIFICATION FeedFairSpec
INVARIANTS
  FeedInv
  NothingLost
PROPERTIES
  ScreensCatchUp
