CONSTANTS
  Drones = {d1}
  Targets = {t1, t2}
  None = None
  Company <- MCCompany
  TruthTTL = 2
  Latency = 1
  TTL = 4
  MaxLag = 1
  MaxDrop = 1
SPECIFICATION PictureFairSpec
INVARIANT PictureInv
PROPERTY GhostsFade
CHECK_DEADLOCK TRUE
