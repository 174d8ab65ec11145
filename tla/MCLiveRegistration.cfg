SPECIFICATION RegSpec
CONSTANTS
  l1 = l1
  r1 = r1
  Live <- MCLive
  Row <- MCRow
  liveOf <- MCliveOf
  MaxFree = 1
  MaxJobs = 2
  MaxNow = 1
  MaxTx = 2
CHECK_DEADLOCK FALSE
INVARIANTS
  RegTypeOK
  MetaTruthful
  NoOvercharge
  WritesKept
PROPERTIES
  RegisterSettles
