SPECIFICATION CoordSpec
CONSTANTS
  p1 = p1
  p2 = p2
  Provider = {p1}
  Viewer = {v1}
  PeerOrder <- MCPeerOrder
  Size = {1}
  MaxTime = 3
  MaxReceipts = 1
  Registered = {p1}
  InitialSince = 1
  MaxFailures = 1
  MaxRestarts = 0
INVARIANTS
  SettledAtMostOnce
CHECK_DEADLOCK FALSE
