SPECIFICATION CoordSpec
CONSTANTS
  p1 = p1
  p2 = p2
  Provider = {p1}
  Viewer = {v1}
  PeerOrder <- MCPeerOrder
  Size = {1}
  MaxTime = 4
  MaxReceipts = 2
  Registered = {p1}
  InitialSince = 1
  MaxFailures = 2
  MaxRestarts = 1
CHECK_DEADLOCK FALSE
INVARIANTS
  AttemptsSound
  SettledOnceUndisturbed
PROPERTIES
  EveryReceiptCovered
