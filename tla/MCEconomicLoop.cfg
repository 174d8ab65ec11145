SPECIFICATION LoopSpec
CONSTANTS
  p1 = p1
  p2 = p2
  alice = alice
  bob = bob
  pool = pool
  Provider = {p1, p2}
  Viewer = {v1}
  PeerOrder <- MCPeerOrder
  Size = {1, 2}
  MaxTime = 3
  MaxReceipts = 2
  Registered = {p1, p2}
  InitialSince = 1
  MaxFailures = 1
  MaxRestarts = 1
  ZeroAddress = ZeroAddress
  Address = {alice, bob}
  Pool = pool
  Cid = {cid}
  Root = {root}
  InitialCoordinator = alice
  InitialBalance <- MCBalance
  Amount = {3}
  ByteCount = {0}
  MaxProviders = 2
  MaxSettlements = 2
  MaxUint = 20
  Resolve <- OneEach
  TotalRewards = 3
CHECK_DEADLOCK FALSE
INVARIANTS
  ReceiptsPaidAndCounted
