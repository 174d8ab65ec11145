SPECIFICATION Spec
CONSTANTS
  alice = alice
  bob = bob
  pool = pool
  ZeroAddress = ZeroAddress
  Address = {alice, bob}
  Pool = pool
  Cid = {cid}
  Root = {root}
  InitialCoordinator = alice
  InitialBalance <- MCBalance
  Amount = {0, 2, 3}
  ByteCount = {0, 1, 2}
  MaxProviders = 2
  MaxSettlements = 2
  MaxUint = 5
INVARIANTS
  TypeOK
  AllocationsWithinRewards
  PaidOncePerClaim
  PoolConservation
  PromisesBoundPayouts
  SolventIfCovered
PROPERTIES
  KeepsItsLedger
