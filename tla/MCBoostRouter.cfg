SPECIFICATION EditorialSpec
CONSTANTS
  alice = alice
  bob = bob
  router = router
  pool = pool
  fund = fund
  Address = {alice, bob}
  ZeroAddress = ZeroAddress
  ChainId = {base}
  MaxTime = 1
  Cid = {c1}
  ZeroCid = ZeroCid
  Flags = {0}
  Reserved = {}
  MaxSigned = 2
  Manifest = {c1}
  ContestId = {k1}
  ZeroContest = ZeroContest
  Bps = {0, 3, 4}
  BPS_MAX = 3
  MAX_PUBLISH_SKEW = 1
  InitialScoringService = alice
  InitialOracleCouncil = bob
  Router = router
  PersistencePool = pool
  LlcTreasury = bob
  CouncilFund = fund
  BPS_TOTAL = 10
  THETA_FEED_BPS = 3
  MIN_BOOST = 5
  DefaultSplit <- MCSplit
  Splits <- MCSplits
  InitialRouterCouncil = bob
  UsdcBalance <- MCBalance
  BoostAmount = {4, 5}
  MaxBoosts = 2
CHECK_DEADLOCK FALSE
INVARIANTS
  MoneyFollowsEvents
PROPERTIES
  EditorialRules
