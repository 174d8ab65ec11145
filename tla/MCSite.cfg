SPECIFICATION SiteSpec
CONSTANTS
  u1 = u1
  u2 = u2
  n1 = n1
  n2 = n2
  n3 = n3
  NoAccount = NoAccount
  NoUser = NoAccount
  Account = {u1, u2}
  Users = {u1, u2}
  OwnerOf <- McOwnerOf
  Visits <- McVisits
  TTL = 1
  MaxNow = 1
  MaxLogins = 2
  MaxMints = 2
  MaxCalls = 2
  Lives = {1, 2, 3}
  Inputs <- McInputs
  FeedCards = 2
  PreviewCards = 1
  Parts = {"cookies", "tokens", "index", "pages", "mesh", "website"}
  Browsed <- McBrowsed
  Addresses <- McAddresses
  Peers = {n1, n2, n3}
  Registry <- McRegistry
  Relays = 2
  Listings <- McListings
  Reported = {n1, n3}
  RankCalls <- McRankCalls
  SAMPLES = 5
  RTTs = {1, 2}
  MaxPolls = 2
  MaxChanges = 2
CHECK_DEADLOCK FALSE
INVARIANTS
  SiteTypeOK
  TokensHonest
  PagesTruthful
PROPERTIES
  ProtectedForItsUser
  NobodyKeptWaiting
