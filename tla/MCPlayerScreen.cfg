SPECIFICATION PlayerSpec
CONSTANTS
  p1 = p1
  p2 = p2
  Provider = {p1, p2}
  Pages <- AllPages
  MaxTicks = 3
  MaxCalls = 2
CHECK_DEADLOCK FALSE
INVARIANTS
  PlayerTypeOK
  AttemptsInTurn
PROPERTIES
  HealthyStreamKept
  UnmountReleases
  FailoverDecides
  ReplayReached
