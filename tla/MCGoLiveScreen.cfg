SPECIFICATION GoLiveSpec
CONSTANTS
  Cast <- MCCast
  Available <- MCAvailable
  MaxCams = 2
  MaxCasts = 2
  MaxStops = 2
CHECK_DEADLOCK FALSE
INVARIANTS
  GoLiveTypeOK
  StopReleases
  RecordingsHonest
PROPERTIES
  NothingHangs
