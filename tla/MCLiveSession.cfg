SPECIFICATION LiveSpec
CONSTANTS
  Wrap = 16
  FirstTS = 14
  Step = {0, 2, 4}
  MaxGen = 1
  MaxFrames = 4
  SegmentTicks = 4
  PartTicks = 2
  FrameTicks = 1
  Parsable = {1}
  Role = "origin"
  Lossy = TRUE
  StoreMayFail = TRUE
  MaxLate = 1
CHECK_DEADLOCK FALSE
INVARIANTS
  SegmentsFaithful
  PartsTileSegments
  ServedHonestly
PROPERTIES
  SessionKept
