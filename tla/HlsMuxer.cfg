SPECIFICATION MuxSpec
CONSTANTS
  Wrap = 8
  FirstTS = 6
  Step = {0, 1}
  MaxGen = 2
  MaxFrames = 5
CHECK_DEADLOCK FALSE
INVARIANTS
  StreamPlayable
