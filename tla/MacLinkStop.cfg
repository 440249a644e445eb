CONSTANTS
  RETRIES = 1
  BACKOFFS = 1
  STOPS = 8
  HEADS = 1
  MaxSubmits = 2
  MaxFrames = 2
SPECIFICATION LinkSpec
INVARIANT NeverStopFailed
CHECK_DEADLOCK FALSE
