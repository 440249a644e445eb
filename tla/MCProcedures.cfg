CONSTANTS
  Bodies = {"RESPONSE"}
  MaxAttempts = 2
  MaxFrames = 1
  MaxLate = 1
  Channels = {11, 12}
  LOSSY_RETRIES = 1
  BUSY_RETRIES = 0
  CAPACITY = 2
  Identities = {1, 2, 3}
  Scores = {1, 2}
  UPDATES = 4
  MaxBeacons = 3
  BYTE = 2
  PERIODS = 2
  POLLS = 6
  MaxTime = 10
SPECIFICATION MCSpec
INVARIANTS
  ScanIsHonest
  
  JoinIsClean
  AnswerIsOwn
  SilenceIsTrue
  StampIsTrue
CHECK_DEADLOCK FALSE
