CONSTANTS
  MOD = 16
  ACK_SYMBOLS = 2
  BACKOFF_SYMBOLS = 1
  STOP_SYMBOLS = 2
  STOP_STEPS = 2
  MIN_BE = 0
  MAX_BE = 0
  MAX_BACKOFFS = 0
  MAX_RETRIES = 1
  CCA_SYMBOLS = 0
  PHY_SYMBOLS = 1
  SHORT_BODY = 0
  SIFS = 1
  LIFS = 1
  Lengths = {0}
  Lifetimes = {7}
  WorkLimits = {9}
  Start = 14
  MaxGeneration = 1
  MaxTime = 6
  MaxMail = 1
  RETRIES = 1
  BACKOFFS = 0
  STOPS = 8
  HEADS = 1
  MaxSubmits = 2
  MaxFrames = 1
  EVENTS = 2
  WRAP = 4
  SAT = 2
  MaxRequests = 6
SPECIFICATION MCSpec
INVARIANTS
  RadioExclusive
  ReportIsTrue
  AttemptSpacing
  AttemptPrompt
  
  AckIsOwn
  RequestsInOrder
CHECK_DEADLOCK FALSE
