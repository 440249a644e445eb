CONSTANTS
  MOD = 20
  ACK_SYMBOLS = 3
  BACKOFF_SYMBOLS = 1
  STOP_SYMBOLS = 2
  STOP_STEPS = 2
  MIN_BE = 0
  MAX_BE = 0
  MAX_BACKOFFS = 0
  MAX_RETRIES = 0
  CCA_SYMBOLS = 0
  PHY_SYMBOLS = 1
  SHORT_BODY = 0
  SIFS = 1
  LIFS = 1
  Lengths = {0}
  Lifetimes = {7}
  WorkLimits = {4}
  Start = 18
  MaxGeneration = 3
  MaxTime = 5
  MaxMail = 1
SPECIFICATION Spec
INVARIANT FullWindowKept
CHECK_DEADLOCK FALSE
