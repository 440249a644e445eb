CONSTANTS
  MOD = 14
  ACK_SYMBOLS = 1
  BACKOFF_SYMBOLS = 1
  STOP_SYMBOLS = 5
  STOP_STEPS = 2
  MIN_BE = 0
  MAX_BE = 1
  MAX_BACKOFFS = 1
  MAX_RETRIES = 1
  CCA_SYMBOLS = 0
  PHY_SYMBOLS = 1
  SHORT_BODY = 0
  SIFS = 1
  LIFS = 1
  Lengths = {0}
  Lifetimes = {6}
  WorkLimits = {7}
  Start = 12
  MaxGeneration = 1
  MaxTime = 3
  MaxMail = 1



SPECIFICATION MCFairSpec

  
PROPERTIES
  ImplementsSlot
  
CHECK_DEADLOCK FALSE
