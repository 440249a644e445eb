CONSTANTS
  RETRIES = 1
  Requested = {"ackapp", "leave"}
  Opened = TRUE
  MaxTransactions = 2
SPECIFICATION MCSpec
INVARIANTS
  ConfirmIsTrue
  ShutOff
PROPERTIES
  AdapterInStep
  TakenUpOnce
  CountersApart
CHECK_DEADLOCK FALSE
