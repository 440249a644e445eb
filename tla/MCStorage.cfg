CONSTANTS
  p1 = p1
  p2 = p2
  Data <- MCData
  ForeignData = {alien1, alien2}
  NoData = NoData
  ERASE_LIMIT = 2
  MaxGeneration = 4
  MaxDecay = 1
  Payload <- MCPayload
  MaxCounter = 3
  RANGE = 2
  Floors = {0, 1}
  Keys = {k1, k2, k3, k4, k5}
  DefaultKey = DefaultKey
  NoKey = NoKey
  Nothing = Nothing
  Addresses = {1, 2}
  SEQ_MOD = 3
  FirstSequences = {2}
  COUNTER_END = 2
  Builds <- MCBuilds
SPECIFICATION MCSpec
INVARIANT NeverReused CeilingBeforeUse AnswersLatest NeverConflict
INVARIANT StoredRecordOpens NoReplay SwitchIsFinal LeftStaysLeft
PROPERTY CeilingsNeverRewind ForeignPreserved AtomicJournal
