CONSTANTS
  Keys = {k1, k2, k3, k4, k5}
  DefaultKey = DefaultKey
  NoKey = NoKey
  Nothing = Nothing
  Addresses = {1, 2}
  SEQ_MOD = 3
  FirstSequences = {2}
  COUNTER_END = 2
  Builds <- MCBuilds
SPECIFICATION KeysSpec
INVARIANT NeverBricked
