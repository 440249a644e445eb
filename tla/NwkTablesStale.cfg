CONSTANTS
  MOD = 8
  ENTRIES = 1
  DUPLICATE_TIME = 1
  BROADCAST_TIME = 2
  COUNTERS = 2
  Unicasts = {u1}
  Broadcasts = {b1, b2}
  Own = {b1}
  Start = 6
  MaxTime = 8
  MaxRequests = 1
SPECIFICATION Spec
INVARIANT BroadcastsExpire
