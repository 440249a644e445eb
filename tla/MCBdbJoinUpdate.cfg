SPECIFICATION Spec
CONSTANTS ATTEMPTS=2 KEEPALIVES=1 STALL_STEPS=1 Wraps=FALSE MaxUpdates=2 Sends=FALSE Scenarios<-MCUpdated Acked={}
INVARIANT InstalledBeforeTraffic
CHECK_DEADLOCK FALSE
