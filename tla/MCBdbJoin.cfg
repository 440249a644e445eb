SPECIFICATION FairSpec
CONSTANTS ATTEMPTS=2 KEEPALIVES=1 STALL_STEPS=1 Wraps=FALSE MaxUpdates=2 Sends=TRUE Scenarios<-MCScenarios Acked={"TC_KEY"}
INVARIANTS MembershipIsTrue KeysInTime
PROPERTY JoinEnds
CHECK_DEADLOCK FALSE
