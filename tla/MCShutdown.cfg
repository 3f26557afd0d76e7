CONSTANTS
    m = m  w1 = w1
    call = call  spans = spans  audit = audit
    Main = m
    Workers = {w1}
    Nobody = Nobody
    Jobs = {call, spans, audit}
    Uses <- MCUses
    maxQueue = 1
    MaxSignals = 2
SPECIFICATION SSpec
INVARIANTS AcceptedJobsRun LoopOutlivesItsUsers
PROPERTY StopEndsOrSelfLocks
CHECK_DEADLOCK FALSE
