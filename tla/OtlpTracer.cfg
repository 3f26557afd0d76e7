CONSTANTS
    Spans = {s1, s2, s3}
    Workers = {w1, w2}
    QueueMax = 2
    PoolMax = 1
    OtherJobs = 3
SPECIFICATION TSpec
INVARIANTS OneDrainJob NoDrainAfterDtor
PROPERTY DtorReturns
CHECK_DEADLOCK FALSE
