CONSTANTS
    t1 = t1  p1 = p1
    f1 = f1
    th1 = th1
    Nobody = Nobody
    Timers = {t1, p1}
    Interval <- MCInterval
    Delay <- MCDelay
    Functions = {f1}
    Threads = {th1}
    MaxCalls = 3
    MaxTime = 2
SPECIFICATION ESpec
INVARIANT ETypeOK
PROPERTIES NoFireAfterCancel EveryTimerFires EveryFunctionRuns
CHECK_DEADLOCK FALSE
