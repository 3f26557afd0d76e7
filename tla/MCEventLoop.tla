---------------------------- MODULE MCEventLoop ----------------------------
(* A periodic and a one-shot timer, one function, one other thread.        *)
EXTENDS EventLoop, TLC

CONSTANTS t1, p1, f1, th1

MCInterval == [t \in Timers |-> IF t = p1 THEN 1 ELSE 0]
MCDelay == [t \in Timers |-> IF t = p1 THEN 1 ELSE 0]
=============================================================================
