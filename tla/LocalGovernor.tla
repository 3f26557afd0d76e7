--------------------------- MODULE LocalGovernor ---------------------------
(***************************************************************************)
(* The admission component (govern/LocalGovernor, Governor::Permit).       *)
(*                                                                         *)
(* Everything here runs on the one IO loop thread, so each handler is one  *)
(* step; what interleaves is the order in which the loop runs acquire,     *)
(* the destruction of permits, the waiters' timers, tools/list results and *)
(* the shutdown.  A handler may call onAdmit, which may drop the permit it *)
(* is given (Pipeline does when the circuit is open): the permit's         *)
(* destructor then re-enters releaseSlot and tryDequeue from inside        *)
(* tryDequeue.  That whole cascade is one step here too.                   *)
(***************************************************************************)
EXTENDS Integers, Sequences, FiniteSets

CONSTANTS Requests, Tools, Agents, Backends,
          ToolOf, AgentOf,     \* the tool and the principal of each request
          BackendOf,           \* the backend of each tool
          Configured,          \* tools that have a governor.tools entry
          CfgMax, CfgWait,     \* their max_concurrency and queue_wait_ms, 0 if unset
          PerTool, PerPrincipal, QueueWait,   \* governor.default
          CallerWaits,         \* waits a caller adds to the clock for its deadline
          MaxTime              \* bound on the clock

ASSUME RequestsAssumption ==
    /\ IsFiniteSet(Requests)
    /\ ToolOf \in [Requests -> Tools]
    /\ AgentOf \in [Requests -> Agents]
    /\ BackendOf \in [Tools -> Backends]

ASSUME LimitsAssumption ==
    /\ Configured \subseteq Tools
    /\ CfgMax \in [Tools -> Nat] /\ CfgWait \in [Tools -> Nat]
    /\ PerTool \in Nat /\ PerPrincipal \in Nat /\ QueueWait \in Nat
    /\ CallerWaits \subseteq Nat /\ MaxTime \in Nat

VARIABLES
    toolInUse,       \* toolInUse_
    principalInUse,  \* principalInUse_
    permitHeld,      \* counters_->permitHeld
    queues,          \* queues_: the waiters of each tool, oldest first
    deadline,        \* Waiter::deadlineMs
    timers,          \* the waiters whose timer is armed
    status,          \* GovernorToolCfg::status in the governor's copy of the config
    called,          \* the requests acquire has been called for
    answers,         \* how often onAdmit has been called for each request
    permits,         \* the requests whose permit is alive
    now              \* nowMs()

counters == <<toolInUse, principalInUse, permitHeld>>
vars == <<toolInUse, principalInUse, permitHeld, queues, deadline, timers,
          status, called, answers, permits, now>>

Statuses == {"unvalidated", "active", "invalid"}

Elements(q) == {q[i] : i \in DOMAIN q}
Queued == UNION {Elements(queues[t]) : t \in Tools}
-----------------------------------------------------------------------------
(* Limits.                                                                 *)

toolLimit(t) ==
    IF t \in Configured /\ status[t] = "active" /\ CfgMax[t] > 0
    THEN CfgMax[t] ELSE PerTool

toolWaitMs(t) ==
    IF t \in Configured /\ status[t] = "active" /\ CfgWait[t] > 0
    THEN CfgWait[t] ELSE QueueWait

\* Mutant: the tool's limit is tested with <= instead of <.
canTake_ToolOffByOne(ti, pi, r) ==
    /\ ti[ToolOf[r]] <= toolLimit(ToolOf[r])
    /\ pi[AgentOf[r]] < PerPrincipal

canTake(ti, pi, r) ==
    /\ ti[ToolOf[r]] < toolLimit(ToolOf[r])
    /\ pi[AgentOf[r]] < PerPrincipal

Plus(f, x)  == [f EXCEPT ![x] = @ + 1]
Minus(f, x) == [f EXCEPT ![x] = IF @ > 0 THEN @ - 1 ELSE @]

take(r) ==
    /\ toolInUse' = Plus(toolInUse, ToolOf[r])
    /\ principalInUse' = Plus(principalInUse, AgentOf[r])
    /\ permitHeld' = permitHeld + 1
    /\ permits' = permits \cup {r}
-----------------------------------------------------------------------------
(* tryDequeue(t), entered with the counters ti, pi, held, the live permits *)
(* P and the answer counts A.  The loop serves heads while they can be     *)
(* taken.  A head past its deadline is rejected; another one is given a    *)
(* permit.  If its callback keeps the permit the loop breaks; if the       *)
(* callback drops it, releaseSlot undoes the take and re-enters the loop.  *)
(* Neither outcome but the last changes a counter, so every head is tested *)
(* against the same ti and pi: n heads leave the queue, and only the n-th  *)
(* may keep a permit.                                                      *)
Answered(A, S) == [r \in Requests |-> IF r \in S THEN A[r] + 1 ELSE A[r]]

tryDequeue(t, ti, pi, held, P, A) ==
    LET q == queues[t]
    IN  \E n \in 0..Len(q), keep \in BOOLEAN :
            LET served == {q[i] : i \in 1..n}
            IN  /\ \A i \in 1..n : canTake(ti, pi, q[i])
                /\ keep => n > 0 /\ now < deadline[q[n]]
                /\ keep \/ \A i \in DOMAIN q : i = n + 1 => ~canTake(ti, pi, q[i])
                /\ queues' = [queues EXCEPT ![t] = SubSeq(q, n + 1, Len(q))]
                /\ timers' = timers \ served
                /\ answers' = Answered(A, served)
                /\ toolInUse' = IF keep THEN Plus(ti, t) ELSE ti
                /\ principalInUse' = IF keep THEN Plus(pi, AgentOf[q[n]]) ELSE pi
                /\ permitHeld' = IF keep THEN held + 1 ELSE held
                /\ permits' = IF keep THEN P \cup {q[n]} ELSE P
-----------------------------------------------------------------------------
(* acquire: one action per outcome.                                        *)
acquireGo(r) ==
    /\ r \notin called
    /\ canTake(toolInUse, principalInUse, r)
    /\ take(r)
    /\ called' = called \cup {r}
    /\ answers' = Answered(answers, {r})
    /\ UNCHANGED <<queues, deadline, timers, status, now>>

(* Go, but the callback lets the permit die: take and releaseSlot cancel   *)
(* out, and releaseSlot goes on to serve the tool's queue.                 *)
acquireDropped(r) ==
    /\ r \notin called
    /\ canTake(toolInUse, principalInUse, r)
    /\ called' = called \cup {r}
    /\ tryDequeue(ToolOf[r], toolInUse, principalInUse, permitHeld, permits,
                  Answered(answers, {r}))
    /\ UNCHANGED <<deadline, status, now>>

WaitDeadline(r, waitDeadlineMs) ==
    IF waitDeadlineMs = 0 THEN now + toolWaitMs(ToolOf[r]) ELSE waitDeadlineMs

acquireReject(r, waitDeadlineMs) ==
    /\ r \notin called
    /\ ~canTake(toolInUse, principalInUse, r)
    /\ WaitDeadline(r, waitDeadlineMs) <= now
    /\ called' = called \cup {r}
    /\ answers' = Answered(answers, {r})
    /\ UNCHANGED <<counters, queues, deadline, timers, status, permits, now>>

\* Mutant: the waiter is queued without a timer.
acquireQueue_NoTimer(r, waitDeadlineMs) ==
    LET dl == WaitDeadline(r, waitDeadlineMs)
    IN  /\ r \notin called
        /\ ~canTake(toolInUse, principalInUse, r)
        /\ now < dl /\ dl <= MaxTime
        /\ called' = called \cup {r}
        /\ queues' = [queues EXCEPT ![ToolOf[r]] = Append(@, r)]
        /\ deadline' = [deadline EXCEPT ![r] = dl]
        /\ UNCHANGED <<counters, timers, status, answers, permits, now>>

acquireQueue(r, waitDeadlineMs) ==
    LET dl == WaitDeadline(r, waitDeadlineMs)
        t  == ToolOf[r]
    IN  /\ r \notin called
        /\ ~canTake(toolInUse, principalInUse, r)
        /\ now < dl /\ dl <= MaxTime
        /\ called' = called \cup {r}
        /\ queues' = [queues EXCEPT ![t] = Append(@, r)]
        /\ deadline' = [deadline EXCEPT ![r] = dl]
        /\ timers' = timers \cup {r}
        /\ UNCHANGED <<counters, status, answers, permits, now>>

WaitDeadlines == {0} \cup {now + w : w \in CallerWaits}

acquire(r) ==
    \/ acquireGo(r)
    \/ acquireDropped(r)
    \/ \E wd \in WaitDeadlines : acquireReject(r, wd)
    \/ \E wd \in WaitDeadlines : acquireQueue(r, wd)

(* The permit of r is destroyed: ~Permit calls releaseSlot.                *)
\* Mutant: releaseSlot forgets the principal's counter.
releaseSlot_ToolOnly(r) ==
    /\ r \in permits
    /\ tryDequeue(ToolOf[r], Minus(toolInUse, ToolOf[r]), principalInUse,
                  permitHeld - 1, permits \ {r}, answers)
    /\ UNCHANGED <<deadline, status, called, now>>

releaseSlot(r) ==
    /\ r \in permits
    /\ tryDequeue(ToolOf[r], Minus(toolInUse, ToolOf[r]),
                  Minus(principalInUse, AgentOf[r]),
                  permitHeld - 1, permits \ {r}, answers)
    /\ UNCHANGED <<deadline, status, called, now>>

Without(q, i) == SubSeq(q, 1, i - 1) \o SubSeq(q, i + 1, Len(q))

(* The waiter's timer: the callback looks its waiter up by id in the       *)
(* tool's queue, takes it out from wherever it stands, and rejects it.     *)
onWaitTimer(r) ==
    LET t == ToolOf[r]
    IN  /\ r \in timers
        /\ now >= deadline[r]
        /\ timers' = timers \ {r}
        /\ \E i \in DOMAIN queues[t] :
              /\ queues[t][i] = r
              /\ queues' = [queues EXCEPT ![t] = Without(@, i)]
              /\ answers' = Answered(answers, {r})
        /\ UNCHANGED <<counters, deadline, status, called, permits, now>>

(* A tools/list result of backend b.  Limits may go up or down under the   *)
(* permits already given out; no queue is served here.                     *)
onToolsListed(b, listed) ==
    /\ status' = [t \in Tools |->
                    IF t \in Configured /\ BackendOf[t] = b
                    THEN IF t \in listed THEN "active" ELSE "invalid"
                    ELSE status[t]]
    /\ UNCHANGED <<counters, queues, deadline, timers, called, answers, permits, now>>

rejectAllQueued ==
    /\ queues' = [t \in Tools |-> <<>>]
    /\ timers' = timers \ Queued
    /\ answers' = Answered(answers, Queued)
    /\ UNCHANGED <<counters, deadline, status, called, permits, now>>

Tick ==
    /\ now < MaxTime
    /\ now' = now + 1
    /\ UNCHANGED <<counters, queues, deadline, timers, status, called, answers, permits>>
-----------------------------------------------------------------------------
Init ==
    /\ toolInUse = [t \in Tools |-> 0]
    /\ principalInUse = [a \in Agents |-> 0]
    /\ permitHeld = 0
    /\ queues = [t \in Tools |-> <<>>]
    /\ deadline = [r \in Requests |-> 0]
    /\ timers = {}
    /\ status = [t \in Tools |-> "unvalidated"]
    /\ called = {}
    /\ answers = [r \in Requests |-> 0]
    /\ permits = {}
    /\ now = 1

Next ==
    \/ \E r \in Requests : acquire(r) \/ releaseSlot(r) \/ onWaitTimer(r)
    \/ \E b \in Backends, listed \in SUBSET Tools : onToolsListed(b, listed)
    \/ rejectAllQueued
    \/ Tick

(* The loop never sleeps past an armed timer, so an expired waiter's timer *)
(* callback runs; the clock advances.  Callers and the owners of permits   *)
(* are under no obligation.                                                *)
Fairness ==
    /\ WF_vars(Tick)
    /\ \A r \in Requests : WF_vars(onWaitTimer(r))

Spec == Init /\ [][Next]_vars /\ Fairness
-----------------------------------------------------------------------------
(* The type invariant of the governor's state.                             *)
TypeOK ==
    /\ toolInUse \in [Tools -> Nat]
    /\ principalInUse \in [Agents -> Nat]
    /\ permitHeld \in Nat
    /\ queues \in [Tools -> Seq(Requests)]
    /\ deadline \in [Requests -> Nat]
    /\ timers \subseteq Requests
    /\ status \in [Tools -> Statuses]
    /\ called \subseteq Requests
    /\ answers \in [Requests -> Nat]
    /\ permits \subseteq Requests
    /\ now \in Nat

HoldersOfTool(t)  == {r \in permits : ToolOf[r] = t}
HoldersOfAgent(a) == {r \in permits : AgentOf[r] = a}

(* The two counters and the permit_held metric agree with the permits that *)
(* are alive, whatever mixture of immediate grants, queued grants, dropped *)
(* permits and destructions led here: no slot leaks, none is freed twice.  *)
PermitAccounting ==
    /\ \A t \in Tools : toolInUse[t] = Cardinality(HoldersOfTool(t))
    /\ \A a \in Agents : principalInUse[a] = Cardinality(HoldersOfAgent(a))
    /\ permitHeld = Cardinality(permits)

(* Every request is in exactly one of three places: not seen, waiting once *)
(* in the queue of its own tool with its timer armed and no answer given,  *)
(* or answered exactly once; a permit belongs to an answered request.      *)
AnsweredOnce ==
    /\ \A t \in Tools : \A i, j \in DOMAIN queues[t] :
          /\ ToolOf[queues[t][i]] = t
          /\ queues[t][i] = queues[t][j] => i = j
    /\ timers = Queued
    /\ Queued \subseteq called
    /\ permits \subseteq called \ Queued
    /\ \A r \in Requests :
          answers[r] = IF r \in called /\ r \notin Queued THEN 1 ELSE 0

Limit(t) == IF CfgMax[t] > PerTool THEN CfgMax[t] ELSE PerTool

(* No principal ever holds more than its limit, and no tool more than the  *)
(* larger of the two limits a listing can switch between.                  *)
ConcurrencyBounded ==
    /\ \A a \in Agents : principalInUse[a] <= PerPrincipal
    /\ \A t \in Tools : toolInUse[t] <= Limit(t)

(* The governor implements the permit pool: no step hands out a permit     *)
(* above the limits in force at that step, none answers a request twice.   *)
Pool == INSTANCE PermitPool
        WITH holders <- permits,
             settled <- {r \in Requests : answers[r] > 0},
             cap <- [t \in Tools |-> toolLimit(t)]

ImplementsPermitPool == Pool!PoolSpec

(* Every request handed to acquire is eventually answered: by a grant, by  *)
(* its timer, or by the shutdown.                                          *)
EveryAcquireAnswered ==
    \A r \in Requests : r \in called ~> answers[r] > 0

(* The header's claim, FIFO admission, in its weakest form: a newcomer is  *)
(* not admitted over a request of the same principal for the same tool     *)
(* that is still waiting in the queue.                                     *)
FifoAdmission ==
    [][\A r \in permits' \ called, w \in Queued :
          ToolOf[w] = ToolOf[r] /\ AgentOf[w] = AgentOf[r] => w \notin Queued']_vars
=============================================================================
