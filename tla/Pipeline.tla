------------------------------ MODULE Pipeline ------------------------------
(***************************************************************************)
(* tools/call through the gateway (pipeline/Pipeline, pipeline/Call): the  *)
(* in-flight index, the governor, the circuit, the retry policy, the task  *)
(* store and the probe, composed the way the code composes them.           *)
(*                                                                         *)
(* All of it runs on the IO loop thread.  One handler is one step, down to *)
(* the callbacks it runs: the destruction of a Call destroys its Permit,   *)
(* whose releaseSlot admits waiters and starts their calls, in one step.   *)
(* What interleaves is what the loop dispatches: requests, results queued  *)
(* by the workers, timers, probe results and the stop signal.              *)
(*                                                                         *)
(* A Call has no owner: it lives as long as a closure refers to it, that   *)
(* is, while its backend call is outstanding (busy) or its promote timer   *)
(* is armed.  The closure of a result survives until the batch of pending  *)
(* functions it belongs to has run (EventLoop::doPending), so a finished   *)
(* Call may still be found by requests and results of the same batch.      *)
(*                                                                         *)
(* A request stands for its Call, its in-flight id and its task id: each   *)
(* has at most one of each.                                                *)
(***************************************************************************)
EXTENDS LocalGovernor, CountCircuit, RetryPolicy

CONSTANTS Keys, KeyOf,      \* InFlight's key of a request: agent, tool, parameters
          None,             \* no in-flight id
          TasksCap,         \* the requests whose client declares the tasks extension
          Idempotent,       \* the tools listed in idempotent_tools
          Results,          \* the classes an upstream result may have
          MaxTasks,         \* task_max
          TtlRunsOut,       \* whether a task's ttl may run out
          DownAfter         \* down_after_failures

(* The wait handleCall grants a request of tool t.                         *)
callWaitMs(t) == IF t \in Configured /\ CfgWait[t] > 0 THEN CfgWait[t] ELSE QueueWait

(* What is left of it when acquire reads the clock, which may have ticked  *)
(* since handleCall did.                                                   *)
waitsLeft(t) == {callWaitMs(t), callWaitMs(t) - 1} \cap Nat

ASSUME PipelineAssumption ==
    /\ KeyOf \in [Requests -> Keys]
    /\ None \notin Requests
    /\ \A r, s \in Requests :
          KeyOf[r] = KeyOf[s] => ToolOf[r] = ToolOf[s] /\ AgentOf[r] = AgentOf[s]
    /\ TasksCap \subseteq Requests /\ Idempotent \subseteq Tools
    /\ Results \subseteq FailureClass
    /\ MaxTasks \in Nat \ {0} /\ DownAfter \in Nat \ {0}
    /\ TtlRunsOut \in BOOLEAN
    /\ \A t \in Tools : waitsLeft(t) \subseteq CallerWaits

VARIABLES
    keyToId,        \* InFlight::keyToId_; byId_ holds exactly the live calls
    live,           \* the Call objects that exist (Pipeline::live_)
    busy,           \* the calls whose backend call has not come back
    promoteTimer,   \* the calls whose promote timer is armed
    cancelled,      \* Call::cancelled_
    responded,      \* Call::responded_
    attempt,        \* Call::attempt_
    task,           \* the task of a call, as MemTaskStore has it
    replies,        \* how often the client's onDone has been called
    circuit,        \* CountCircuit::slots_
    probeFails,     \* ProbeHealth::Slot::fails, DownAfter standing for Down
    stopping,       \* Pipeline::stopping_, HttpMcp::stopping_
    unwinding,      \* doPending is destroying the closures of its batch
    tokens,         \* history: the calls whose if_ token a reply has disclosed
    confirmed       \* history: the requests let through by a matching token

inflightVars == <<keyToId, tokens, confirmed>>
callVars == <<live, busy, promoteTimer, cancelled, responded, attempt>>
pipeVars == <<keyToId, live, busy, promoteTimer, cancelled, responded, attempt,
              task, replies, circuit, probeFails, stopping, unwinding, tokens, confirmed>>
pvars == <<vars, pipeVars>>

TaskStatus == {"none", "working", "completed", "failed", "cancelled", "expired"}

BackendOfCall(r) == BackendOf[ToolOf[r]]
Counted(f, S) == [r \in Requests |-> IF r \in S THEN f[r] + 1 ELSE f[r]]

(* Finished calls that the current batch still keeps alive.                *)
Zombies == live \ (busy \cup promoteTimer)

(* Once the destruction of a batch has begun nothing else runs before its  *)
(* end.                                                                    *)
dispatched == ~unwinding /\ UNCHANGED unwinding

(* The request has not arrived yet.                                        *)
unseen(r) == r \notin called /\ replies[r] = 0
-----------------------------------------------------------------------------
(* InFlight, MemTaskStore, CountCircuit and ProbeHealth as Pipeline reads  *)
(* them.                                                                   *)

\* Mutant: erase leaves the key behind.
erase_ById(r) == keyToId

(* InFlight::erase drops whatever the key of the call leads to.            *)
erase(r) == [keyToId EXCEPT ![KeyOf[r]] = None]

lookup(r) == IF keyToId[KeyOf[r]] \in live THEN keyToId[KeyOf[r]] ELSE None

Stored == {r \in Requests : task[r] \notin {"none", "expired"}}

(* insert, and the get that follows it.  A task is created with the start  *)
(* time of its call, so its ttl may have run out already.                  *)
insertTask(r) ==
    \/ /\ Cardinality(Stored) >= MaxTasks
       /\ UNCHANGED task
    \/ /\ Cardinality(Stored) < MaxTasks
       /\ \E st \in {"working"} \cup IF TtlRunsOut THEN {"expired"} ELSE {} :
             task' = [task EXCEPT ![r] = st]

\* Mutant: the update is lost.
updateStatus_Lost(S, st) == UNCHANGED task

(* updateStatus on the tasks of the calls in S.                            *)
updateStatus(S, st) ==
    task' = [r \in Requests |-> IF r \in S \cap Stored THEN st ELSE task[r]]

isOpen(b) == maybeHalfOpen(circuit[b]).st = "Open"
consult(b) == circuit' = [circuit EXCEPT ![b] = maybeHalfOpen(@)]
isDown(b) == probeFails[b] >= DownAfter

\* Mutant: only the health is asked.
admissible_HealthOnly(b) == ~isDown(b)

admissible(b) == ~isOpen(b) /\ ~isDown(b)
-----------------------------------------------------------------------------
(* InFlight::insert, Call's constructor, startUpstream and fireAttempt for *)
(* the requests in S (at most one), over the in-flight index K, the calls  *)
(* L and the armed promote timers P.                                       *)
start(S, K, L, P) ==
    /\ keyToId' = [k \in Keys |-> IF \E s \in S : KeyOf[s] = k
                                  THEN CHOOSE s \in S : KeyOf[s] = k ELSE K[k]]
    /\ live' = L \cup S
    /\ busy' = busy \cup S
    /\ promoteTimer' = P \cup S
    /\ attempt' = Counted(attempt, S)
    /\ UNCHANGED <<cancelled, responded>>

(* handleCall's way to the governor: no call of the same key in flight, or *)
(* the client confirms that it wants another one.                          *)
passes(r) ==
    /\ unseen(r)
    /\ ~stopping
    /\ lookup(r) \in {None} \cup tokens
    /\ confirmed' = IF lookup(r) = None THEN confirmed ELSE confirmed \cup {r}
    /\ dispatched
    /\ UNCHANGED <<tokens, probeFails, stopping, task>>

deny(r) ==
    /\ unseen(r)
    /\ ~stopping
    /\ replies' = Counted(replies, {r})
    /\ dispatched
    /\ UNCHANGED <<vars, callVars, inflightVars, task, circuit, probeFails, stopping>>

drainReject(r) ==
    /\ unseen(r)
    /\ stopping
    /\ replies' = Counted(replies, {r})
    /\ dispatched
    /\ UNCHANGED <<vars, callVars, inflightVars, task, circuit, probeFails, stopping>>

(* A hit without a matching token: a tasks client gets the handle of the   *)
(* call in flight, another one is told the token.                          *)
inflightHit(r) ==
    LET h == lookup(r)
    IN  /\ unseen(r)
        /\ ~stopping
        /\ h # None
        /\ replies' = Counted(replies, {r})
        /\ \/ /\ r \in TasksCap /\ task[h] = "none"
              /\ insertTask(h)
              /\ UNCHANGED tokens
           \/ /\ r \in TasksCap /\ task[h] # "none"
              /\ UNCHANGED <<task, tokens>>
           \/ /\ r \notin TasksCap
              /\ tokens' = tokens \cup {h}
              /\ UNCHANGED task
        /\ dispatched
        /\ UNCHANGED <<vars, callVars, keyToId, confirmed, circuit, probeFails,
                       stopping>>

startNow(r) ==
    /\ passes(r)
    /\ acquireGo(r)
    /\ admissible(BackendOfCall(r))
    /\ consult(BackendOfCall(r))
    /\ start({r}, keyToId, live, promoteTimer)
    /\ UNCHANGED replies

\* Mutant: the refusal keeps the permit.
refuseNow_KeepsPermit(r) ==
    /\ passes(r)
    /\ ~admissible(BackendOfCall(r))
    /\ acquireGo(r)
    /\ consult(BackendOfCall(r))
    /\ replies' = Counted(replies, {r})
    /\ UNCHANGED <<callVars, keyToId>>

(* The permit is granted but the upstream is not available: the permit is  *)
(* dropped, and every waiter it is passed on to meets the same refusal.    *)
refuseNow(r) ==
    /\ passes(r)
    /\ ~admissible(BackendOfCall(r))
    /\ acquireDropped(r)
    /\ permits' = permits
    /\ consult(BackendOfCall(r))
    /\ replies' = Counted(replies, {r} \cup (Queued \ Queued'))
    /\ UNCHANGED <<callVars, keyToId>>

rejectNow(r) ==
    /\ passes(r)
    /\ \E w \in waitsLeft(ToolOf[r]) : acquireReject(r, now + w)
    /\ replies' = Counted(replies, {r})
    /\ UNCHANGED <<callVars, keyToId, circuit>>

queueUp(r) ==
    /\ passes(r)
    /\ \E w \in waitsLeft(ToolOf[r]) : acquireQueue(r, now + w)
    /\ UNCHANGED <<callVars, keyToId, circuit, replies>>

waitTimedOut(r) ==
    /\ Zombies = {}
    /\ onWaitTimer(r)
    /\ replies' = Counted(replies, {r})
    /\ dispatched
    /\ UNCHANGED <<callVars, inflightVars, task, circuit, probeFails, stopping>>
-----------------------------------------------------------------------------
(* Call.                                                                   *)

\* Mutant: respond does not look at responded_.
respond_Unguarded(S) ==
    /\ replies' = Counted(replies, S)
    /\ responded' = responded \cup S

respond(S) ==
    /\ replies' = Counted(replies, S \ responded)
    /\ responded' = responded \cup S

(* The promote timer of a call whose backend call is outstanding.          *)
onPromote(r) ==
    /\ Zombies = {}
    /\ r \in promoteTimer \cap busy
    /\ promoteTimer' = promoteTimer \ {r}
    /\ \/ /\ r \in responded \cup cancelled
          /\ UNCHANGED <<replies, responded, task>>
       \/ /\ r \notin responded \cup cancelled
          /\ respond({r})
          /\ IF r \in TasksCap /\ task[r] = "none" THEN insertTask(r) ELSE UNCHANGED task
    /\ dispatched
    /\ UNCHANGED <<vars, inflightVars, live, busy, cancelled, attempt,
                   circuit, probeFails, stopping>>

\* Mutant: the result is filed although the call was cancelled.
onUpstreamCancelled_Files(r) ==
    /\ r \in busy \cap cancelled
    /\ busy' = busy \ {r}
    /\ updateStatus({r}, "completed")
    /\ dispatched
    /\ UNCHANGED <<vars, inflightVars, live, promoteTimer, cancelled, responded, attempt,
                   replies, circuit, probeFails, stopping>>

(* The result of a call that was cancelled while it ran.                   *)
onUpstreamCancelled(r) ==
    /\ r \in busy \cap cancelled
    /\ busy' = busy \ {r}
    /\ dispatched
    /\ UNCHANGED <<vars, inflightVars, live, promoteTimer, cancelled, responded, attempt,
                   task, replies, circuit, probeFails, stopping>>

outstanding(r, klass) == r \in responded \/ klass \in {"Timeout", "Cancelled"}

\* Mutant: an answered call may be retried.
retries_Answered(r, klass, late) ==
    shouldRetry(klass, ToolOf[r] \in Idempotent, attempt[r], late,
                isOpen(BackendOfCall(r)), outstanding(r, klass))

(* onUpstream reads isOpen before it reports the result to the circuit.    *)
retries(r, klass, late) ==
    /\ r \notin responded
    /\ shouldRetry(klass, ToolOf[r] \in Idempotent, attempt[r], late,
                   isOpen(BackendOfCall(r)), outstanding(r, klass))

(* A result of class klass; late says whether the deadline has passed.     *)
onUpstream(r, klass, late) ==
    LET report(s) == IF klass = "Ok" THEN onSuccess(s) ELSE onFailure(s)
    IN  /\ r \in busy \ cancelled
        /\ circuit' = [circuit EXCEPT ![BackendOfCall(r)] = report(maybeHalfOpen(@))]
        /\ \/ /\ retries(r, klass, late)
              /\ attempt' = Counted(attempt, {r})
              /\ UNCHANGED <<busy, promoteTimer, task, replies, responded>>
           \/ /\ ~retries(r, klass, late)
              /\ busy' = busy \ {r}
              /\ promoteTimer' = promoteTimer \ {r}
              /\ updateStatus({r}, IF klass = "Ok" THEN "completed" ELSE "failed")
              /\ respond({r})
              /\ UNCHANGED attempt
        /\ dispatched
        /\ UNCHANGED <<vars, inflightVars, live, cancelled, probeFails, stopping>>

\* Mutant: the closure of a promote timer that has fired is never freed.
destroyCall_TimerKeeps(r) ==
    LET b        == BackendOfCall(r)
        served   == Queued \ Queued'
        kept     == permits' \ permits
        consults == {w \in served : now < deadline[w]}
    IN  /\ r \in live \ busy
        /\ r \notin promoteTimer
        /\ releaseSlot(r)
        /\ \A w \in consults : w \in kept <=> admissible(b)
        /\ IF consults = {} THEN UNCHANGED circuit ELSE consult(b)
        /\ start(kept, erase(r), live \ {r}, promoteTimer \ {r})
        /\ replies' = Counted(replies, (served \ kept) \cup ({r} \ responded))
        /\ unwinding' = (Zombies' # {})
        /\ UNCHANGED <<tokens, confirmed, task, probeFails, stopping>>

(* The last closure that holds the call is gone: ~Call, InFlight::erase,   *)
(* ~Permit, and the admission of waiters that follows.  The closure is a   *)
(* result's, at the end of its batch, or, for a call cancelled before,     *)
(* that of its promote timer, whose onPromote returns at once.             *)
destroyCall(r) ==
    LET b        == BackendOfCall(r)
        served   == Queued \ Queued'
        kept     == permits' \ permits
        consults == {w \in served : now < deadline[w]}
    IN  /\ r \in live \ busy
        /\ r \in promoteTimer => Zombies = {}
        /\ releaseSlot(r)
        /\ \A w \in consults : w \in kept <=> admissible(b)
        /\ IF consults = {} THEN UNCHANGED circuit ELSE consult(b)
        /\ start(kept, erase(r), live \ {r}, promoteTimer \ {r})
        /\ replies' = Counted(replies, (served \ kept) \cup ({r} \ responded))
        /\ unwinding' = (Zombies' # {})
        /\ UNCHANGED <<tokens, confirmed, task, probeFails, stopping>>
-----------------------------------------------------------------------------
(* The rest of what the loop dispatches.                                   *)

(* tasks/cancel for the task of call h.                                    *)
cancelTask(h) ==
    /\ ~stopping
    /\ h \in Stored
    /\ updateStatus({h}, "cancelled")
    /\ cancelled' = cancelled \cup ({h} \cap live)
    /\ respond({h} \cap live)
    /\ dispatched
    /\ UNCHANGED <<vars, inflightVars, live, busy, promoteTimer, attempt, circuit,
                   probeFails, stopping>>

\* Mutant: the waiters are dropped without an answer.
requestStop_Silent ==
    /\ ~stopping
    /\ stopping' = TRUE
    /\ cancelled' = cancelled \cup live
    /\ updateStatus(live, "cancelled")
    /\ responded' = responded \cup live
    /\ rejectAllQueued
    /\ replies' = Counted(replies, live \ responded)
    /\ dispatched
    /\ UNCHANGED <<inflightVars, live, busy, promoteTimer, attempt, circuit,
                   probeFails>>

(* Gateway::requestStop: every call is cancelled, every waiter rejected.   *)
requestStop ==
    /\ ~stopping
    /\ stopping' = TRUE
    /\ cancelled' = cancelled \cup live
    /\ updateStatus(live, "cancelled")
    /\ responded' = responded \cup live
    /\ rejectAllQueued
    /\ replies' = Counted(replies, (live \ responded) \cup Queued)
    /\ dispatched
    /\ UNCHANGED <<inflightVars, live, busy, promoteTimer, attempt, circuit,
                   probeFails>>

(* A task's ttl runs out: whatever looks at the store next sweeps it out.  *)
taskExpires(h) ==
    /\ TtlRunsOut
    /\ h \in Stored
    /\ task' = [task EXCEPT ![h] = "expired"]
    /\ dispatched
    /\ UNCHANGED <<vars, callVars, inflightVars, replies, circuit, probeFails,
                   stopping>>

(* A probe of backend b succeeds, with a list of tools or without one.     *)
probeOk(b) ==
    /\ probeFails' = [probeFails EXCEPT ![b] = 0]
    /\ circuit' = [circuit EXCEPT ![b] = onProbeSuccess(@)]
    /\ \/ \E listed \in SUBSET Tools : onToolsListed(b, listed)
       \/ UNCHANGED vars
    /\ dispatched
    /\ UNCHANGED <<callVars, inflightVars, task, replies, stopping>>

probeFailed(b) ==
    /\ probeFails' = [probeFails EXCEPT ![b] = IF @ < DownAfter THEN @ + 1 ELSE @]
    /\ dispatched
    /\ UNCHANGED <<vars, callVars, inflightVars, task, replies, circuit, stopping>>

timePasses ==
    /\ Tick
    /\ circuit' = [b \in Backends |-> Cooler(circuit[b])]
    /\ dispatched
    /\ UNCHANGED <<callVars, inflightVars, task, replies, probeFails, stopping>>
-----------------------------------------------------------------------------
(* ProbeHealth::probeAllBlocking has run once before the gateway listens:  *)
(* a slot is Down until its first success, however few the failures.       *)
PInit ==
    /\ Init
    /\ keyToId = [k \in Keys |-> None]
    /\ live = {} /\ busy = {} /\ promoteTimer = {}
    /\ cancelled = {} /\ responded = {}
    /\ attempt = [r \in Requests |-> 0]
    /\ task = [r \in Requests |-> "none"]
    /\ replies = [r \in Requests |-> 0]
    /\ circuit = [b \in Backends |-> NewSlot]
    /\ probeFails \in [Backends -> {0, DownAfter}]
    /\ stopping = FALSE /\ unwinding = FALSE
    /\ tokens = {} /\ confirmed = {}

handleCall(r) ==
    \/ deny(r) \/ inflightHit(r) \/ drainReject(r)
    \/ startNow(r) \/ refuseNow(r) \/ rejectNow(r) \/ queueUp(r)

upstreamReturns(r) ==
    \/ onUpstreamCancelled(r)
    \/ \E klass \in Results, late \in BOOLEAN : onUpstream(r, klass, late)

(* What the loop dispatches.                                               *)
dispatch ==
    \/ \E r \in Requests :
          \/ handleCall(r) \/ waitTimedOut(r)
          \/ onPromote(r) \/ upstreamReturns(r)
          \/ cancelTask(r) \/ taskExpires(r)
    \/ \E b \in Backends : probeOk(b) \/ probeFailed(b)
    \/ requestStop
    \/ timePasses

PNext == (\E r \in Requests : destroyCall(r)) \/ dispatch

(* A blocking HTTP call returns by its timeout and its result is queued to *)
(* the loop; a batch ends; expired timers fire; time passes.               *)
PFairness ==
    /\ WF_pvars(timePasses)
    /\ \A r \in Requests :
          /\ WF_pvars(destroyCall(r))
          /\ WF_pvars(upstreamReturns(r))
          /\ WF_pvars(waitTimedOut(r))
          /\ WF_pvars(onPromote(r))

PSpec == PInit /\ [][PNext]_pvars /\ PFairness
-----------------------------------------------------------------------------
(* The type invariant of the pipeline's own state, with its bounds: a call *)
(* makes at most MaxAttempts attempts, the store holds at most MaxTasks.   *)
PTypeOK ==
    /\ keyToId \in [Keys -> Requests \cup {None}]
    /\ live \subseteq Requests /\ busy \subseteq live /\ promoteTimer \subseteq live
    /\ cancelled \subseteq Requests /\ responded \subseteq Requests
    /\ attempt \in [Requests -> 0..MaxAttempts]
    /\ task \in [Requests -> TaskStatus]
    /\ Cardinality(Stored) <= MaxTasks
    /\ replies \in [Requests -> Nat]
    /\ circuit \in [Backends -> Slot]
    /\ probeFails \in [Backends -> 0..DownAfter]
    /\ stopping \in BOOLEAN /\ unwinding \in BOOLEAN
    /\ tokens \subseteq Requests /\ confirmed \subseteq Requests

(* A client's onDone is called at most once, whichever of the upstream,    *)
(* the promote timer, tasks/cancel and the shutdown gets there first; and  *)
(* a request that reached the governor and has no answer yet is waiting in *)
(* a queue or has an attempt outstanding that will answer it.              *)
RepliedOnce ==
    /\ \A r \in Requests : replies[r] <= 1
    /\ \A r \in called : replies[r] = 0 => r \in Queued \cup (busy \ cancelled)

(* The permits in circulation are exactly those of the Calls that exist:   *)
(* none outlives its call, no call runs without one, although permits pass *)
(* through admissions that fail and through nested destructors.            *)
PermitsAreCalls == permits = live

(* The attempts outstanding at the upstreams respect the limits, also      *)
(* across retries, promotion, cancellation and the shutdown.               *)
UpstreamBounded ==
    /\ \A t \in Tools : Cardinality({r \in busy : ToolOf[r] = t}) <= Limit(t)
    /\ \A a \in Agents : Cardinality({r \in busy : AgentOf[r] = a}) <= PerPrincipal

(* The in-flight index never leads to a call that is gone, and a lookup    *)
(* finds a call of the same key: nobody is merged with a stranger's call.  *)
IndexIsSound ==
    \A k \in Keys : keyToId[k] # None => keyToId[k] \in live /\ KeyOf[keyToId[k]] = k

(* Nothing is sent upstream for a client that has its answer (a promoted   *)
(* handle or an error included), for a cancelled call, or while stopping.  *)
NoAttemptAfterAnswer ==
    [][\A r \in Requests : attempt'[r] > attempt[r] =>
          replies[r] = 0 /\ r \notin cancelled /\ ~stopping]_pvars

(* A task the client was told is cancelled stays so until it expires,      *)
(* although its call goes on at the upstream and its result comes in.      *)
CancelledStays ==
    [][\A r \in Requests : task[r] = "cancelled" =>
          task'[r] \in {"cancelled", "expired"}]_pvars

(* Nothing is sent to an upstream whose circuit was open before the step   *)
(* that sends it: not by an admission inside a destructor, after a wait in *)
(* the queue, nor by a retry.                                              *)
NoAttemptWhileOpen ==
    [][\A r \in Requests : attempt'[r] > attempt[r] => ~isOpen(BackendOfCall(r))]_pvars

(* Every request that got past the in-flight check is answered.            *)
EveryRequestReplied == \A r \in Requests : r \in called ~> replies[r] > 0

(* Every call ends and gives its permit back.                              *)
EveryCallEnds == \A r \in Requests : r \in live ~> r \notin live

(* A task whose call is still running when it is working ends with it.     *)
RunningTaskEnds ==
    \A r \in Requests : task[r] = "working" /\ r \in busy ~> task[r] # "working"
-----------------------------------------------------------------------------
(* Claims of the documentation that the code does not keep.                *)

(* README: calls of the same identity and parameters are merged or need a  *)
(* confirmation; a slow query is never stacked into two.                   *)
NoStacking ==
    \A r, s \in live : r # s /\ KeyOf[r] = KeyOf[s] => {r, s} \cap confirmed # {}

(* InFlight.h: the index has the life time of the Call, that is, a running *)
(* call can be found under its key.                                        *)
RunningCallIsFound == \A r \in busy : lookup(r) # None

(* SPEC: working -> completed | failed | cancelled, and no further.        *)
TerminalTaskStays ==
    [][\A r \in Requests : task[r] \in {"completed", "failed", "cancelled"} =>
          task'[r] \in {task[r], "expired"}]_pvars

(* SPEC: no retry unless the circuit is not OPEN.                          *)
NoRetryWhileOpen ==
    [][\A r \in Requests : attempt'[r] > attempt[r] =>
          circuit'[BackendOfCall(r)].st # "Open"]_pvars

(* SPEC: a working task becomes completed, failed or cancelled.            *)
EveryTaskEnds ==
    \A r \in Requests : task[r] = "working" ~> task[r] # "working" \/ stopping
=============================================================================
