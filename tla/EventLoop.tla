----------------------------- MODULE EventLoop -----------------------------
(***************************************************************************)
(* The loop thread of netlib/EventLoop: its timers, the functions queued   *)
(* to it by itself and by other threads, and the eventfd that wakes it.    *)
(*                                                                         *)
(* A turn of loop() is: expired timers, epoll_wait, the handlers of active *)
(* channels (the timerfd's runs expired timers again), the pending         *)
(* functions.  User code runs inside callbacks (UserCode) and may there    *)
(* create and cancel timers, queue functions and quit; another thread's    *)
(* calls are queued, in two steps: the push, under the mutex, and then the *)
(* write to the eventfd.                                                   *)
(***************************************************************************)
EXTENDS Naturals, Sequences, FiniteSets

CONSTANTS Timers,           \* the ids runAfter and runEvery hand out
          Interval,         \* the period of a timer in ticks, 0 for runAfter
          Delay,            \* the delay each is asked for with, in ticks
          Functions,        \* functions given to queueInLoop
          Threads,          \* the threads other than the loop's
          Nobody,           \* no timer
          MaxCalls,         \* bound on what the loop is asked for
          MaxTime           \* bound on the clock

ASSUME LoopAssumption ==
    /\ Interval \in [Timers -> Nat] /\ Delay \in [Timers -> Nat]
    /\ \A t \in Timers : Interval[t] > 0 => Delay[t] = Interval[t]
    /\ MaxTime \in Nat /\ MaxCalls \in Nat /\ Nobody \notin Timers

VARIABLES
    pc,          \* where the loop thread is
    heap, when,  \* timers_: the ids in it, and the time each is due
    cbs,         \* timerCbs_: the ids that have a callback
    canceled,    \* canceled_
    expired,     \* the timers processExpiredTimers has popped and not yet seen to
    running,     \* the timer whose callback runs
    after,       \* where processExpiredTimers returns to
    since,       \* the time at which it began, from which periods are counted
    pending,     \* pending_
    fns,         \* what doPending has swapped out and not yet run
    wake,        \* the eventfd is readable
    writing,     \* threads between the push and the write of queueInLoop
    quit,        \* quit_
    made,        \* ids handed out
    asked,       \* functions handed to queueInLoop
    fired,       \* history: how often a timer's callback was called, up to 2
    dead,        \* history: timers cancelInLoop was called for
    ran,         \* history: functions that have run
    now

timerVars == <<heap, when, cbs, canceled, fired, dead>>
batchVars == <<expired, running, after, since>>
queueVars == <<pending, wake, asked>>
evars == <<pc, heap, when, cbs, canceled, expired, running, after, since, pending,
           fns, wake, writing, quit, made, asked, fired, dead, ran, now>>

Closures == [op : {"insert", "cancel"}, id : Timers] \cup [op : {"run"}, id : Functions]
Places == {"top", "timers", "timerCb", "poll", "woken", "event", "fns", "fn", "done"}

(* Among the handlers: "woken" while the eventfd's is still to come.       *)
Handling == {"woken", "event"}

UserCode == pc \in Handling \cup {"timerCb", "fn"}
Due == {t \in heap : when[t] <= now}

(* Bound: timers made and cancelled and functions queued, all together.    *)
more == Cardinality(made) + Cardinality(asked) + Cardinality(dead) < MaxCalls
-----------------------------------------------------------------------------
(* Timers.                                                                 *)
insertTimer(t) ==
    /\ cbs' = cbs \cup {t}
    /\ heap' = heap \cup {t}
    /\ UNCHANGED <<when, canceled, fired, dead>>

\* Mutant: a cancel only drops the callback.
cancelInLoop_ForgetsId(t) ==
    /\ cbs' = cbs \ {t}
    /\ dead' = dead \cup {t}
    /\ UNCHANGED <<heap, when, canceled, fired>>

cancelInLoop(t) ==
    /\ canceled' = canceled \cup {t}
    /\ cbs' = cbs \ {t}
    /\ dead' = dead \cup {t}
    /\ UNCHANGED <<heap, when, fired>>

(* processExpiredTimers: pop what is due; r is where it returns to.        *)
collect(r) ==
    /\ expired' = Due
    /\ heap' = heap \ Due
    /\ after' = r
    /\ since' = now
    /\ pc' = "timers"
    /\ UNCHANGED <<when, cbs, canceled, running, pending, fns, wake, writing, quit, made,
                   asked, fired, dead, ran, now>>

First(t) == t \in expired /\ \A u \in expired : when[t] <= when[u]

(* A popped timer that was cancelled, maybe by a callback of this batch.   *)
skipCancelled(t) ==
    /\ pc = "timers" /\ First(t) /\ t \in canceled
    /\ canceled' = canceled \ {t}
    /\ cbs' = cbs \ {t}
    /\ expired' = expired \ {t}
    /\ UNCHANGED <<pc, heap, when, fired, dead, running, after, since, queueVars, fns, writing,
                   quit, made, ran, now>>

fire(t) ==
    /\ pc = "timers" /\ First(t) /\ t \notin canceled
    /\ fired' = [fired EXCEPT ![t] = IF t \in cbs /\ @ < 2 THEN @ + 1 ELSE @]
    /\ cbs' = cbs \ {t}
    /\ expired' = expired \ {t}
    /\ running' = t
    /\ pc' = "timerCb"
    /\ UNCHANGED <<heap, when, canceled, dead, after, since, queueVars, fns, writing, quit,
                   made, ran, now>>

\* Mutant: a one-shot timer is put back too.
rearms_Always(t) == t \notin canceled
rearms(t) == Interval[t] > 0 /\ t \notin canceled

(* The callback returns; a periodic timer is due one interval after since. *)
endTimerCb ==
    /\ pc = "timerCb"
    /\ IF rearms(running)
       THEN /\ heap' = heap \cup {running}
            /\ cbs' = cbs \cup {running}
            /\ when' = [when EXCEPT ![running] = since + Interval[running]]
       ELSE UNCHANGED <<heap, cbs, when>>
    /\ running' = Nobody
    /\ pc' = "timers"
    /\ UNCHANGED <<canceled, fired, dead, expired, after, since, queueVars, fns, writing, quit,
                   made, ran, now>>

timersDone ==
    /\ pc = "timers" /\ expired = {}
    /\ pc' = after
    /\ UNCHANGED <<timerVars, batchVars, queueVars, fns, writing, quit, made, ran, now>>
-----------------------------------------------------------------------------
(* The turn of the loop.                                                   *)
top ==
    /\ pc = "top"
    /\ \/ /\ quit
          /\ pc' = "done"
          /\ UNCHANGED <<timerVars, batchVars, queueVars, fns, writing, quit, made, ran, now>>
       \/ /\ ~quit /\ Due = {}
          /\ pc' = "poll"
          /\ UNCHANGED <<timerVars, batchVars, queueVars, fns, writing, quit, made, ran, now>>
       \/ /\ ~quit /\ Due # {}
          /\ collect("poll")

(* epoll_wait returns, because of a socket or because of the eventfd, the  *)
(* timerfd or the timeout; the active channels are fixed by then.          *)
pollReturns ==
    /\ pc = "poll"
    /\ pc' = IF wake THEN "woken" ELSE "event"
    /\ UNCHANGED <<timerVars, batchVars, queueVars, fns, writing, quit, made, ran, now>>

(* The read of the eventfd takes with it what was written since.           *)
handleWakeup ==
    /\ pc = "woken"
    /\ pc' = "event"
    /\ wake' = FALSE
    /\ UNCHANGED <<timerVars, batchVars, pending, asked, fns, writing, quit, made, ran, now>>

\* Mutant: the timeout is infinite and the timerfd disarmed.
pollWakes_NoTimeout == wake /\ pollReturns

pollWakes == (wake \/ Due # {}) /\ pollReturns

handleTimerExpired == pc \in Handling /\ Due # {} /\ collect(pc)

(* The handlers are done and doPending swaps the queue.                    *)
doPending ==
    /\ pc = "event"
    /\ fns' = pending
    /\ pending' = <<>>
    /\ pc' = "fns"
    /\ UNCHANGED <<timerVars, batchVars, wake, asked, writing, quit, made, ran, now>>

runFn ==
    /\ pc = "fns" /\ fns # <<>>
    /\ fns' = Tail(fns)
    /\ LET f == Head(fns)
       IN  \/ /\ f.op = "insert" /\ insertTimer(f.id)
              /\ UNCHANGED <<pc, ran>>
           \/ /\ f.op = "cancel" /\ cancelInLoop(f.id)
              /\ UNCHANGED <<pc, ran>>
           \/ /\ f.op = "run"
              /\ pc' = "fn"
              /\ ran' = ran \cup {f.id}
              /\ UNCHANGED timerVars
    /\ UNCHANGED <<batchVars, queueVars, writing, quit, made, now>>

endFn ==
    /\ pc = "fn"
    /\ pc' = "fns"
    /\ UNCHANGED <<timerVars, batchVars, queueVars, fns, writing, quit, made, ran, now>>

fnsDone ==
    /\ pc = "fns" /\ fns = <<>>
    /\ pc' = "top"
    /\ UNCHANGED <<timerVars, batchVars, queueVars, fns, writing, quit, made, ran, now>>
-----------------------------------------------------------------------------
(* Calls made by user code on the loop thread.                             *)
runAfter(t) ==
    /\ UserCode /\ t \notin made /\ more
    /\ now + Delay[t] <= MaxTime
    /\ made' = made \cup {t}
    /\ when' = [when EXCEPT ![t] = now + Delay[t]]
    /\ cbs' = cbs \cup {t}
    /\ heap' = heap \cup {t}
    /\ UNCHANGED <<pc, canceled, fired, dead, batchVars, queueVars, fns, writing, quit, ran,
                   now>>

cancel(t) ==
    /\ UserCode /\ t \in made /\ (t \in dead \/ more)
    /\ cancelInLoop(t)
    /\ UNCHANGED <<pc, batchVars, queueVars, fns, writing, quit, made, ran, now>>

queueInLoop(f) ==
    /\ UserCode /\ f \notin asked /\ more
    /\ asked' = asked \cup {f}
    /\ pending' = Append(pending, [op |-> "run", id |-> f])
    /\ wake' = TRUE
    /\ UNCHANGED <<pc, timerVars, batchVars, fns, writing, quit, made, ran, now>>

callQuit ==
    /\ UserCode
    /\ quit' = TRUE
    /\ wake' = TRUE
    /\ UNCHANGED <<pc, timerVars, batchVars, pending, asked, fns, writing, made, ran, now>>
-----------------------------------------------------------------------------
(* Calls made by another thread, or by the main thread before loop().      *)
push(th, c) ==
    /\ th \notin writing /\ more
    /\ pending' = Append(pending, c)
    /\ writing' = writing \cup {th}
    /\ UNCHANGED <<pc, heap, cbs, canceled, fired, dead, batchVars, wake, fns, quit, ran,
                   now>>

remoteRunAfter(th, t) ==
    /\ t \notin made
    /\ now + Delay[t] <= MaxTime
    /\ made' = made \cup {t}
    /\ when' = [when EXCEPT ![t] = now + Delay[t]]
    /\ push(th, [op |-> "insert", id |-> t])
    /\ UNCHANGED asked

(* Bound: no second cancel of a timer that is cancelled already.           *)
remoteCancel(th, t) ==
    /\ t \in made /\ t \notin dead
    /\ \A i \in DOMAIN pending : pending[i] # [op |-> "cancel", id |-> t]
    /\ push(th, [op |-> "cancel", id |-> t])
    /\ UNCHANGED <<made, when, asked>>

remoteQueue(th, f) ==
    /\ f \notin asked
    /\ asked' = asked \cup {f}
    /\ push(th, [op |-> "run", id |-> f])
    /\ UNCHANGED <<made, when>>

\* Mutant: the eventfd is not written.
wakeUp_Lost(th) ==
    /\ th \in writing
    /\ writing' = writing \ {th}
    /\ UNCHANGED <<pc, timerVars, batchVars, queueVars, fns, quit, made, ran, now>>

wakeUp(th) ==
    /\ th \in writing
    /\ writing' = writing \ {th}
    /\ wake' = TRUE
    /\ UNCHANGED <<pc, timerVars, batchVars, pending, asked, fns, quit, made, ran, now>>

tick ==
    /\ now < MaxTime
    /\ now' = now + 1
    /\ UNCHANGED <<pc, timerVars, batchVars, queueVars, fns, writing, quit, made, ran>>
-----------------------------------------------------------------------------
EInit ==
    /\ pc = "top"
    /\ heap = {} /\ cbs = {} /\ canceled = {} /\ expired = {} /\ dead = {}
    /\ when = [t \in Timers |-> 0] /\ fired = [t \in Timers |-> 0]
    /\ running = Nobody /\ after = "poll" /\ since = 0
    /\ pending = <<>> /\ fns = <<>>
    /\ wake = FALSE /\ quit = FALSE
    /\ writing = {} /\ made = {} /\ asked = {} /\ ran = {}
    /\ now = 0

LoopStep ==
    \/ top \/ pollWakes \/ handleWakeup \/ handleTimerExpired \/ doPending
    \/ runFn \/ endFn \/ fnsDone \/ timersDone \/ endTimerCb
    \/ \E t \in Timers : skipCancelled(t) \/ fire(t)

UserStep ==
    \/ \E t \in Timers : cancel(t) \/ runAfter(t)
    \/ \E f \in Functions : queueInLoop(f)
    \/ callQuit

ThreadStep(th) ==
    \/ wakeUp(th)
    \/ \E t \in Timers : remoteCancel(th, t) \/ remoteRunAfter(th, t)
    \/ \E f \in Functions : remoteQueue(th, f)

ENext == LoopStep \/ pollReturns \/ UserStep \/ (\E th \in Threads : ThreadStep(th)) \/ tick

(* The loop thread runs, and callbacks return; epoll_wait returns when the *)
(* eventfd or the timerfd is readable, but no socket need ever become so.  *)
EFairness ==
    /\ WF_evars(LoopStep)
    /\ WF_evars(tick)
    /\ \A th \in Threads : WF_evars(wakeUp(th))

ESpec == EInit /\ [][ENext]_evars /\ EFairness
-----------------------------------------------------------------------------
(* The type invariant of the loop; a timer of runAfter fires at most once. *)
ETypeOK ==
    /\ pc \in Places /\ after \in Handling \cup {"poll"}
    /\ heap \subseteq made /\ cbs \subseteq made /\ canceled \subseteq made
    /\ expired \subseteq made /\ expired \cap heap = {}
    /\ running \in Timers \cup {Nobody}
    /\ when \in [Timers -> Nat] /\ since \in 0..now
    /\ pending \in Seq(Closures) /\ fns \in Seq(Closures)
    /\ \A t \in Timers : fired[t] \in 0..IF Interval[t] = 0 THEN 1 ELSE 2
    /\ ran \subseteq asked

(* No callback is started after its timer was cancelled: by an earlier     *)
(* callback of the same batch, by its own callback for its next period, or *)
(* before the insertion another thread has queued was made.                *)
NoFireAfterCancel ==
    [][\A t \in Timers : fired'[t] > fired[t] => t \notin dead]_evars

(* Every timer fires, unless it is cancelled or the loop is told to quit.  *)
EveryTimerFires ==
    \A t \in Timers : t \in made ~> fired[t] > 0 \/ t \in dead \/ quit

(* Every function queued runs, whichever thread queues it and wherever the *)
(* loop is between its swap of pending_ and epoll_wait: no lost wake-up.   *)
EveryFunctionRuns ==
    \A f \in Functions : f \in asked ~> f \in ran \/ quit
=============================================================================
