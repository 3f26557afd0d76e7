------------------------------ MODULE Shutdown ------------------------------
(***************************************************************************)
(* The end of the process: the signal handler and runServe (cli/Cli),      *)
(* Gateway::requestStop, the loop's mutex, the destructors of Gateway's    *)
(* members in the order of their declaration, and the worker pool, whose   *)
(* destructor runs what is queued and joins.                               *)
(*                                                                         *)
(* The main thread runs the loop.  The kernel runs onSig on any thread,    *)
(* between any two of its steps, also while that thread holds mtx_; the    *)
(* thread goes on when the handler returns.  Each of the two signals is    *)
(* blocked in its own handler only, so one handler may be nested in the    *)
(* other.                                                                  *)
(***************************************************************************)
EXTENDS Naturals, FiniteSets

CONSTANTS Main, Workers,    \* the threads
          Nobody,           \* nobody holds mtx_; no job
          Jobs, Uses,       \* jobs for the pool, and what each of them uses
          maxQueue,         \* capacity of the pool's queue
          MaxSignals        \* bound on the signals delivered

Threads == Workers \cup {Main}

(* upstream: HttpMcpBackend, whose closure holds the Call; grants: a       *)
(* refresh or an append; spans: the tracer's drain; nothing: an audit line.*)
Users == {"upstream", "grants", "spans", "nothing"}

ASSUME ShutdownAssumption ==
    /\ Main \notin Workers /\ Nobody \notin Threads \cup Jobs
    /\ Workers # {} /\ IsFiniteSet(Workers)
    /\ Uses \in [Jobs -> Users] /\ MaxSignals \in Nat
    /\ maxQueue \in Nat \ {0}

VARIABLES
    at,        \* where each thread is
    handler,   \* how far the signal handler on it has come, and one nested in it
    mtx,       \* the holder of EventLoop::mtx_
    globals,   \* gGw and gLoop are set
    stops,     \* a function that calls requestStop is in pending_
    drain,     \* the drain timer
    quit,      \* EventLoop::quit_
    job,       \* how far each job is; "result": its result is in pending_,
               \* "refused": the queue was full
    runs,      \* the job each worker runs
    stop,      \* ThreadPool::stop_
    signals    \* signals delivered

mainVars == <<globals, drain, quit, stop>>
poolVars == <<job, runs>>
svars == <<at, handler, mtx, globals, stops, drain, quit, job, runs, stop, signals>>

MainPlaces == {"starting", "startLocked", "top", "poll", "events", "eventsLocked",
               "pending", "pendingLocked", "left", "tracer", "members", "pool", "after"}
WorkerPlaces == {"idle", "running", "locked", "write", "exited"}
Locked == {"startLocked", "eventsLocked", "pendingLocked", "locked"}

Depths == {1, 2}
HandlerPlaces == {"no", "entered", "lock", "locked", "write"}
NoHandler == [d \in Depths |-> "no"]
-----------------------------------------------------------------------------
(* A thread's own code runs while no handler runs on it.                   *)
goes(t, from, to) ==
    /\ at[t] = from /\ handler[t] = NoHandler
    /\ at' = [at EXCEPT ![t] = to]
    /\ UNCHANGED <<handler, signals>>

lock(t, from, to) ==
    /\ goes(t, from, to)
    /\ mtx = Nobody /\ mtx' = t
    /\ UNCHANGED <<mainVars, stops, poolVars>>

unlock(t, from, to) ==
    /\ goes(t, from, to)
    /\ mtx' = Nobody
-----------------------------------------------------------------------------
(* onSig at depth d, which runs while no other is nested in it.            *)
handles(t, d, from, to) ==
    /\ handler[t][d] = from /\ (d = 1 => handler[t][2] = "no")
    /\ handler' = [handler EXCEPT ![t] = [@ EXCEPT ![d] = to]]
    /\ UNCHANGED <<at, mainVars, poolVars>>

signal(t, d) ==
    /\ signals < MaxSignals /\ at[t] # "exited"
    /\ d = 2 => handler[t][1] # "no"
    /\ signals' = signals + 1
    /\ handles(t, d, "no", "entered")
    /\ UNCHANGED <<mtx, stops>>

\* Mutant: the handler does not ask whether there is still a gateway.
onSig_Unchecked(t, d) ==
    /\ handles(t, d, "entered", "lock")
    /\ UNCHANGED <<mtx, stops, signals>>

onSig(t, d) ==
    /\ handles(t, d, "entered", IF globals THEN "lock" ELSE "no")
    /\ UNCHANGED <<mtx, stops, signals>>

(* queueInLoop in the handler: the push under mtx_, and the write.         *)
sigLock(t, d) ==
    /\ mtx = Nobody /\ mtx' = t
    /\ handles(t, d, "lock", "locked")
    /\ UNCHANGED <<stops, signals>>

sigPush(t, d) ==
    /\ handles(t, d, "locked", "write")
    /\ mtx' = Nobody /\ stops' = TRUE
    /\ UNCHANGED signals

sigWrite(t, d) ==
    /\ handles(t, d, "write", "no")
    /\ UNCHANGED <<mtx, stops, signals>>
-----------------------------------------------------------------------------
(* The main thread: runServe, loop(), and the destructors.                 *)

(* Gateway::start and loop() take mtx_ before the first turn.              *)
start ==
    \/ lock(Main, "starting", "startLocked")
    \/ /\ unlock(Main, "startLocked", "top")
       /\ UNCHANGED <<mainVars, stops, poolVars>>

(* loop() returns and runServe clears the globals.                         *)
loopEnds ==
    /\ quit /\ goes(Main, "top", "left")
    /\ globals' = FALSE
    /\ UNCHANGED <<mtx, stops, drain, quit, stop, poolVars>>

(* epoll_wait: the periodic timers end it if nothing else does.            *)
poll ==
    /\ \/ ~quit /\ goes(Main, "top", "poll")
       \/ goes(Main, "poll", "events")
    /\ UNCHANGED <<mtx, mainVars, stops, poolVars>>

(* A handler or a timer adds a job to the pool.  With the queue full the   *)
(* upstream call fails at once, its result queued to the loop; a refresh,  *)
(* a drain, an append or an audit line is given up.                        *)
queued == {j \in Jobs : job[j] = "queued"}

addJob(j) ==
    /\ at[Main] = "events" /\ handler[Main] = NoHandler /\ job[j] = "new"
    /\ job' = [job EXCEPT ![j] = IF Cardinality(queued) < maxQueue THEN "queued"
                                 ELSE IF Uses[j] = "upstream" THEN "result"
                                 ELSE "refused"]
    /\ UNCHANGED <<at, handler, mtx, mainVars, stops, runs, signals>>

(* What handlers and timers do with the loop begins with inLoopThread.     *)
events ==
    \/ lock(Main, "events", "eventsLocked")
    \/ /\ unlock(Main, "eventsLocked", "pending")
       /\ quit' = (quit \/ drain = "due")
       /\ UNCHANGED <<globals, drain, stop, stops, poolVars>>

(* doPending: results are delivered, and requestStop arms the drain timer. *)
doPending ==
    \/ lock(Main, "pending", "pendingLocked")
    \/ /\ unlock(Main, "pendingLocked", "top")
       /\ stops' = FALSE
       /\ drain' = IF stops /\ drain = "none" THEN "armed" ELSE drain
       /\ job' = [j \in Jobs |-> IF job[j] = "result" THEN "done" ELSE job[j]]
       /\ UNCHANGED <<globals, quit, stop, runs>>

drainExpires ==
    /\ drain = "armed" /\ drain' = "due"
    /\ UNCHANGED <<at, handler, mtx, globals, stops, quit, poolVars, stop, signals>>

(* The tracer's flag: its drain job is with the pool.  enqueue resets it   *)
(* when the pool refuses the job.                                          *)
\* Mutant: the refusal leaves it set.
draining_Stays ==
    \E j \in Jobs : Uses[j] = "spans" /\ job[j] \in {"queued", "running", "refused"}

draining ==
    \E j \in Jobs : Uses[j] = "spans" /\ job[j] \in {"queued", "running"}

(* ~Gateway down to ~OtlpHttpJsonTracer, which waits for its drain job ... *)
destroyTracer ==
    /\ \/ goes(Main, "left", "tracer")
       \/ ~draining /\ goes(Main, "tracer", "members")
    /\ UNCHANGED <<mtx, mainVars, stops, poolVars>>

(* ... the members between it and workers_, then ~ThreadPool.              *)
destroyMembers ==
    /\ goes(Main, "members", "pool")
    /\ stop' = TRUE
    /\ UNCHANGED <<mtx, globals, stops, drain, quit, poolVars>>

(* The workers are joined; then ~EventLoop, with what is in pending_.      *)
join ==
    /\ \A w \in Workers : at[w] = "exited"
    /\ goes(Main, "pool", "after")
    /\ UNCHANGED <<mtx, mainVars, stops, poolVars>>

mainStep ==
    \/ start \/ loopEnds \/ poll \/ events \/ doPending
    \/ destroyTracer \/ destroyMembers \/ join
-----------------------------------------------------------------------------
(* A worker.                                                               *)
take(w) ==
    /\ \E j \in Jobs : /\ job[j] = "queued"
                       /\ job' = [job EXCEPT ![j] = "running"]
                       /\ runs' = [runs EXCEPT ![w] = j]
    /\ goes(w, "idle", "running")
    /\ UNCHANGED <<mtx, mainVars, stops>>

(* Jobs without a result end; the result of an upstream call is queued to  *)
(* the loop.                                                               *)
finish(w) ==
    \/ /\ goes(w, "running", "idle")
       /\ Uses[runs[w]] # "upstream"
       /\ job' = [job EXCEPT ![runs[w]] = "done"]
       /\ runs' = [runs EXCEPT ![w] = Nobody]
       /\ UNCHANGED <<mtx, mainVars, stops>>
    \/ /\ lock(w, "running", "locked")
       /\ Uses[runs[w]] = "upstream"
    \/ /\ unlock(w, "locked", "write")
       /\ job' = [job EXCEPT ![runs[w]] = "result"]
       /\ UNCHANGED <<mainVars, stops, runs>>
    \/ /\ goes(w, "write", "idle")
       /\ runs' = [runs EXCEPT ![w] = Nobody]
       /\ UNCHANGED <<mtx, mainVars, stops, job>>

\* Mutant: a stopped pool drops what is queued.
exit_Drops(w) ==
    /\ stop /\ goes(w, "idle", "exited")
    /\ UNCHANGED <<mtx, mainVars, stops, poolVars>>

exit(w) ==
    /\ stop /\ queued = {}
    /\ goes(w, "idle", "exited")
    /\ UNCHANGED <<mtx, mainVars, stops, poolVars>>

workerStep(w) == take(w) \/ finish(w) \/ exit(w)
-----------------------------------------------------------------------------
SInit ==
    /\ at = [t \in Threads |-> IF t = Main THEN "starting" ELSE "idle"]
    /\ handler = [t \in Threads |-> NoHandler]
    /\ mtx = Nobody /\ globals = TRUE
    /\ stops = FALSE /\ drain = "none" /\ quit = FALSE
    /\ job = [j \in Jobs |-> "new"] /\ runs = [w \in Workers |-> Nobody]
    /\ stop = FALSE /\ signals = 0

handlerStep(t) ==
    \E d \in Depths : onSig(t, d) \/ sigLock(t, d) \/ sigPush(t, d) \/ sigWrite(t, d)

SNext ==
    \/ \E t \in Threads : handlerStep(t) \/ \E d \in Depths : signal(t, d)
    \/ \E j \in Jobs : addJob(j)
    \/ \E w \in Workers : workerStep(w)
    \/ mainStep \/ drainExpires

(* Threads run, a mutex that is free again and again is got in the end,    *)
(* time passes; no signal need ever come and no job be added.              *)
SFairness ==
    /\ SF_svars(mainStep) /\ WF_svars(drainExpires)
    /\ \A w \in Workers : SF_svars(workerStep(w))
    /\ \A t \in Threads : SF_svars(handlerStep(t))

SSpec == SInit /\ [][SNext]_svars /\ SFairness
-----------------------------------------------------------------------------
(* The type invariant; mtx_ is held by the thread that is in one of its    *)
(* critical sections, or whose handler is, and by one at a time.           *)
STypeOK ==
    /\ at[Main] \in MainPlaces /\ \A w \in Workers : at[w] \in WorkerPlaces
    /\ handler \in [Threads -> [Depths -> HandlerPlaces]]
    /\ \A t \in Threads :
          mtx = t <=> at[t] \in Locked \/ \E d \in Depths : handler[t][d] = "locked"
    /\ globals \in BOOLEAN /\ stops \in BOOLEAN /\ quit \in BOOLEAN /\ stop \in BOOLEAN
    /\ drain \in {"none", "armed", "due"}
    /\ job \in [Jobs -> {"new", "queued", "running", "result", "done", "refused"}]
    /\ Cardinality(queued) <= maxQueue
    /\ runs \in [Workers -> Jobs \cup {Nobody}]
    /\ signals \in 0..MaxSignals

(* Every job the pool has accepted has run when the process ends: no audit *)
(* line or pending grant is lost to a stop.                                *)
AcceptedJobsRun ==
    at[Main] = "after" => \A j \in Jobs : job[j] \notin {"queued", "running"}

(* Nobody is still in queueInLoop when the loop is destroyed, no worker    *)
(* and no signal handler, whenever the handler looked at the globals.      *)
LoopOutlivesItsUsers ==
    at[Main] = "after" =>
        /\ \A w \in Workers : at[w] = "exited"
        /\ \A t \in Threads, d \in Depths : handler[t][d] \in {"no", "entered"}

(* A handler is about to queue the stop.                                   *)
Stopping == \E t \in Threads, d \in Depths : handler[t][d] = "lock"

(* The thread's own code holds mtx_, or the handler in which this one is   *)
(* nested, and it waits for it.                                            *)
SelfLocked(t) == mtx = t /\ \E d \in Depths : handler[t][d] = "lock"

(* A signal that finds a gateway ends the process, whatever thread it hits *)
(* and however many follow, unless one has hit a thread inside one of the  *)
(* loop's critical sections, maybe that of the other signal's handler:     *)
(* nothing else keeps the process from ending, not the tracer's wait, not  *)
(* the jobs still queued, not a second signal.                             *)
StopEndsOrSelfLocks ==
    Stopping ~> at[Main] = "after" \/ \E t \in Threads : SelfLocked(t)
-----------------------------------------------------------------------------
(* Claims of the documentation that the code does not keep.                *)

(* pipeline.md: a SIGINT leads to requestStop, and that to the loop's end. *)
StopEnds == Stopping ~> at[Main] = "after"

(* SPEC: when the drain times out the calls left are destroyed, that is,   *)
(* none outlives the pipeline that its destructor uses.                    *)
DrainEndsCalls ==
    at[Main] \in {"tracer", "members", "pool", "after"} =>
        \A j \in Jobs : Uses[j] = "upstream" => job[j] \in {"new", "done"}

(* A job's objects are there while it runs.                                *)
JobsUseLiveMembers ==
    at[Main] \in {"pool", "after"} =>
        \A j \in Jobs : job[j] \in {"queued", "running"} => Uses[j] = "nothing"
=============================================================================
