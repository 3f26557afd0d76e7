----------------------------- MODULE OtlpTracer -----------------------------
(***************************************************************************)
(* observe/OtlpHttpJsonTracer on the worker pool (netlib/ThreadPool).      *)
(*                                                                         *)
(* The loop thread puts the span of a finished call into a bounded queue   *)
(* and, unless a drain job is under way, adds one to the pool; it decides  *)
(* so under the tracer's mutex and adds the job after letting go of it.    *)
(* The drain job posts spans until the queue is empty.  The pool is shared *)
(* with the rest of the gateway and has a bounded queue of its own.  When  *)
(* the gateway is destroyed the loop has ended, the tracer's destructor    *)
(* waits for the drain job, and the pool's joins the workers later.        *)
(***************************************************************************)
EXTENDS Naturals, Sequences, FiniteSets

CONSTANTS Spans,            \* the spans of finished calls
          Workers,          \* the pool's threads
          QueueMax,         \* otel.queue_max
          PoolMax,          \* worker_queue_max
          OtherJobs         \* bound on the jobs the rest of the gateway adds

ASSUME TracerAssumption ==
    /\ IsFiniteSet(Spans) /\ Spans \cap {"idle", "drain", "other"} = {}
    /\ QueueMax \in Nat \ {0}
    /\ PoolMax \in Nat \ {0} /\ OtherJobs \in Nat

VARIABLES
    q,           \* q_
    draining,    \* draining_
    closed,      \* closed_
    dropped,     \* the otlp_dropped counter
    kick,        \* enqueue is between its two locked sections, about to add a job
    dtor,        \* "no", "waits", "done": the destructor
    tasks,       \* ThreadPool::tasks_
    doing,       \* what each worker does: "idle", "other", "drain" or a span it posts
    ended,       \* spans given to enqueue
    posted,      \* spans posted
    others       \* jobs the rest of the gateway has added

tracerVars == <<q, draining, closed, dropped>>
poolVars == <<tasks, doing, others>>
tvars == <<q, draining, closed, dropped, kick, dtor, tasks, doing, ended, posted, others>>

Elements(s) == {s[i] : i \in DOMAIN s}
Jobs == {"drain", "other"}
-----------------------------------------------------------------------------
(* enqueue, on the loop thread.                                            *)
full == Len(tasks) >= PoolMax

enqueueDrop(s) ==
    /\ dtor = "no" /\ ~kick /\ s \notin ended
    /\ Len(q) >= QueueMax
    /\ dropped' = dropped + 1
    /\ ended' = ended \cup {s}
    /\ UNCHANGED <<q, draining, closed, kick, dtor, poolVars, posted>>

\* Mutant: every span asks for a drain job.
enqueue_KicksAlways(s) ==
    /\ dtor = "no" /\ ~kick /\ s \notin ended
    /\ Len(q) < QueueMax
    /\ q' = Append(q, s)
    /\ draining' = TRUE
    /\ kick' = TRUE
    /\ ended' = ended \cup {s}
    /\ UNCHANGED <<closed, dropped, dtor, poolVars, posted>>

enqueue(s) ==
    /\ dtor = "no" /\ ~kick /\ s \notin ended
    /\ Len(q) < QueueMax
    /\ q' = Append(q, s)
    /\ draining' = TRUE
    /\ kick' = ~draining
    /\ ended' = ended \cup {s}
    /\ UNCHANGED <<closed, dropped, dtor, poolVars, posted>>

kickAdds ==
    /\ kick /\ ~full
    /\ tasks' = Append(tasks, "drain")
    /\ kick' = FALSE
    /\ UNCHANGED <<tracerVars, dtor, doing, ended, posted, others>>

\* Mutant: the failure to add the job leaves draining_ set.
kickFails_KeepsDraining ==
    /\ kick /\ full
    /\ dropped' = dropped + 1
    /\ kick' = FALSE
    /\ UNCHANGED <<q, draining, closed, dtor, poolVars, ended, posted>>

kickFails ==
    /\ kick /\ full
    /\ draining' = FALSE
    /\ dropped' = dropped + 1
    /\ kick' = FALSE
    /\ UNCHANGED <<q, closed, dtor, poolVars, ended, posted>>
-----------------------------------------------------------------------------
(* The pool.                                                               *)
otherAdds ==
    /\ dtor = "no" /\ ~kick
    /\ others < OtherJobs /\ ~full
    /\ others' = others + 1
    /\ tasks' = Append(tasks, "other")
    /\ UNCHANGED <<tracerVars, kick, dtor, doing, ended, posted>>

take(w) ==
    /\ doing[w] = "idle" /\ tasks # <<>>
    /\ doing' = [doing EXCEPT ![w] = Head(tasks)]
    /\ tasks' = Tail(tasks)
    /\ UNCHANGED <<tracerVars, kick, dtor, ended, posted, others>>

otherEnds(w) ==
    /\ doing[w] = "other"
    /\ doing' = [doing EXCEPT ![w] = "idle"]
    /\ UNCHANGED <<tracerVars, kick, dtor, tasks, ended, posted, others>>
-----------------------------------------------------------------------------
(* drain, on a worker.                                                     *)
drainPops(w) ==
    /\ doing[w] = "drain" /\ ~closed /\ q # <<>>
    /\ doing' = [doing EXCEPT ![w] = Head(q)]
    /\ q' = Tail(q)
    /\ UNCHANGED <<draining, closed, dropped, kick, dtor, tasks, ended, posted, others>>

(* The span is posted, unless the unlocked read of closed_ says so.        *)
postOne(w) ==
    /\ doing[w] \in Spans
    /\ doing' = [doing EXCEPT ![w] = "drain"]
    /\ \/ posted' = posted \cup {doing[w]}
       \/ closed /\ UNCHANGED posted
    /\ UNCHANGED <<tracerVars, kick, dtor, tasks, ended, others>>

drainEnds(w) ==
    /\ doing[w] = "drain" /\ (closed \/ q = <<>>)
    /\ draining' = FALSE
    /\ doing' = [doing EXCEPT ![w] = "idle"]
    /\ UNCHANGED <<q, closed, dropped, kick, dtor, tasks, ended, posted, others>>
-----------------------------------------------------------------------------
(* The destructor, on the main thread once the loop has ended.             *)
destroy ==
    /\ dtor = "no" /\ ~kick
    /\ closed' = TRUE
    /\ q' = <<>>
    /\ dtor' = "waits"
    /\ UNCHANGED <<draining, dropped, kick, poolVars, ended, posted>>

\* Mutant: the destructor does not wait for the drain job.
destroyed_AtOnce ==
    /\ dtor = "waits"
    /\ dtor' = "done"
    /\ UNCHANGED <<tracerVars, kick, poolVars, ended, posted>>

destroyed ==
    /\ dtor = "waits" /\ ~draining
    /\ dtor' = "done"
    /\ UNCHANGED <<tracerVars, kick, poolVars, ended, posted>>
-----------------------------------------------------------------------------
TInit ==
    /\ q = <<>> /\ draining = FALSE /\ closed = FALSE /\ dropped = 0
    /\ kick = FALSE /\ dtor = "no"
    /\ tasks = <<>> /\ doing = [w \in Workers |-> "idle"]
    /\ ended = {} /\ posted = {} /\ others = 0

WorkerStep(w) == take(w) \/ otherEnds(w) \/ drainPops(w) \/ postOne(w) \/ drainEnds(w)

TNext ==
    \/ \E s \in Spans : enqueueDrop(s) \/ enqueue(s)
    \/ kickAdds \/ kickFails \/ otherAdds
    \/ \E w \in Workers : WorkerStep(w)
    \/ destroy \/ destroyed

(* Workers run and a post ends by its timeout; the loop thread finishes    *)
(* the handler it is in; the destructor polls until it may return.         *)
TFairness ==
    /\ \A w \in Workers : WF_tvars(WorkerStep(w))
    /\ WF_tvars(kickAdds \/ kickFails)
    /\ WF_tvars(destroyed)

TSpec == TInit /\ [][TNext]_tvars /\ TFairness

(* The same while calls keep ending: the wedge is not for want of spans.   *)
BusySpec == TSpec /\ WF_tvars(\E s \in Spans : enqueueDrop(s) \/ enqueue(s))
-----------------------------------------------------------------------------
(* The type invariant of the tracer and the pool, with the bounds of the   *)
(* two queues.                                                             *)
TTypeOK ==
    /\ q \in Seq(Spans) /\ Len(q) <= QueueMax
    /\ draining \in BOOLEAN /\ closed \in BOOLEAN /\ kick \in BOOLEAN
    /\ dropped \in 0..Cardinality(ended)
    /\ dtor \in {"no", "waits", "done"}
    /\ tasks \in Seq(Jobs) /\ Len(tasks) <= PoolMax
    /\ doing \in [Workers -> {"idle"} \cup Jobs \cup Spans]
    /\ ended \subseteq Spans /\ posted \subseteq ended
    /\ others \in 0..OtherJobs

DrainJobs == {i \in DOMAIN tasks : tasks[i] = "drain"}
Drainers == {w \in Workers : doing[w] \in Spans \cup {"drain"}}

(* draining_ says exactly whether a drain job is being added, waits in the *)
(* pool or runs, and there is never more than one: spans are posted one at *)
(* a time and in order, although the flag and the job are set apart.       *)
OneDrainJob ==
    Cardinality(DrainJobs) + Cardinality(Drainers) + (IF kick THEN 1 ELSE 0)
        = IF draining THEN 1 ELSE 0

(* No drain job is left, waiting or running, once the destructor returns.  *)
NoDrainAfterDtor == dtor = "done" => DrainJobs = {} /\ Drainers = {}

(* The destructor returns.                                                 *)
DtorReturns == dtor = "waits" ~> dtor = "done"

(* SPEC: spans are queued and a worker posts them; a full queue drops.  So *)
(* a full queue does not stay full.                                        *)
FullQueueDrains == Len(q) = QueueMax ~> Len(q) < QueueMax

(* SPEC: otlp_dropped counts the spans dropped, so a span counted there is *)
(* neither waiting nor posted.                                             *)
DroppedAreGone ==
    dropped + Len(q) + Cardinality(posted) <= Cardinality(ended)
=============================================================================
