--------------------------- MODULE ShutdownProofs ---------------------------
(***************************************************************************)
(* The end of the process for any number of workers, jobs and signals: who *)
(* holds the loop's mutex, that no accepted job is lost, and that nobody   *)
(* is left in queueInLoop when the loop is destroyed.                      *)
(***************************************************************************)
EXTENDS Shutdown, FiniteSetTheorems, TLAPS

Ended == {"left", "tracer", "members", "pool", "after"}

TypeInv ==
    /\ at \in [Threads -> MainPlaces \cup WorkerPlaces]
    /\ at[Main] \in MainPlaces /\ \A w \in Workers : at[w] \in WorkerPlaces
    /\ handler \in [Threads -> [Depths -> HandlerPlaces]]
    /\ drain \in {"none", "armed", "due"}
    /\ job \in [Jobs -> {"new", "queued", "running", "result", "done", "refused"}]
    /\ runs \in [Workers -> Jobs \cup {Nobody}]
    /\ signals \in 0..MaxSignals

FlagsInv == globals \in BOOLEAN /\ stops \in BOOLEAN /\ quit \in BOOLEAN /\ stop \in BOOLEAN

(* A handler takes the mutex only on a thread that does not hold it, in    *)
(* its own code or in the other handler: the one that does waits for ever. *)
MutexInv ==
    /\ mtx \in Threads \cup {Nobody}
    /\ \A t \in Threads :
          mtx = t <=> at[t] \in Locked \/ \E d \in Depths : handler[t][d] = "locked"
    /\ \A t \in Threads, d \in Depths : handler[t][d] = "locked" =>
          at[t] \notin Locked /\ \A e \in Depths : handler[t][e] = "locked" => e = d

(* The globals are cleared when the loop ends, and a handler of the main   *)
(* thread that found them set has returned by then; the pool is stopped    *)
(* when its destructor runs.                                               *)
PhaseInv ==
    /\ globals <=> at[Main] \notin Ended
    /\ stop <=> at[Main] \in {"pool", "after"}
    /\ ~globals => \A d \in Depths : handler[Main][d] \in {"no", "entered"}

(* A worker leaves with no handler running on it and nothing queued, and   *)
(* a running job has a worker, one of its own.                             *)
PoolInv ==
    /\ \A w \in Workers : at[w] = "exited" => handler[w] = NoHandler /\ stop /\ queued = {}
    /\ \A w \in Workers : at[w] \in {"running", "locked"} =>
          /\ runs[w] \in Jobs /\ job[runs[w]] = "running"
          /\ \A v \in Workers : at[v] \in {"running", "locked"} /\ v # w => runs[v] # runs[w]
    /\ \A j \in Jobs : job[j] = "running" =>
          \E w \in Workers : runs[w] = j /\ at[w] \in {"running", "locked"}
    /\ at[Main] = "after" => \A w \in Workers : at[w] = "exited"

QueueInv == IsFiniteSet(queued) /\ Cardinality(queued) <= maxQueue

SInv == TypeInv /\ FlagsInv /\ MutexInv /\ PhaseInv /\ PoolInv /\ QueueInv
-----------------------------------------------------------------------------
(* A thread whose own code runs has no handler inside the mutex.           *)
LEMMA NoHandlerFacts ==
    NoHandler \in [Depths -> HandlerPlaces] /\ \A d \in Depths : NoHandler[d] = "no"
BY DEF NoHandler, HandlerPlaces

(* The steps of a handler change neither the place of a thread nor a job.  *)
LEMMA HandlerKeeps ==
    ASSUME SInv, NEW t \in Threads, NEW d \in Depths,
           \/ signal(t, d) \/ onSig(t, d) \/ sigLock(t, d) \/ sigPush(t, d) \/ sigWrite(t, d)
    PROVE  SInv'
<1> USE ShutdownAssumption DEF Threads
<1> DEFINE Step(from, to) ==
         /\ handles(t, d, from, to)
         /\ from = "no" => at[t] # "exited" /\ to = "entered"
         /\ from = "entered" => to = "no" \/ (to = "lock" /\ globals)
         /\ \/ from # "locked" /\ to # "locked" /\ mtx' = mtx
            \/ from = "lock" /\ to = "locked" /\ mtx = Nobody /\ mtx' = t
            \/ from = "locked" /\ to = "write" /\ mtx' = Nobody
         /\ stops' \in {stops, TRUE} /\ signals' \in 0..MaxSignals
<1>0. PICK from \in HandlerPlaces, to \in HandlerPlaces : Step(from, to)
  <2>0. signals \in 0..MaxSignals BY DEF SInv, TypeInv
  <2>1. CASE signal(t, d)
    <3>1. Step("no", "entered") BY <2>0, <2>1 DEF signal
    <3> QED BY <3>1 DEF HandlerPlaces
  <2>2. CASE onSig(t, d)
    <3>1. Step("entered", "lock") \/ Step("entered", "no") BY <2>0, <2>2 DEF onSig
    <3> QED BY <3>1 DEF HandlerPlaces
  <2>3. CASE sigLock(t, d)
    <3>1. Step("lock", "locked") BY <2>0, <2>3 DEF sigLock
    <3> QED BY <3>1 DEF HandlerPlaces
  <2>4. CASE sigPush(t, d)
    <3>1. Step("locked", "write") BY <2>0, <2>4 DEF sigPush
    <3> QED BY <3>1 DEF HandlerPlaces
  <2>5. CASE sigWrite(t, d)
    <3>1. Step("write", "no") BY <2>0, <2>5 DEF sigWrite
    <3> QED BY <3>1 DEF HandlerPlaces
  <2> QED BY <2>1, <2>2, <2>3, <2>4, <2>5
<1>h. /\ handler \in [Threads -> [Depths -> HandlerPlaces]] /\ handler[t][d] = from
      /\ handler' = [handler EXCEPT ![t] = [@ EXCEPT ![d] = to]]
      /\ UNCHANGED <<at, globals, drain, quit, stop, job, runs>>
  BY <1>0 DEF SInv, TypeInv, handles, mainVars, poolVars
<1>e. /\ handler' \in [Threads -> [Depths -> HandlerPlaces]] /\ handler'[t][d] = to
      /\ \A e \in Depths : e # d => handler'[t][e] = handler[t][e]
      /\ \A u \in Threads : u # t => handler'[u] = handler[u]
  BY <1>0, <1>h
<1>1. TypeInv' BY <1>0, <1>h, <1>e DEF SInv, TypeInv
<1>7. FlagsInv' BY <1>0, <1>h DEF SInv, FlagsInv
<1>2. MutexInv'
  <2>0. MutexInv /\ t # Nobody BY DEF SInv
  <2>1. CASE from # "locked" /\ to # "locked" /\ mtx' = mtx
    BY <1>h, <1>e, <2>0, <2>1 DEF MutexInv
  <2>2. CASE from = "lock" /\ to = "locked" /\ mtx = Nobody /\ mtx' = t
    BY <1>h, <1>e, <2>0, <2>2 DEF MutexInv
  <2>3. CASE from = "locked" /\ to = "write" /\ mtx' = Nobody
    BY <1>h, <1>e, <2>0, <2>3 DEF MutexInv
  <2> QED BY <1>0, <2>1, <2>2, <2>3
<1>3. PhaseInv'
  <2>1. SUFFICES ASSUME ~globals, NEW e \in Depths PROVE handler'[Main][e] \in {"no", "entered"}
    BY <1>h DEF SInv, PhaseInv
  <2>2. handler[Main][e] \in {"no", "entered"} BY <2>1 DEF SInv, PhaseInv
  <2>3. CASE t = Main /\ e = d
    <3>1. from \in {"no", "entered"} BY <1>h, <2>2, <2>3
    <3> QED BY <1>0, <1>e, <2>1, <2>3, <3>1 DEF HandlerPlaces
  <2> QED BY <1>e, <2>2, <2>3
<1>4. queued' = queued BY <1>h DEF queued
<1>5. PoolInv'
  <2>1. ASSUME NEW w \in Workers, at'[w] = "exited" PROVE handler'[w] = NoHandler
    <3>1. handler[w] = NoHandler BY <1>h, <2>1 DEF SInv, PoolInv
    <3>2. w # t BY <1>0, <1>h, <2>1, <3>1, NoHandlerFacts
    <3> QED BY <1>e, <3>1, <3>2
  <2> QED BY <1>4, <1>h, <2>1 DEF SInv, PoolInv
<1>6. QueueInv' BY <1>4 DEF SInv, QueueInv
<1> QED BY <1>1, <1>2, <1>3, <1>5, <1>6, <1>7 DEF SInv

(* The main thread up to the end of the loop.                              *)
LEMMA LoopKeeps ==
    ASSUME SInv, start \/ loopEnds \/ poll \/ events
    PROVE  SInv'
<1> USE ShutdownAssumption DEF Threads
<1>1. TypeInv'
  BY DEF SInv, TypeInv, MainPlaces, WorkerPlaces, start, loopEnds, poll, events,
         goes, lock, unlock, mainVars, poolVars
<1>2. FlagsInv'
  BY DEF SInv, FlagsInv, start, loopEnds, poll, events, goes, lock, unlock, mainVars, poolVars
<1>3. MutexInv'
  BY NoHandlerFacts DEF SInv, TypeInv, MutexInv, Locked, start, loopEnds, poll, events,
         goes, lock, unlock, mainVars, poolVars
<1>4. PhaseInv'
  BY NoHandlerFacts DEF SInv, TypeInv, PhaseInv, Ended, start, loopEnds, poll, events,
         goes, lock, unlock, mainVars, poolVars
<1>5. queued' = queued
  BY DEF queued, start, loopEnds, poll, events, goes, lock, unlock, mainVars, poolVars
<1>6. PoolInv'
  BY <1>5 DEF SInv, TypeInv, PoolInv, start, loopEnds, poll, events,
         goes, lock, unlock, mainVars, poolVars
<1>7. QueueInv' BY <1>5 DEF SInv, QueueInv
<1> QED BY <1>1, <1>2, <1>3, <1>4, <1>6, <1>7 DEF SInv

(* The destructors.                                                        *)
LEMMA DestructorsKeep ==
    ASSUME SInv, destroyTracer \/ destroyMembers \/ join
    PROVE  SInv'
<1> USE ShutdownAssumption DEF Threads
<1>1. TypeInv'
  BY DEF SInv, TypeInv, MainPlaces, WorkerPlaces, destroyTracer, destroyMembers, join,
         goes, mainVars, poolVars
<1>2. FlagsInv'
  BY DEF SInv, FlagsInv, destroyTracer, destroyMembers, join, goes, mainVars, poolVars
<1>3. MutexInv'
  BY NoHandlerFacts DEF SInv, TypeInv, MutexInv, Locked, destroyTracer, destroyMembers, join,
         goes, mainVars, poolVars
<1>4. PhaseInv'
  BY NoHandlerFacts DEF SInv, TypeInv, PhaseInv, Ended, destroyTracer, destroyMembers, join,
         goes, mainVars, poolVars
<1>5. queued' = queued
  BY DEF queued, destroyTracer, destroyMembers, join, goes, mainVars, poolVars
<1>6. PoolInv'
  BY <1>5 DEF SInv, TypeInv, PhaseInv, PoolInv, destroyTracer, destroyMembers, join,
         goes, mainVars, poolVars
<1>7. QueueInv' BY <1>5 DEF SInv, QueueInv
<1> QED BY <1>1, <1>2, <1>3, <1>4, <1>6, <1>7 DEF SInv

(* doPending delivers results; the jobs with the pool stay as they are.    *)
LEMMA PendingKeeps ==
    ASSUME SInv, doPending
    PROVE  SInv'
<1> USE ShutdownAssumption DEF Threads
<1>1. TypeInv'
  BY DEF SInv, TypeInv, MainPlaces, WorkerPlaces, doPending, goes, lock, unlock,
         mainVars, poolVars
<1>2. FlagsInv'
  BY DEF SInv, FlagsInv, doPending, goes, lock, unlock, mainVars, poolVars
<1>3. MutexInv'
  BY NoHandlerFacts DEF SInv, TypeInv, MutexInv, Locked, doPending,
         goes, lock, unlock, mainVars, poolVars
<1>4. PhaseInv'
  BY NoHandlerFacts DEF SInv, TypeInv, PhaseInv, Ended, doPending,
         goes, lock, unlock, mainVars, poolVars
<1>5. ASSUME NEW j \in Jobs
      PROVE  job'[j] = job[j] \/ (job[j] = "result" /\ job'[j] = "done")
  <2>1. CASE job' = job BY <2>1
  <2>2. CASE job' = [k \in Jobs |-> IF job[k] = "result" THEN "done" ELSE job[k]] BY <2>2
  <2> QED BY <2>1, <2>2 DEF doPending, lock, poolVars
<1>6. queued' = queued BY <1>5 DEF queued
<1>7. PoolInv'
  BY <1>5, <1>6 DEF SInv, TypeInv, PoolInv, doPending, goes, lock, unlock, mainVars, poolVars
<1>8. QueueInv' BY <1>6 DEF SInv, QueueInv
<1> QED BY <1>1, <1>2, <1>3, <1>4, <1>7, <1>8 DEF SInv

LEMMA AddJobKeeps ==
    ASSUME SInv, NEW j \in Jobs, addJob(j)
    PROVE  SInv'
<1> USE ShutdownAssumption DEF Threads
<1>1. TypeInv' /\ MutexInv'
  BY DEF SInv, TypeInv, MutexInv, addJob, mainVars
<1>2. FlagsInv' BY DEF SInv, FlagsInv, addJob, mainVars
<1>3. PhaseInv' BY DEF SInv, PhaseInv, addJob, mainVars
<1>4. stop = FALSE /\ stop' = stop /\ at' = at BY DEF SInv, PhaseInv, FlagsInv, addJob, mainVars
<1>5. PoolInv' BY <1>4 DEF SInv, TypeInv, PoolInv, addJob, mainVars
<1>6. QueueInv'
  <2>1. j \notin queued BY DEF addJob, queued
  <2>2. CASE Cardinality(queued) < maxQueue
    <3>1. queued' = queued \cup {j} BY <2>2 DEF addJob, queued, SInv, TypeInv
    <3>2. /\ IsFiniteSet(queued \cup {j})
          /\ Cardinality(queued \cup {j}) = Cardinality(queued) + 1
      BY <2>1, FS_AddElement DEF SInv, QueueInv
    <3>3. Cardinality(queued) \in Nat BY FS_CardinalityType DEF SInv, QueueInv
    <3> QED BY <2>2, <3>1, <3>2, <3>3 DEF QueueInv
  <2>3. CASE ~(Cardinality(queued) < maxQueue)
    <3>1. queued' = queued BY <2>1, <2>3 DEF addJob, queued, SInv, TypeInv
    <3> QED BY <3>1 DEF SInv, QueueInv
  <2> QED BY <2>2, <2>3
<1> QED BY <1>1, <1>2, <1>3, <1>5, <1>6 DEF SInv

(* A worker takes a job, ...                                               *)
LEMMA TakeKeeps ==
    ASSUME SInv, NEW w \in Workers, take(w)
    PROVE  SInv'
<1> USE ShutdownAssumption DEF Threads
<1>1. PICK j \in Jobs : /\ job[j] = "queued"
                        /\ job' = [job EXCEPT ![j] = "running"]
                        /\ runs' = [runs EXCEPT ![w] = j]
  BY DEF take
<1>2. /\ at[w] = "idle" /\ at' = [at EXCEPT ![w] = "running"]
      /\ UNCHANGED <<handler, signals, mtx, globals, drain, quit, stop, stops>>
  BY DEF take, goes, mainVars
<1>3. TypeInv' /\ FlagsInv'
  BY <1>1, <1>2 DEF SInv, TypeInv, FlagsInv, WorkerPlaces
<1>4. MutexInv' BY <1>2, NoHandlerFacts DEF SInv, TypeInv, MutexInv, Locked
<1>5. PhaseInv' BY <1>2 DEF SInv, TypeInv, PhaseInv
<1>6. queued' = queued \ {j} BY <1>1 DEF queued, SInv, TypeInv
<1>7. PoolInv' BY <1>1, <1>2, <1>6 DEF SInv, TypeInv, PoolInv, queued
<1>8. QueueInv'
  <2>1. IsFiniteSet(queued \ {j}) /\ Cardinality(queued \ {j}) <= Cardinality(queued)
    BY FS_Subset DEF SInv, QueueInv
  <2>2. Cardinality(queued) \in Nat /\ Cardinality(queued \ {j}) \in Nat
    BY <2>1, FS_CardinalityType DEF SInv, QueueInv
  <2> QED BY <1>6, <2>1, <2>2 DEF SInv, QueueInv
<1> QED BY <1>3, <1>4, <1>5, <1>7, <1>8 DEF SInv

(* ... ends it, ...                                                        *)
LEMMA FinishKeeps ==
    ASSUME SInv, NEW w \in Workers, finish(w)
    PROVE  SInv'
<1> USE ShutdownAssumption DEF Threads
<1>1. /\ at[w] \in {"running", "locked", "write"} /\ at'[w] \in WorkerPlaces
      /\ \A t \in Threads : t # w => at'[t] = at[t]
      /\ UNCHANGED <<handler, signals, globals, drain, quit, stop, stops>>
  BY DEF finish, goes, lock, unlock, mainVars, SInv, TypeInv, WorkerPlaces
<1>2. TypeInv'
  <2>1. /\ at' \in [Threads -> MainPlaces \cup WorkerPlaces]
        /\ at'[Main] \in MainPlaces /\ \A v \in Workers : at'[v] \in WorkerPlaces
    BY DEF SInv, TypeInv, WorkerPlaces, finish, goes, lock, unlock
  <2>2. /\ job' \in [Jobs -> {"new", "queued", "running", "result", "done", "refused"}]
        /\ runs' \in [Workers -> Jobs \cup {Nobody}]
    BY DEF SInv, TypeInv, PoolInv, finish, goes, lock, unlock, poolVars
  <2> QED BY <1>1, <2>1, <2>2 DEF SInv, TypeInv
<1>3. FlagsInv' BY <1>1 DEF SInv, FlagsInv
<1>4. MutexInv'
  BY NoHandlerFacts DEF SInv, TypeInv, MutexInv, Locked, finish,
         goes, lock, unlock, mainVars, poolVars
<1>5. PhaseInv' BY <1>1 DEF SInv, PhaseInv
<1>6. \A j \in Jobs : /\ job'[j] = "queued" <=> job[j] = "queued"
                      /\ job'[j] = "running" => job[j] = "running"
  BY DEF SInv, TypeInv, PoolInv, finish, goes, lock, unlock, mainVars, poolVars
<1>7. queued' = queued BY <1>6 DEF queued
<1>8. PoolInv'
  BY <1>1, <1>6, <1>7 DEF SInv, TypeInv, PoolInv, finish, goes, lock, unlock, mainVars, poolVars
<1>9. QueueInv' BY <1>7 DEF SInv, QueueInv
<1> QED BY <1>2, <1>3, <1>4, <1>5, <1>8, <1>9 DEF SInv

(* ... and leaves.                                                         *)
LEMMA ExitKeeps ==
    ASSUME SInv, NEW w \in Workers, exit(w)
    PROVE  SInv'
<1> USE ShutdownAssumption DEF Threads
<1>1. TypeInv' BY DEF SInv, TypeInv, WorkerPlaces, exit, goes, mainVars, poolVars
<1>2. FlagsInv' BY DEF SInv, FlagsInv, exit, goes, mainVars, poolVars
<1>3. MutexInv' BY NoHandlerFacts DEF SInv, TypeInv, MutexInv, Locked, exit,
         goes, mainVars, poolVars
<1>4. PhaseInv' BY DEF SInv, TypeInv, PhaseInv, exit, goes, mainVars, poolVars
<1>5. queued' = queued BY DEF queued, exit, goes, mainVars, poolVars
<1>6. PoolInv' BY <1>5 DEF SInv, TypeInv, PoolInv, exit, goes, mainVars, poolVars
<1>7. QueueInv' BY <1>5 DEF SInv, QueueInv
<1> QED BY <1>1, <1>2, <1>3, <1>4, <1>6, <1>7 DEF SInv

LEMMA InvInit == SInit => SInv
<1> SUFFICES ASSUME SInit PROVE SInv OBVIOUS
<1> USE ShutdownAssumption, NoHandlerFacts DEF Threads, SInit
<1>1. TypeInv BY DEF TypeInv, MainPlaces, WorkerPlaces, HandlerPlaces
<1>2. FlagsInv BY DEF FlagsInv
<1>3. MutexInv BY DEF MutexInv, Locked
<1>4. PhaseInv BY DEF PhaseInv, Ended
<1>5. queued = {} BY DEF queued
<1>6. PoolInv BY DEF PoolInv
<1>7. QueueInv BY <1>5, FS_EmptySet DEF QueueInv
<1> QED BY <1>1, <1>2, <1>3, <1>4, <1>6, <1>7 DEF SInv

(* Who holds the loop's mutex, what has ended in each phase of the stop    *)
(* and which job each worker has stay consistent.                          *)
THEOREM InvHolds == SInit /\ [][SNext]_svars => []SInv
<1>1. ASSUME SInv, drainExpires PROVE SInv'
  <2>1. queued' = queued BY <1>1 DEF drainExpires, queued, poolVars
  <2>2. TypeInv' /\ MutexInv' BY <1>1 DEF SInv, TypeInv, MutexInv, drainExpires, poolVars
  <2>3. FlagsInv' BY <1>1 DEF SInv, FlagsInv, drainExpires
  <2>4. PhaseInv' BY <1>1 DEF SInv, PhaseInv, drainExpires
  <2>5. PoolInv' BY <1>1, <2>1 DEF SInv, PoolInv, drainExpires, poolVars
  <2> QED BY <1>1, <2>1, <2>2, <2>3, <2>4, <2>5 DEF SInv, QueueInv
<1>2. SInv /\ SNext => SInv'
  BY <1>1, HandlerKeeps, LoopKeeps, DestructorsKeep, PendingKeeps, AddJobKeeps, TakeKeeps,
     FinishKeeps, ExitKeeps DEF SNext, mainStep, workerStep, handlerStep
<1>3. SInv /\ UNCHANGED svars => SInv'
  BY DEF SInv, TypeInv, FlagsInv, MutexInv, PhaseInv, PoolInv, QueueInv, queued, svars
<1> QED BY <1>2, <1>3, InvInit, PTL
-----------------------------------------------------------------------------
(* The mutex of the loop is held by at most one thread, by its own code or *)
(* by a handler on it, and the pool's queue keeps within its capacity.     *)
THEOREM TypesHold == SSpec => []STypeOK
<1>1. SInv => STypeOK
  BY DEF SInv, TypeInv, FlagsInv, MutexInv, QueueInv, STypeOK, HandlerPlaces
<1> QED BY <1>1, InvHolds, PTL DEF SSpec

(* No stop loses a job the pool has accepted, whatever the number of       *)
(* workers and wherever the signals arrive.                                *)
THEOREM StopLosesNoJob == SSpec => []AcceptedJobsRun
<1>1. SInv => AcceptedJobsRun
  BY ShutdownAssumption DEF SInv, PoolInv, AcceptedJobsRun, queued, Threads
<1> QED BY <1>1, InvHolds, PTL DEF SSpec

(* The loop is destroyed after the last use of it by a worker or a signal  *)
(* handler.                                                                *)
THEOREM LoopDestroyedLast == SSpec => []LoopOutlivesItsUsers
<1>1. SInv => LoopOutlivesItsUsers
  BY NoHandlerFacts DEF SInv, PhaseInv, PoolInv, LoopOutlivesItsUsers, Ended, Threads
<1> QED BY <1>1, InvHolds, PTL DEF SSpec
=============================================================================
