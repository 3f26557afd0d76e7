---------------------------- MODULE TracerProofs ----------------------------
(***************************************************************************)
(* The tracer's flag and its drain job, for any number of spans and        *)
(* workers and any queue bounds.                                           *)
(***************************************************************************)
EXTENDS OtlpTracer, FiniteSetTheorems, SequenceTheorems, TLAPS

TypeInv ==
    /\ q \in Seq(Spans) /\ Len(q) <= QueueMax
    /\ draining \in BOOLEAN /\ closed \in BOOLEAN /\ kick \in BOOLEAN
    /\ dtor \in {"no", "waits", "done"}
    /\ tasks \in Seq(Jobs) /\ Len(tasks) <= PoolMax
    /\ doing \in [Workers -> {"idle"} \cup Jobs \cup Spans]
    /\ others \in 0..OtherJobs

(* The span for which a job is about to be added has not been counted.     *)
CountInv == dropped \in Nat /\ dropped + (IF kick THEN 1 ELSE 0) <= Cardinality(ended)

(* Only spans that have ended are queued and posted.                       *)
SpanInv ==
    /\ ended \subseteq Spans /\ posted \subseteq ended
    /\ \A i \in DOMAIN q : q[i] \in ended
    /\ \A w \in Workers : doing[w] \in Spans => doing[w] \in ended

(* OneDrainJob without counting: where the one drain job is.               *)
DrainInv ==
    \/ ~draining /\ ~kick /\ DrainJobs = {} /\ Drainers = {}
    \/ draining /\ kick /\ DrainJobs = {} /\ Drainers = {}
    \/ draining /\ ~kick /\ (\E i : DrainJobs = {i}) /\ Drainers = {}
    \/ draining /\ ~kick /\ DrainJobs = {} /\ \E w : Drainers = {w}

DtorInv == dtor = "done" => ~draining

TInv == TypeInv /\ CountInv /\ SpanInv /\ DrainInv /\ DtorInv
-----------------------------------------------------------------------------
LEMMA EndedFinite == SpanInv => IsFiniteSet(ended) /\ Cardinality(ended) \in Nat
BY TracerAssumption, FS_Subset, FS_CardinalityType DEF SpanInv

LEMMA OneMoreEnded ==
    ASSUME SpanInv, NEW s \in Spans \ ended
    PROVE  Cardinality(ended \cup {s}) = Cardinality(ended) + 1
BY EndedFinite, FS_AddElement

(* How the places of the drain job move with the queue of the pool.        *)
LEMMA JobsAppend ==
    ASSUME TypeInv, NEW j \in Jobs, tasks' = Append(tasks, j)
    PROVE  DrainJobs' = IF j = "drain" THEN DrainJobs \cup {Len(tasks) + 1} ELSE DrainJobs
<1>1. /\ tasks' \in Seq(Jobs) /\ Len(tasks') = Len(tasks) + 1 /\ Len(tasks) \in Nat
      /\ \A i \in 1..Len(tasks) : tasks'[i] = tasks[i]
      /\ tasks'[Len(tasks) + 1] = j
  BY AppendProperties DEF TypeInv
<1>2. DOMAIN tasks = 1..Len(tasks) /\ DOMAIN tasks' = 1..(Len(tasks) + 1)
  BY <1>1 DEF TypeInv
<1> QED BY <1>1, <1>2 DEF DrainJobs

LEMMA JobsTail ==
    ASSUME TypeInv, tasks # <<>>, tasks' = Tail(tasks)
    PROVE  /\ DrainJobs' = {i - 1 : i \in DrainJobs \ {1}}
           /\ 1 \in DrainJobs <=> Head(tasks) = "drain"
           /\ DrainJobs \subseteq Nat
<1>1. /\ tasks' \in Seq(Jobs) /\ Len(tasks') = Len(tasks) - 1
      /\ \A i \in 1..Len(tasks') : tasks'[i] = tasks[i + 1]
  BY HeadTailProperties DEF TypeInv
<1>2. DOMAIN tasks = 1..Len(tasks) /\ DOMAIN tasks' = 1..(Len(tasks) - 1) /\ Len(tasks) \in Nat \ {0}
  BY <1>1, EmptySeq DEF TypeInv
<1>3. Head(tasks) = tasks[1] BY DEF TypeInv
<1>4. ASSUME NEW i PROVE i \in DrainJobs' <=> i \in {k - 1 : k \in DrainJobs \ {1}}
  <2>1. ASSUME i \in DrainJobs' PROVE i + 1 \in DrainJobs \ {1} /\ i = (i + 1) - 1
    BY <1>1, <1>2, <2>1 DEF DrainJobs
  <2>2. ASSUME NEW k \in DrainJobs \ {1}, i = k - 1 PROVE i \in DrainJobs'
    BY <1>1, <1>2, <2>2 DEF DrainJobs
  <2> QED BY <2>1, <2>2
<1> QED BY <1>2, <1>3, <1>4 DEF DrainJobs
-----------------------------------------------------------------------------
LEMMA TInvInit == TInit => TInv
<1> SUFFICES ASSUME TInit PROVE TInv OBVIOUS
<1>1. DrainJobs = {} /\ Drainers = {} BY TracerAssumption DEF TInit, DrainJobs, Drainers
<1>2. TypeInv
  <2>1. q \in Seq(Spans) /\ Len(q) <= QueueMax /\ tasks \in Seq(Jobs) /\ Len(tasks) <= PoolMax
    BY TracerAssumption DEF TInit
  <2>2. others \in 0..OtherJobs BY TracerAssumption DEF TInit
  <2> QED BY <2>1, <2>2 DEF TInit, TypeInv
<1>3. CountInv BY FS_EmptySet DEF TInit, CountInv
<1>4. SpanInv BY TracerAssumption DEF TInit, SpanInv
<1> QED BY <1>1, <1>2, <1>3, <1>4 DEF TInv, DrainInv, DtorInv, TInit

(* enqueue asks for a job exactly when there is none.                      *)
LEMMA EnqueueKeeps ==
    ASSUME TInv, NEW s \in Spans, enqueueDrop(s) \/ enqueue(s)
    PROVE  TInv'
<1>0. s \notin ended /\ ended' = ended \cup {s} /\ ~kick /\ dtor = "no"
      /\ UNCHANGED <<tasks, doing, others, posted, dtor, closed>>
  BY DEF enqueueDrop, enqueue, poolVars
<1>1. Cardinality(ended') = Cardinality(ended) + 1 /\ Cardinality(ended) \in Nat
  BY <1>0, OneMoreEnded, EndedFinite DEF TInv
<1>2. CASE enqueueDrop(s)
  <2>1. UNCHANGED <<q, draining, kick>> /\ dropped' = dropped + 1 BY <1>2 DEF enqueueDrop
  <2>2. CountInv' BY <1>0, <1>1, <2>1 DEF TInv, CountInv
  <2>3. SpanInv' BY <1>0, <2>1 DEF TInv, SpanInv
  <2> QED BY <1>0, <2>1, <2>2, <2>3 DEF TInv, TypeInv, DrainInv, DrainJobs, Drainers, DtorInv
<1>3. CASE enqueue(s)
  <2>1. q' = Append(q, s) /\ draining' = TRUE /\ kick' = ~draining /\ dropped' = dropped
        /\ Len(q) < QueueMax
    BY <1>3 DEF enqueue
  <2>2. /\ q' \in Seq(Spans) /\ Len(q') = Len(q) + 1 /\ Len(q) \in Nat
        /\ \A i \in 1..Len(q) : q'[i] = q[i]
        /\ q'[Len(q) + 1] = s
    BY <2>1, AppendProperties DEF TInv, TypeInv
  <2>3. TypeInv' BY <1>0, <2>1, <2>2, TracerAssumption DEF TInv, TypeInv
  <2>4. CountInv' BY <1>0, <1>1, <2>1 DEF TInv, CountInv
  <2>5. \A i \in DOMAIN q' : q'[i] \in ended'
    <3>1. DOMAIN q' = 1..(Len(q) + 1) /\ DOMAIN q = 1..Len(q) BY <2>2 DEF TInv, TypeInv
    <3> QED BY <1>0, <2>2, <3>1 DEF TInv, SpanInv
  <2>6. SpanInv' BY <1>0, <2>5 DEF TInv, SpanInv
  <2>7. DrainInv' BY <1>0, <2>1 DEF TInv, TypeInv, DrainInv, DrainJobs, Drainers
  <2> QED BY <1>0, <2>3, <2>4, <2>6, <2>7 DEF TInv, DtorInv
<1> QED BY <1>2, <1>3

LEMMA KickKeeps ==
    ASSUME TInv, kickAdds \/ kickFails
    PROVE  TInv'
<1>0. kick /\ kick' = FALSE /\ UNCHANGED <<q, closed, dtor, doing, ended, posted, others>>
  BY DEF kickAdds, kickFails, tracerVars, poolVars
<1>1. draining /\ DrainJobs = {} /\ Drainers = {} BY <1>0 DEF TInv, DrainInv
<1>2. Drainers' = {} BY <1>0, <1>1 DEF Drainers
<1>3. SpanInv' BY <1>0 DEF TInv, SpanInv
<1>4. CASE kickAdds
  <2>1. tasks' = Append(tasks, "drain") /\ Len(tasks) < PoolMax /\ UNCHANGED <<draining, dropped>>
    <3>1. Len(tasks) \in Nat BY DEF TInv, TypeInv
    <3> QED BY <1>4, <3>1, TracerAssumption DEF kickAdds, full, tracerVars
  <2>2. DrainJobs' = {Len(tasks) + 1} BY <1>1, <2>1, JobsAppend DEF TInv, Jobs
  <2>3. tasks' \in Seq(Jobs) /\ Len(tasks') = Len(tasks) + 1
    BY <2>1, AppendProperties DEF TInv, TypeInv, Jobs
  <2>4. TypeInv'
    <3>1. Len(tasks') <= PoolMax BY <2>1, <2>3, TracerAssumption DEF TInv, TypeInv
    <3> QED BY <1>0, <2>1, <2>3, <3>1 DEF TInv, TypeInv
  <2>5. CountInv' BY <1>0, <2>1, EndedFinite DEF TInv, CountInv
  <2>6. DrainInv' BY <1>0, <1>1, <1>2, <2>1, <2>2 DEF DrainInv
  <2> QED BY <1>0, <1>3, <2>1, <2>4, <2>5, <2>6 DEF TInv, DtorInv
<1>5. CASE kickFails
  <2>1. draining' = FALSE /\ dropped' = dropped + 1 /\ tasks' = tasks
    BY <1>5 DEF kickFails, poolVars
  <2>2. DrainInv' BY <1>0, <1>1, <1>2, <2>1 DEF DrainInv, DrainJobs
  <2>3. CountInv' BY <1>0, <2>1, EndedFinite DEF TInv, CountInv
  <2>4. TypeInv' BY <1>0, <2>1 DEF TInv, TypeInv
  <2> QED BY <1>3, <2>1, <2>2, <2>3, <2>4 DEF TInv, DtorInv
<1> QED BY <1>4, <1>5

LEMMA OtherAddsKeeps == ASSUME TInv, otherAdds PROVE TInv'
<1>1. /\ tasks' = Append(tasks, "other") /\ others' = others + 1 /\ others < OtherJobs
      /\ UNCHANGED <<q, draining, closed, dropped, kick, dtor, doing, ended, posted>>
  BY DEF otherAdds, tracerVars
<1>2. Len(tasks) < PoolMax
  <2>1. Len(tasks) \in Nat BY DEF TInv, TypeInv
  <2> QED BY <2>1, TracerAssumption DEF otherAdds, full
<1>3. DrainJobs' = DrainJobs /\ Drainers' = Drainers
  BY <1>1, JobsAppend DEF TInv, Jobs, Drainers
<1>4. tasks' \in Seq(Jobs) /\ Len(tasks') = Len(tasks) + 1
  BY <1>1, AppendProperties DEF TInv, TypeInv, Jobs
<1>5. TypeInv' BY <1>1, <1>2, <1>4, TracerAssumption DEF TInv, TypeInv
<1> QED BY <1>1, <1>3, <1>5 DEF TInv, CountInv, SpanInv, DrainInv, DtorInv

(* A worker takes the drain job or another: the drain job moves with it.   *)
LEMMA TakeKeeps == ASSUME TInv, NEW w \in Workers, take(w) PROVE TInv'
<1>1. /\ doing[w] = "idle" /\ tasks # <<>> /\ doing' = [doing EXCEPT ![w] = Head(tasks)]
      /\ tasks' = Tail(tasks)
      /\ UNCHANGED <<q, draining, closed, dropped, kick, dtor, ended, posted, others>>
  BY DEF take, tracerVars
<1>2. Head(tasks) \in Jobs /\ tasks' \in Seq(Jobs) /\ Len(tasks') = Len(tasks) - 1
  BY <1>1, HeadTailProperties DEF TInv, TypeInv
<1>3. TypeInv' BY <1>1, <1>2, TracerAssumption DEF TInv, TypeInv
<1>4. /\ DrainJobs' = {i - 1 : i \in DrainJobs \ {1}} /\ DrainJobs \subseteq Nat
      /\ 1 \in DrainJobs <=> Head(tasks) = "drain"
  BY <1>1, JobsTail DEF TInv
<1>5. Drainers' = IF Head(tasks) = "drain" THEN Drainers \cup {w} ELSE Drainers
  BY <1>1, <1>2, TracerAssumption DEF TInv, TypeInv, Drainers, Jobs
<1>6. SpanInv'
  <2>1. Head(tasks) \notin Spans BY <1>2, TracerAssumption DEF Jobs
  <2> QED BY <1>1, <2>1 DEF TInv, SpanInv, TypeInv
<1>7. DrainInv'
  <2>1. CASE DrainJobs = {}
    <3>1. DrainJobs' = {} /\ Drainers' = Drainers BY <1>4, <1>5, <2>1
    <3> QED BY <1>1, <2>1, <3>1 DEF TInv, DrainInv
  <2>2. CASE DrainJobs # {}
    <3>1. draining /\ ~kick /\ Drainers = {} BY <2>2 DEF TInv, DrainInv
    <3>2. PICK i : DrainJobs = {i} BY <2>2 DEF TInv, DrainInv
    <3>3. CASE i = 1
      <4>1. DrainJobs' = {} /\ Drainers' = {w} BY <1>4, <1>5, <3>1, <3>2, <3>3
      <4> QED BY <1>1, <3>1, <4>1 DEF DrainInv
    <3>4. CASE i # 1
      <4>1. DrainJobs' = {i - 1} /\ Drainers' = {} BY <1>4, <1>5, <3>1, <3>2, <3>4
      <4> QED BY <1>1, <3>1, <4>1 DEF DrainInv
    <3> QED BY <3>3, <3>4
  <2> QED BY <2>1, <2>2
<1> QED BY <1>1, <1>3, <1>6, <1>7 DEF TInv, CountInv, DtorInv

LEMMA WorkerKeeps ==
    ASSUME TInv, NEW w \in Workers, otherEnds(w) \/ drainPops(w) \/ postOne(w)
    PROVE  TInv'
<1>1. UNCHANGED <<draining, closed, dropped, kick, dtor, tasks, ended, others>>
  BY DEF otherEnds, drainPops, postOne, tracerVars
<1>2. /\ TypeInv' /\ SpanInv' /\ Drainers' = Drainers
  <2>1. CASE otherEnds(w)
    <3>1. doing[w] = "other" /\ doing' = [doing EXCEPT ![w] = "idle"] /\ UNCHANGED <<q, posted>>
      BY <2>1 DEF otherEnds, tracerVars
    <3>2. "other" \notin Spans /\ "idle" \notin Spans BY TracerAssumption
    <3>3. TypeInv' BY <1>1, <3>1 DEF TInv, TypeInv
    <3>4. SpanInv' BY <1>1, <3>1, <3>2 DEF TInv, TypeInv, SpanInv
    <3>5. Drainers' = Drainers BY <3>1, <3>2 DEF TInv, TypeInv, Drainers
    <3> QED BY <3>3, <3>4, <3>5
  <2>2. CASE drainPops(w)
    <3>1. /\ doing[w] = "drain" /\ doing' = [doing EXCEPT ![w] = Head(q)] /\ q' = Tail(q)
          /\ q # <<>> /\ posted' = posted
      BY <2>2 DEF drainPops
    <3>2. /\ Head(q) \in Spans /\ q' \in Seq(Spans) /\ Len(q') = Len(q) - 1 /\ Len(q) \in Nat \ {0}
          /\ \A i \in 1..Len(q') : q'[i] = q[i + 1]
      BY <3>1, HeadTailProperties, EmptySeq DEF TInv, TypeInv
    <3>3. TypeInv' BY <1>1, <3>1, <3>2, TracerAssumption DEF TInv, TypeInv
    <3>4. Head(q) = q[1] /\ DOMAIN q = 1..Len(q) /\ DOMAIN q' = 1..Len(q')
      BY <3>2 DEF TInv, TypeInv
    <3>5. Head(q) \in ended /\ \A i \in DOMAIN q' : q'[i] \in ended
      BY <3>2, <3>4 DEF TInv, SpanInv
    <3>6. SpanInv' BY <1>1, <3>1, <3>5 DEF TInv, TypeInv, SpanInv
    <3>7. Drainers' = Drainers BY <3>1, <3>2 DEF TInv, TypeInv, Drainers
    <3> QED BY <3>3, <3>6, <3>7
  <2>3. CASE postOne(w)
    <3>1. /\ doing[w] \in Spans /\ doing' = [doing EXCEPT ![w] = "drain"] /\ q' = q
          /\ posted' = posted \cup {doing[w]} \/ posted' = posted
      BY <2>3 DEF postOne, tracerVars
    <3>2. "drain" \notin Spans BY TracerAssumption
    <3>3. TypeInv' BY <1>1, <3>1 DEF TInv, TypeInv, Jobs
    <3>4. SpanInv' BY <1>1, <3>1, <3>2 DEF TInv, TypeInv, SpanInv
    <3>5. Drainers' = Drainers BY <3>1 DEF TInv, TypeInv, Drainers
    <3> QED BY <3>3, <3>4, <3>5
  <2> QED BY <2>1, <2>2, <2>3
<1> QED BY <1>1, <1>2 DEF TInv, CountInv, DrainInv, DrainJobs, DtorInv

LEMMA DrainEndsKeeps == ASSUME TInv, NEW w \in Workers, drainEnds(w) PROVE TInv'
<1>1. /\ doing[w] = "drain" /\ doing' = [doing EXCEPT ![w] = "idle"] /\ draining' = FALSE
      /\ UNCHANGED <<q, closed, dropped, kick, dtor, tasks, ended, posted, others>>
  BY DEF drainEnds
<1>2. w \in Drainers BY <1>1 DEF Drainers
<1>3. ~kick /\ DrainJobs = {} /\ Drainers = {w} BY <1>2 DEF TInv, DrainInv
<1>4. "idle" \notin Spans BY TracerAssumption
<1>5. Drainers' = {} BY <1>1, <1>3, <1>4 DEF TInv, TypeInv, Drainers
<1>6. TypeInv' BY <1>1 DEF TInv, TypeInv
<1>7. SpanInv' BY <1>1, <1>4 DEF TInv, TypeInv, SpanInv
<1> QED BY <1>1, <1>3, <1>5, <1>6, <1>7 DEF TInv, CountInv, DrainInv, DrainJobs, DtorInv

LEMMA DestroyKeeps == ASSUME TInv, destroy \/ destroyed PROVE TInv'
<1>1. /\ UNCHANGED <<draining, dropped, kick, tasks, doing, others, ended, posted>>
      /\ q' \in {q, <<>>} /\ closed' \in BOOLEAN
      /\ dtor' = "waits" \/ (dtor' = "done" /\ ~draining)
  BY DEF destroy, destroyed, tracerVars, poolVars, TInv, TypeInv
<1>2. TypeInv'
  <2>1. <<>> \in Seq(Spans) /\ Len(<<>>) <= QueueMax BY TracerAssumption
  <2>2. q' \in Seq(Spans) /\ Len(q') <= QueueMax BY <1>1, <2>1 DEF TInv, TypeInv
  <2> QED BY <1>1, <2>2 DEF TInv, TypeInv
<1>3. SpanInv' BY <1>1 DEF TInv, SpanInv
<1> QED BY <1>1, <1>2, <1>3 DEF TInv, CountInv, DrainInv, DrainJobs, Drainers, DtorInv

(* The one drain job is where draining_ says it is, through every step of  *)
(* the tracer and the pool.                                                *)
THEOREM TInvHolds == TSpec => []TInv
<1>1. ASSUME TInv, UNCHANGED tvars PROVE TInv'
  BY <1>1 DEF tvars, TInv, TypeInv, CountInv, SpanInv, DrainInv, DrainJobs, Drainers, DtorInv
<1>2. ASSUME TInv, [TNext]_tvars PROVE TInv'
  BY <1>1, <1>2, EnqueueKeeps, KickKeeps, OtherAddsKeeps, TakeKeeps, WorkerKeeps,
     DrainEndsKeeps, DestroyKeeps DEF TNext, WorkerStep
<1> QED BY <1>2, TInvInit, PTL DEF TSpec
-----------------------------------------------------------------------------
(* Neither queue ever outgrows its bound, and otlp_dropped never counts    *)
(* more spans than there were, for every instance.                         *)
THEOREM TracerTypes == TSpec => []TTypeOK
<1>1. TInv => TTypeOK
  BY EndedFinite DEF TInv, TypeInv, CountInv, SpanInv, TTypeOK
<1> QED BY <1>1, TInvHolds, PTL

(* enqueue, its failure to add the job, drain's end and the destructor     *)
(* keep draining_ and the drain job together: there is one exactly while   *)
(* the flag is set.                                                        *)
THEOREM TracerDrainsOnce == TSpec => []OneDrainJob
<1>1. TInv => OneDrainJob
  <2> SUFFICES ASSUME TInv PROVE OneDrainJob OBVIOUS
  <2>1. Cardinality({}) = 0 /\ \A x : Cardinality({x}) = 1 BY FS_EmptySet, FS_Singleton
  <2>2. CASE DrainJobs = {} /\ Drainers = {} /\ (draining <=> kick)
    <3>1. Cardinality(DrainJobs) = 0 /\ Cardinality(Drainers) = 0 BY <2>1, <2>2
    <3> QED BY <2>2, <3>1 DEF OneDrainJob
  <2>3. CASE draining /\ ~kick /\ (\E i : DrainJobs = {i}) /\ Drainers = {}
    <3>1. Cardinality(DrainJobs) = 1 /\ Cardinality(Drainers) = 0 BY <2>1, <2>3
    <3> QED BY <2>3, <3>1 DEF OneDrainJob
  <2>4. CASE draining /\ ~kick /\ DrainJobs = {} /\ \E w : Drainers = {w}
    <3>1. Cardinality(DrainJobs) = 0 /\ Cardinality(Drainers) = 1 BY <2>1, <2>4
    <3> QED BY <2>4, <3>1 DEF OneDrainJob
  <2> QED BY <2>2, <2>3, <2>4 DEF TInv, DrainInv
<1> QED BY <1>1, TInvHolds, PTL

(* The destructor returns only when no drain job is left that would use    *)
(* the tracer it frees.                                                    *)
THEOREM TracerOutlivesDrain == TSpec => []NoDrainAfterDtor
<1>1. TInv => NoDrainAfterDtor BY DEF TInv, DrainInv, DtorInv, NoDrainAfterDtor
<1> QED BY <1>1, TInvHolds, PTL
=============================================================================
