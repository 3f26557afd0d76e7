---------------------------- MODULE ProbeHealth ----------------------------
(***************************************************************************)
(* The probe of one upstream (health/ProbeHealth) and the tool index it    *)
(* feeds (catalog/IndexRefresher, ToolIndex).  What its successes do to    *)
(* the circuit is in CircuitUse, what its lists do to the governor in      *)
(* Pipeline.                                                               *)
(*                                                                         *)
(* A timer asks for a probe; the probe is a job on the worker pool, which  *)
(* asks the upstream for its tools and queues the result to the loop.      *)
(* What the timer looks at is when the last result was applied, not when   *)
(* the last probe was sent: probes overlap, and their results come back in *)
(* any order.  Times are kept relative to now: how long ago the last       *)
(* result was applied, how long until the timer is due and until the       *)
(* deadline of a probe.                                                    *)
(***************************************************************************)
EXTENDS Naturals, Sequences, FiniteSets

CONSTANTS Lists,            \* the tool lists the upstream may have
          NoList,           \* stands for no list: none has come in yet
          Blanks,           \* the answers in which tools is not an array
          ListTtl,          \* the ttlMs an answer comes with; it may have none
          Latencies,        \* how long the upstream may take, in ms
          DegradedMs,       \* degraded_latency_ms
          DownAfter,        \* down_after_failures
          Interval,         \* interval_ms, in ticks
          MaxProbes         \* bound on the probes under way

ASSUME ProbeAssumption ==
    /\ NoList \notin Lists /\ Blanks \cap Lists = {}
    /\ DOMAIN ListTtl \subseteq Lists \cup Blanks /\ \A l \in DOMAIN ListTtl : ListTtl[l] \in Nat
    /\ Latencies \subseteq Nat /\ Latencies # {}
    /\ DegradedMs \in Nat /\ DownAfter \in Nat \ {0}
    /\ Interval \in Nat \ {0} /\ MaxProbes \in Nat \ {0}

VARIABLES
    health,     \* ProbeHealth::Slot
    age,        \* ticks since lastProbeMs, as far as they matter
    toTimer,    \* ticks until the probe timer is due
    probe,      \* the probes in the pool
    results,    \* their results, in the loop's pending_
    index,      \* ToolIndex's list of the upstream
    upList,     \* external: the list the upstream has
    lastMs      \* history: the latency of the last probe that succeeded

probeVars == <<health, age, toTimer, probe, results, index>>
prvars == <<probeVars, upList, lastMs>>

Probes == 1..MaxProbes
Idle == [at |-> "idle"]
Failure == [ok |-> FALSE]

NewHealth == [state |-> "Down", fails |-> 0, init |-> FALSE, ewma |-> 0, listTtl |-> 0]

(* The time that must have passed since the last result for the next probe.*)
Largest(m, n) == IF m > n THEN m ELSE n
minInterval(h) == Largest(h.listTtl, Interval)

(* No property tells apart ages beyond every interval.                     *)
MaxAge == LET ttls == {ListTtl[l] : l \in DOMAIN ListTtl} \cup {Interval}
          IN  CHOOSE n \in ttls : \A m \in ttls : m <= n
-----------------------------------------------------------------------------
(* applyResult.                                                            *)

\* Mutant: the new sample is not weighed in.
smooth_Stuck(h, ms) == IF h.init THEN (h.ewma * 8) \div 8 ELSE ms

smooth(h, ms) == IF h.init THEN (h.ewma * 7 + ms) \div 8 ELSE ms

succeeded(h, list, ms) ==
    LET e == smooth(h, ms)
    IN  [state   |-> IF e >= DegradedMs THEN "Degraded" ELSE "Up",
         fails   |-> 0,
         init    |-> TRUE,
         ewma    |-> e,
         listTtl |-> IF list \in DOMAIN ListTtl THEN ListTtl[list] ELSE h.listTtl]

\* Mutant: a failure forgets the ones before it.
failed_Forgets(h) ==
    LET n == 1
    IN  [h EXCEPT !.fails = n, !.state = IF n >= DownAfter THEN "Down" ELSE @]

(* Failures beyond DownAfter make no difference and are not counted.       *)
failed(h) ==
    LET n == IF h.fails < DownAfter THEN h.fails + 1 ELSE h.fails
    IN  [h EXCEPT !.fails = n, !.state = IF n >= DownAfter THEN "Down" ELSE @]

\* Mutant: only the first list is taken.
onProbeResult_Once(list) ==
    index' = IF list \in Lists /\ index = NoList THEN list ELSE index

(* IndexRefresher::onProbeResult and ToolIndex::replace.                   *)
onProbeResult(list) == index' = IF list \in Lists THEN list ELSE index

(* The latency is the worker's measurement: any of Latencies.              *)
applyOk(ms) ==
    /\ results # <<>> /\ Head(results).ok
    /\ results' = Tail(results)
    /\ health' = succeeded(health, Head(results).list, ms)
    /\ age' = 0
    /\ onProbeResult(Head(results).list)
    /\ lastMs' = ms
    /\ UNCHANGED <<toTimer, probe, upList>>

applyFailed ==
    /\ results # <<>> /\ ~Head(results).ok
    /\ results' = Tail(results)
    /\ health' = failed(health)
    /\ age' = 0
    /\ UNCHANGED <<toTimer, probe, index, upList, lastMs>>
-----------------------------------------------------------------------------
(* The timer's callback, and HttpMcpBackend::call.                         *)
due == age >= minInterval(health)

idle == {p \in Probes : probe[p] = Idle}

(* Bound: the timer waits while MaxProbes probes are under way.            *)
room == Cardinality(Probes \ idle) + Len(results) < MaxProbes

timerFires ==
    /\ toTimer = 0
    /\ toTimer' = Interval
    /\ \/ /\ ~due
          /\ UNCHANGED <<probe, results>>
       \/ /\ due /\ room
          /\ LET p == CHOOSE p \in idle : \A q \in idle : p <= q
             IN  probe' = [probe EXCEPT ![p] = [at |-> "queued", left |-> Interval]]
          /\ UNCHANGED results
       \/ /\ due /\ room
          /\ results' = Append(results, Failure)
          /\ UNCHANGED probe
    /\ UNCHANGED <<health, age, index, upList, lastMs>>

(* callBlocking returns r and its worker queues the result.                *)
push(p, r) ==
    /\ probe' = [probe EXCEPT ![p] = Idle]
    /\ results' = Append(results, r)

(* A worker takes the job: too late, or the request is sent.               *)
pickUp(p) ==
    /\ probe[p].at = "queued"
    /\ \/ probe[p].left = 0 /\ push(p, Failure)
       \/ /\ probe[p].left > 0
          /\ probe' = [probe EXCEPT ![p] = [at |-> "asked"]]
          /\ UNCHANGED results
    /\ UNCHANGED <<health, age, toTimer, index, upList, lastMs>>

(* The upstream answers with the list it has, or with something else.      *)
answer(p) ==
    /\ probe[p].at = "asked"
    /\ \E l \in {upList} \cup Blanks :
          probe' = [probe EXCEPT ![p] = [at |-> "answered", list |-> l]]
    /\ UNCHANGED <<health, age, toTimer, results, index, upList, lastMs>>

(* The answer arrives; or it does not in time, or it is an error.          *)
returns(p) ==
    /\ \/ /\ probe[p].at = "answered"
          /\ push(p, [ok |-> TRUE, list |-> probe[p].list])
       \/ /\ probe[p].at \in {"asked", "answered"}
          /\ push(p, Failure)
    /\ UNCHANGED <<health, age, toTimer, index, upList, lastMs>>
-----------------------------------------------------------------------------
upstreamChanges ==
    /\ upList' \in Lists \ {upList}
    /\ UNCHANGED <<probeVars, lastMs>>

Earlier(n) == IF n > 0 THEN n - 1 ELSE 0

timePasses ==
    /\ toTimer' = Earlier(toTimer)
    /\ age' = IF age < MaxAge THEN age + 1 ELSE age
    /\ probe' = [p \in Probes |-> IF probe[p].at = "queued"
                                  THEN [probe[p] EXCEPT !.left = Earlier(@)] ELSE probe[p]]
    /\ UNCHANGED <<health, results, index, upList, lastMs>>
-----------------------------------------------------------------------------
(* probeAllBlocking has run, with either outcome, before the timer starts. *)
ProbeInit ==
    /\ upList \in Lists /\ lastMs \in Latencies
    /\ \/ /\ health = failed(NewHealth)
          /\ index = NoList
       \/ \E l \in {upList} \cup Blanks :
             /\ health = succeeded(NewHealth, l, lastMs)
             /\ index = IF l \in Lists THEN l ELSE NoList
    /\ age = 0 /\ toTimer = Interval
    /\ probe = [p \in Probes |-> Idle] /\ results = <<>>

ProbeNext ==
    \/ (\E ms \in Latencies : applyOk(ms)) \/ applyFailed \/ timerFires
    \/ \E p \in Probes : pickUp(p) \/ answer(p) \/ returns(p)
    \/ upstreamChanges \/ timePasses

(* Time passes, the timer fires, workers take their jobs, an HTTP call     *)
(* ends by its timeout, the loop runs what is queued.  The upstream need   *)
(* not answer, and nobody need call.                                       *)
ProbeFairness ==
    /\ WF_prvars(timePasses) /\ WF_prvars(timerFires)
    /\ WF_prvars((\E ms \in Latencies : applyOk(ms)) \/ applyFailed)
    /\ \A p \in Probes : WF_prvars(pickUp(p)) /\ WF_prvars(returns(p))

ProbeSpec == ProbeInit /\ [][ProbeNext]_prvars /\ ProbeFairness
-----------------------------------------------------------------------------
probeSucceeds == \E ms \in Latencies : applyOk(ms)

(* While lists go on coming in, the index comes to hold the one that the   *)
(* upstream stays with: results that overtake each other, ttls of earlier  *)
(* lists and answers without a list only delay it.                         *)
StableListReachesIndex ==
    \A l \in Lists :
        <>[](upList = l) /\ []<><<probeSucceeds /\ Head(results).list \in Lists>>_prvars
            => <>[](index = l)

(* An upstream whose probes no longer succeed is found to be down, however *)
(* long the ttl of the last list it gave.                                  *)
DeadIsDown == <>[][~probeSucceeds]_prvars => <>[](health.state = "Down")

(* The average follows the latency, through the division's truncation: a   *)
(* lasting change shows in the state, from either side.                    *)
LatencyShows ==
    []<><<probeSucceeds>>_prvars =>
        /\ <>[](lastMs >= DegradedMs + 7) => <>[](health.state # "Up")
        /\ <>[](lastMs < DegradedMs) => <>[](health.state # "Degraded")
-----------------------------------------------------------------------------
(* Claims of the documentation that the code does not keep.                *)

(* SPEC: without a ttl in the upstream's list only the interval counts.    *)
NoTtlNoWait ==
    index \in Lists \ DOMAIN ListTtl => health.listTtl = 0

(* SPEC: the index is the list last asked for; pipeline.md: probes are     *)
(* max(interval, ttl) apart, so there are never two.                       *)
OneProbe == Cardinality({p \in Probes : probe[p] # Idle}) <= 1
=============================================================================
