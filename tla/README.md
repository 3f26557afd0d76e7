# A TLA+ development of the perfacet gateway

perfacet is an MCP gateway: one process that takes JSON-RPC requests over HTTP,
decides whether the caller may use a tool, keeps slow upstreams from being hit
twice by the same question, limits concurrency per tool and per principal, and
forwards calls to upstream MCP servers. This directory holds TLA+ models of its
parts, TLC configurations that check them on small instances, and proofs, checked
by TLAPS, of the central safety properties for all instances.

Paths below are relative to the repository (`src/pipeline/Pipeline.cpp` is the
file of that name in it). In `PROJECT.json` they carry the prefix of the checkout.

## 1. The system

One IO loop thread runs everything that decides something; worker threads run
whatever blocks (upstream HTTP, files, span export) and hand results back with
`queueInLoop`. A second process, `perfacet grant approve`, appends to the grants
file.

| Part | State | Operations | What makes it correct |
|---|---|---|---|
| Governor (`govern/`) | `toolInUse_`, `principalInUse_`, one FIFO queue per tool, waiters' timers, tool status | `acquire`, permit destruction (`releaseSlot`, which re-enters `tryDequeue`), wait timer, `onToolsListed`, `rejectAllQueued` | books balance; one answer per request; limits never exceeded; nobody waits for ever |
| Pipeline and Call (`pipeline/`) | live calls, `responded_`, `cancelled_`, attempts, promote timers, `byTask_` | `handleCall`, `onUpstream`, `onPromote`, `cancelTask`, `requestStop`, `~Call` | one answer per client; a permit per call; no attempt after the answer; every call ends |
| In-flight index (`pipeline/InFlight`) | key to id, id to entry | `lookup`, `insert`, `erase` | leads only to living calls of the same key |
| Task store (`task/`) | tasks with ttl, bounded | `insert`, `updateStatus`, `get` with sweep | bounded; a working task ends |
| Circuit (`health/CountCircuit`) | per upstream: state, fails, half-open successes, cooldown | `isOpen`, `onSuccess`, `onFailure`, `onProbeSuccess` | opens after the threshold, closes by probes |
| Retry (`health/RetryPolicy`) | none | `shouldRetry` | only what is safe, within the deadline |
| Probe (`health/ProbeHealth`), tool index (`catalog/`) | per upstream: fails, latency average, list ttl, state; the list | timer, probe on a worker, `applyResult`, `onProbeResult` | the index gets the list the upstream stays with; a dead upstream is found down, a slow one degraded |
| Event loop (`netlib/EventLoop`) | timer heap, callbacks, cancelled ids, pending functions, eventfd | `runAfter`, `runEvery`, `cancel`, `queueInLoop`, `quit` | no cancelled timer fires, none is lost, no lost wake-up |
| HTTP frontend (`frontend/HttpMcp`), connections (`netlib/TcpConnection`, `TcpServer`) | input and output buffers, parser, `busy`, connection table | `onMessage`, `doneWrite`, `handleRead/Write/Close`, `newConnection`, `removeConnection` | replies in order and once; no request stranded; no connection lost or leaked |
| Tracer (`observe/`), worker pool (`netlib/ThreadPool`) | bounded queues, `draining_`, `closed_`, `stop_` | `enqueue`, `drain`, `add`, destructors | one drain job; the tracer's destructor waits for it and returns; the pool's runs what was accepted |
| Process (`cli/Cli`, `cli/Gateway`) | `gGw`, `gLoop`, the drain timer, `quit_`, the members in their order | `onSig`, `runServe`, `requestStop`, `~Gateway` | a signal ends the process; no accepted job is lost; nobody uses the loop after its end |
| Byte buffer (`netlib/Buffer`) | one array, two indices | `append`, `readFd`, `retrieve`, `makeSpace` | bytes come out once and in order; no copy past the end; no growth without need |
| Grant store (`policy/JsonlGrantStore`) | table snapshot, last mtime, dirty flag, the file | `appendPending`, `refreshOnWorker`, `effectiveBump`, CLI approvals | no call above the agent's level without an approved, unexpired grant; the file reaches the table |
| Policy, taxonomy, facet view, identity, configuration, audit | tables loaded at start | comparisons, filters, appends | pure decisions |

How they interact: `HttpMcp::onMessage` calls `Pipeline::handle` with a callback;
`handleCall` asks the in-flight index, then `Governor::acquire` with `onAdmit`,
which asks circuit and health and creates a `Call` that owns the permit. The
backend's result comes back through `queueInLoop`. `~Call` destroys the permit,
whose `releaseSlot` admits waiters and so creates further Calls, nested in the
destructor. Probe results change limits (`onToolsListed`), the circuit and the
health state under all of this. `requestStop` cancels calls and rejects waiters.

The hard behaviours: several parties that may each be first to answer a client;
destructors that re-enter the component being destroyed from; state read before a
wait and used after it (in-flight lookup, authorization, circuit state); Calls kept
alive by the closures of a finished batch; timers cancelled inside the batch that
fires them; functions handed in by other threads around `epoll_wait`; edge-triggered
reads; overlapping refreshes of a file that another process writes; queues at their
limits; one step of several failing after a move; probes that overlap and come back
in any order; a signal handler that takes a mutex its own thread may hold; members
destroyed while workers still run. `PROJECT.json` lists each at its
line under `hazards`, with the properties that would catch it going wrong.

## 2. The modules

| Module | Models | Builds on |
|---|---|---|
| `PermitPool` | abstract specification: permits under caps, each request settled once | |
| `LocalGovernor` | the governor and `Governor::Permit` | shown, and proved, to implement `PermitPool` |
| `LocalGovernorProofs` | its proofs | `LocalGovernor` |
| `CountCircuit` | the circuit's slot operations, as operators | |
| `CircuitUse`, `CircuitProofs` | one circuit under overlapping calls and probes; its proofs | `CountCircuit` |
| `ProbeHealth` | the probe's schedule, its results and the index they fill | |
| `RetryPolicy` | the retry decision | |
| `Pipeline` | `tools/call` end to end | `LocalGovernor`, `CountCircuit`, `RetryPolicy` |
| `PipelineProofs` | its proofs | `Pipeline`, `LocalGovernorProofs` |
| `EventLoop` | timers, pending functions, wake-ups, quit | |
| `HttpSession`, `HttpSessionProofs` | sessions, connections, connection table; its proofs | |
| `BytePipe` | abstract specification: bytes taken are the bytes put, in order | |
| `Buffer` | the byte buffer | shown, and proved, to implement `BytePipe` |
| `NetlibProofs` | the proofs of the loop and of the buffer | `EventLoop`, `Buffer` |
| `OtlpTracer`, `TracerProofs` | the tracer on the worker pool; its proofs | |
| `GrantStore`, `GrantStoreProofs` | the grant store, its file, the approving process and the ranks that depend on it; its proofs | |
| `Shutdown`, `ShutdownProofs` | signals, the loop's mutex, the drain, the destructors and the pool; its proofs | |
| `MC*` | the constants of the runs | |

Variables and actions carry the names of the fields and functions they stand for,
and `PROJECT.json`'s `map` gives the lines of each definition. A definition whose
name has a suffix (`erase_ById`) and whose comment begins with "Mutant" is a
plausible bug: each property of a passing run has one that breaks it.

### What a step is

**Governor and Pipeline.** The loop is single threaded, so one handler is one step,
including every callback it runs. `releaseSlot` and `tryDequeue` therefore describe
the whole nested cascade: `tryDequeue` serves a prefix of the queue; each served
waiter is either dropped by `onAdmit` (its permit dies on the spot and frees the slot
for the next) or keeps the permit and ends the cascade unless there is more room.
`destroyCall` is `~Call` with the permit's destructor and what it starts.

**Life time of Calls.** A Call has no owner but the closures that hold a
`shared_ptr` to it: the outstanding backend call (`busy`) and the promote timer. The
closures of a `doPending` batch are destroyed together after the whole batch has run;
until then a finished Call can still be found (`Zombies`), and once the destruction
has begun nothing else runs before its end (`unwinding`).

**Identity.** A request stands for its Call, its in-flight id and its task id. The
`if_` token of a confirmation is the in-flight id; the history variable `tokens` says
which ids a reply has disclosed, so a client confirms only what it can know.

**Event loop.** The actions of the loop thread are separate steps, since other threads
interleave with them: the return of `epoll_wait`, the read of the eventfd
(`handleWakeup`), the other handlers, the swap of `pending_`. Another thread's
`queueInLoop` is two steps, the push under the mutex and the write to the eventfd.

**HTTP.** A request is two pieces of bytes; the kernel delivers any number at a time.
The kinds of requests stand for what happens to them: answered by the frontend, kept by
the pipeline, refused by llhttp, refused for its size. llhttp is external code and stops
at the end of a message. Where it stands at the piece it should be at (`aligned`) it
does what the piece was written for. After a refusal, which drops the buffer, resets the
parser and keeps the connection, it may stand inside a request; nothing is assumed of
that case: the rest may pass for a message, whose answer is any the frontend or the
pipeline can give, be refused, or swallow the bytes that follow (`feeds`). The one
simplification is that such a stray message ends where a piece ends. A read may fail
with bytes unread (`readError`), and a reset may close the connection between events
(`handleError`). Events and pending functions interleave freely, which includes the
order of the real loop.

**Tracer.** `enqueue` decides under the mutex and adds the job after it (`kick`), with
the pool filling up in between.

**Grants.** The file is what `parseFile` makes of it: the last record of each id.
`refreshOnWorker` is split at its locks and system calls (a `stat` that fails and the
reset of the table under the lock are two steps too) and may overlap with itself on two
workers. `CoarseMtime` chooses between a file time that distinguishes all
writes and one that advances with the clock. The history variable `approvals` keeps
every approval with its expiry, also one that a later, shorter approval replaced.
`authorizeCall` is evaluated in every state: a request may arrive at any moment.

**Probe.** Times are relative to now, so the clock needs no bound. A probe is a job
that a worker takes, too late or in time; what the upstream had when it answered is
what the result carries, whenever that is applied. The latency of a result is any of
`Latencies`. An answer without a tools array (`Blanks`) counts as a success, leaves the
index alone, and its ttl, if it has one, is taken.

**Shutdown.** Each lock and unlock of `mtx_` is a step of its own, and the kernel may
run the handler on any thread between any two, also inside the handler of the other
signal (`Depths`): `std::signal` blocks each of the two for itself only. The places of
the main thread before and inside a critical section stand for all of them in `loop()`,
`inLoopThread` and `doPending`. A job is known by what it uses. A member that a job uses
after its destruction is undefined behaviour; the properties hold up to it, and the
claim `JobsUseLiveMembers` shows that it is reached.

**Buffer.** The array, both indices, and the bytes themselves, of which two kinds are
enough to tell an order; `readv` is one copy to the array and the second block.

### Abstractions

The promote timer fires at any time while armed. `handleCall` and `acquire` each read
the clock, which may tick in between (`waitsLeft`): a short wait can be over at once. A
task's ttl runs out at any time (`TtlRunsOut`). Replies are counted, not typed. Audit
events and span contents are left out, except the expiry event. An upstream returns any
class of `Results`, `late` saying whether the deadline has passed; whether the policy
permits a call is an outcome of `handleCall` (`deny`). `onUpstream` passes `outstanding
= true` for every timeout, and then `shouldRetry` says no before it looks at
`idempotent_tools`: the model keeps both, and shows in passing that the setting has no
effect.

## 3. The runs

Passing runs:

| Run | Shows | Bounds |
|---|---|---|
| `governor` | `PermitAccounting`; the refinement `ImplementsPermitPool`; `EveryAcquireAnswered` | 4 requests, 2 principals, 2 tools; limits 1 and 2, so that a queue holds two waiters, one held back by its principal and one by its tool; clock to 4, beyond every wait |
| `circuit` | `ClosedBelowThreshold`, `CloseNeedsProbes`, `CircuitRecovers` | threshold, probes and cooldown 2, 3 calls in flight: results of three generations overlap |
| `pipeline` | `RepliedOnce`, `PermitsAreCalls`, `IndexIsSound`, `NoAttemptAfterAnswer`, `CancelledStays`, `NoAttemptWhileOpen` | 3 requests, two identical; listings move the tool's limit between 1 and 2, so both identical ones can wait behind the third and be admitted together; 2 attempts; 1 task slot with two clients that want one; circuit opens on the first failure |
| `pipeline_live` | `UpstreamBounded`, `EveryRequestReplied`, `EveryCallEnds`, `RunningTaskEnds` | 2 requests for one slot, all result classes that differ in control, tasks whose ttl runs out |
| `event_loop` | `NoFireAfterCancel`, one-shot timers fire once (`ETypeOK`), `EveryTimerFires`, `EveryFunctionRuns` | a periodic timer and a one-shot timer that can fall due together, loop and one other thread, clock to 2: the periodic timer is due twice |
| `probe` | `StableListReachesIndex`, `DeadIsDown`, `LatencyShows` | 2 probes under way, 2 lists, one with a ttl of two intervals, and answers without a list, with such a ttl and without; latencies on both sides of the threshold, far enough apart for the division to truncate; down after 2 failures |
| `http_session` | `RepliesInOrder`, `NothingStranded`, `TableOwnsConnected`, `GoodRequestAnswered`, `ClosedIsFreed` | a client with 2 pipelined requests of 4 kinds in 4 pieces (a request behind a busy one, or behind a refused one with the parser astray), one that only connects, 2 descriptors: either can get the other's number. The action constraint `NameFd` names them: the one the first client gets is `f1` |
| `tracer` | `OneDrainJob`, `NoDrainAfterDtor`, `DtorReturns` | 3 spans, span queue 2, worker queue 1, 2 workers, 3 other jobs: either queue can be full |
| `grants` | `CallsAreApproved`, `FileReachesTable` | 2 grants of different rank, 2 backends above the agent's level, 2 workers, 2 approvals with two times to live (a grant is approved again, for longer or shorter), expiry inside the clock's range, file times that tell all writes apart |
| `shutdown` | `AcceptedJobsRun`, `LoopOutlivesItsUsers`, `StopEndsOrSelfLocks` | the main thread, 1 worker, a worker queue of 1, an upstream call, a drain job and an audit line, so that each may be refused, queued or running at the end; 2 signals, on different threads or nested on one |
| `buffer` | `GrowthBounded`, the refinement `IsPipe` | reserve, array and second block of one to two bytes: every branch of `makeSpace` and `readFd` is taken, also right after each other |

The `pipeline`, `http_session` and `event_loop` runs also check the type invariants of
their modules. The type invariants of the other modules, and `AnsweredOnce`,
`ConcurrencyBounded` and `BufferOK`, are theorems (section 4) and have no run: they are
proved for every instance, these included.

One run shows that the code does not do what a line of the repository says
(`findings` in `PROJECT.json` quotes it):

| Run | Shows |
|---|---|
| `stacking` | two identical requests that wait together both run, unconfirmed: the in-flight index is looked up before the wait and filled after it |

### Other claims the code does not keep

The modules state these claims too. They have no run of their own; adding the name to
the `.cfg` of the module's run shows the counterexample (for `FullQueueDrains` with
`BusySpec` and four spans, for `PendingIsWritten` and `ExpiryIsAudited` as a
`PROPERTY` of their own).

| Claim, and who makes it | Module | What happens |
|---|---|---|
| `FifoAdmission` (`LocalGovernor.h:2`, README) | `LocalGovernor` | `releaseSlot` looks only at the released tool's queue and `acquire` does not look at the queue at all, so a newcomer overtakes a waiter of its own principal and tool |
| `OpenLeavesByCooldown` (comment at `CountCircuit.cpp:65`) | `CircuitUse` | the late success of a call admitted before the circuit opened closes it inside its cooldown |
| `RunningCallIsFound` (`InFlight.h:2`) | `Pipeline` | `InFlight::erase` removes the key's entry whichever call it leads to: the end of the first of two identical calls hides the second |
| `TerminalTaskStays` (`SPEC.md:268`) | `Pipeline` | `tasks/cancel` overwrites a finished task and drops its result |
| `NoRetryWhileOpen` (`SPEC.md:673`) | `Pipeline` | `onUpstream` reads `isOpen` before it reports the failure, so the failure that opens the circuit is retried through it |
| `EveryTaskEnds` (`SPEC.md:268`) | `Pipeline` | a hit on a finished Call of the same batch creates a task that stays working for ever |
| `FullQueueDrains` (`SPEC.md:716`) | `OtlpTracer` | when the pool refuses the drain job the span stays queued; once the queue is full that way, `enqueue` returns before it could add a job, and nothing is posted for the rest of the process |
| `DroppedAreGone` (`SPEC.md:716`) | `OtlpTracer` | a span counted as dropped because the drain job could not be added is still queued, and posted later |
| `PendingIsWritten` (`SPEC.md:783`) | `GrantStore` | with the worker queue full the pending grant is never written: `appendLine` runs in place the job it has moved from |
| `ExpiryIsAudited` (`pipeline.md:419`) | `GrantStore` | a refresh returns early while the file is unchanged, so an expiry after the last write is not noticed |
| `FileReachesTable` with `CoarseMtime = TRUE` (`grant_test.cpp:53`) | `GrantStore` | an append within the tick of the last refresh is never read |
| `NoTtlNoWait` (`SPEC.md:552`) | `ProbeHealth` | `applyResult` keeps the ttl of an earlier list when the next one has none |
| `OneProbe` (`pipeline.md:408`) | `ProbeHealth` | `lastProbeMs` is the time of the last result, so a probe that takes longer than the interval is overtaken by the next |
| `StopEnds` (`pipeline.md:433`) | `Shutdown` | `onSig` calls `queueInLoop`: a signal on a thread that holds `mtx_`, also one inside the handler of the other signal, waits for itself, and with the main thread the process |
| `DrainEndsCalls` (`SPEC.md:86`) | `Shutdown` | at the drain's end calls whose workers still run outlive `Pipeline`, which their destructors use |
| `JobsUseLiveMembers` (`Gateway.h:46`) | `Shutdown` | `workers_` is destroyed after the members that its jobs use |

Not stated in a module: the ttl of a `tools/list` is the shortest remaining time of
the agent's grants (`SPEC.md:220`). `listBody` reads the clock and the table again
after the list was made with the bump read at authentication; a grant that expires in
between leaves a list made with it, and the full `list_ttl_ms`.

### Why the bounds are enough

Clocks only have to pass every deadline an instance can set. Numbers of requests
are chosen so that one can run, one wait and one arrive; limits so that each of them
binds before the others in some behaviour. `dropped`, `fired` and `okSince` count no
further than a property can tell apart, and ages in `ProbeHealth` no further than the
longest interval. In `Pipeline` the two-request liveness
instance leaves out identical requests: what they add is the failure of
`EveryTaskEnds` described above.
`passes` with a confirmation token needs three identical requests; the safety
properties are proved for such instances, not run.
What TLC shows on these instances is proved below for all of them, liveness excepted.

Deadlock is checked in the governor, circuit and pipeline runs (the clock, at its
bound, is never the only thing left, since listings and probes go on) and in the
`grants` run. It is switched off where the modelled system really stops: a loop that
has quit, a tracer that is destroyed, clients that have sent everything.

### Fairness

- The clock ticks, and a timer that is due is run: `loop()` never sleeps past the
  first timer (`nextTimeoutMs`, `resetTimerfd`).
- A backend call returns: `HttpMcpBackend::callBlocking` sets connect, read and write
  timeouts, and the result is queued to the loop.
- A batch of pending functions ends; the loop thread goes on (`LoopStep`), but
  `epoll_wait` is only obliged to return for the eventfd and the timers, never for a
  socket.
- Worker threads take jobs and finish them; a post ends by its timeout.
- In `Shutdown` fairness is strong: a thread that waits for a mutex which is free again
  and again gets it in the end. A thread that waits for itself never does.
- `CircuitRecovers`, `StableListReachesIndex` and `LatencyShows` say on their left side
  what must go on happening (calls admitted, probes that succeed); no fairness of
  `CSpec` or `ProbeSpec` makes an upstream answer.
- The pipeline answers the frontend: that is `EveryRequestReplied`.
- Nothing is assumed of clients, of the CLI, of `tools/list` results, or of callers
  of `acquire` and owners of permits in `LocalGovernor`.

## 4. The proofs

`LocalGovernorProofs` assumes only `RequestsAssumption` and `LimitsAssumption`: the
constants are functions of the right types over a finite set of requests. Its inductive
invariant is `IInv == TypeOK /\ PermitAccounting /\ AnsweredOnce /\ ConcurrencyBounded`.
No conjunct is inductive alone: a served waiter must not hold a permit already
(`AnsweredOnce`) for the counters to stay equal to the cardinalities
(`PermitAccounting`); a release must find its counter positive for the subtraction to
stay in `Nat`. The lemmas before it say what serving a prefix of a queue and taking out
one waiter do to a queue without repetitions, and how the number of holders changes when
one request joins or leaves. `IInvStep` has one step per action.

- `GovernorTypeCorrect`, `GovernorAccounting`, `GovernorAnswersOnce`,
  `GovernorBounded`: the four properties, for every instance.
- `GovernorImplementsPool`: the refinement `Spec => ImplementsPermitPool`. The
  mapping takes the pool's holders to `permits`, its settled requests to those with an
  answer, and its caps to the limits `toolLimit` yields at that moment. `PoolStep` shows that each action is a step of the pool or leaves its variables
  alone; the hard one is the cascade of a release, where `DequeueGrants` says that the
  waiters served fit under both caps and were not settled before, and `SettledGrows`
  that no answer is taken back.

`PipelineProofs` adds `PipelineAssumption`, in particular that requests of the same
key have the same tool and principal.

- `PipelineGoverns`: every step of `Pipeline` is a step of `LocalGovernor` or leaves
  its variables alone, so `IInv` carries over.
- `PInv == IInv /\ CallsInv /\ RepliesInv /\ StopInv /\ IndexInv` is inductive.
  `RepliesInv` is the strengthening that `RepliedOnce` needs: who is queued has no
  answer, who is live has one exactly if `responded`, who is neither has one.
  `StopInv` (once stopping, nobody waits and all calls are cancelled) is what
  `NoAttemptAfterAnswer` needs for calls started by nested releases.
- `PipelinePermits`, `PipelineRepliesOnce`, `PipelineIndexSound`,
  `PipelineUpstreamBounded`, `PipelineNoAttemptAfterAnswer`: the five properties. The
  bound on upstream attempts follows from the governor's accounting and
  `permits = live`.
- `TInv == TaskInv /\ AttemptInv /\ HealthInv /\ FlagsInv` says the rest of the state.
  Its link to `PInv` is that a request has a task or an attempt only when the governor
  is done with it (`Done`): a call started by a nested release therefore begins with no
  attempt and no task, which `PTypeOK`'s bounds need, and a running call under a
  cancelled task is itself cancelled, which is why no late result overwrites the task.
- `PipelineTypes` (with the task store's cap and `MaxAttempts`),
  `PipelineCancelledStays`, `PipelineNoAttemptWhileOpen`, and `PipelineImplementsPool`:
  through `PipelineGoverns` the composed pipeline implements `PermitPool` too.

`CircuitProofs`: the invariant of a slot with the successes since it last opened
(`SlotOK`) is kept by each of the slot's operations, one lemma each; the three
properties (`CircuitTypes`, `ClosedIsFresh`, `ClosingIsEarned`) follow for every
threshold, cooldown and number of calls.

`TracerProofs`: `OneDrainJob` counts, which is not inductive in a form a prover can
use. `DrainInv` says instead where the one drain job is: nowhere, about to be added,
at one place of the pool's queue, or with one worker; `CountInv` and `SpanInv` carry
the rest of the type invariant. `TracerTypes`, `TracerDrainsOnce` and
`TracerOutlivesDrain` need only that spans are finitely many and are not the pool's
words for its own jobs.

`GrantStoreProofs`: every approved record in the file, in the table and in any
refresh under way was written by an approval (`GInv`); approvals are never taken
back, so this survives every step, however stale the copy. The largest rank in force
is one of the ranks in force (`LargestIsIn`, by the least upper bound in `Nat`), so
`CallsNeedApproval` follows. `StoreTypes` adds that no file time a refresh remembers
is ahead of the file's.

`ShutdownProofs`: `SInv` says who holds `mtx_` (`MutexInv`), what has ended in each
phase of the stop (`PhaseInv`) and that a running job has a worker of its own
(`PoolInv`). `TypesHold`, `StopLosesNoJob` and `LoopDestroyedLast` hold for any number
of workers, jobs and signals.

`NetlibProofs`, the buffer: `BufInv` joins the bounds of the indices, the history (what
was put is what was taken and what waits), and the bound on the array in terms of the
most that ever waited. `BufferStaysInBounds`, `BufferGrowthIsBounded`, and
`BufferImplementsPipe`, the refinement: every step puts at the end or takes from the
front. They need no more than that the sizes are natural numbers.

`NetlibProofs`, the loop: a timer can come back from the heap, from the batch under
way, from its running callback, or from an insertion another thread has queued, so
`NoFireAfterCancel` needs to know that these exclude each other. `LoopInv` says so:
`Spent` are the timers whose insertion lies behind them, the queue holds at most one
insertion per timer and none for a spent one (`QueueOK`, kept by `QueueRun` and
`QueuePush`), and a cancelled timer that left `canceled_` is in none of the four places.
`LoopTypes` (with one-shot timers firing once) and `LoopCancelIsFinal` follow from
`LoopAssumption` alone, for any timers and threads. `LoopLosesNoWakeup` is the safety
part of `EveryFunctionRuns`: the loop is never in `epoll_wait` with functions queued
unless the eventfd is readable or a thread has yet to write to it.

`HttpSessionProofs`: `RepliesInOrder` needs the place of the session in what its client
wrote. `StreamInv` says that the pieces a session is done with (n of them), its buffer
and the kernel's are one stream, and that every answer, and what the pipeline works on,
is a request that n has reached (`SessionOK`, `AnswersOK`): that holds wherever llhttp
stands, and gives the order. That a request is answered once needs more, which only
holds while the requests up to n are good (`Straight`): llhttp holds a first piece
exactly at an odd n, that of the request n is in; the pipeline works only on a request
that ends at n; answers are to requests that n includes. `GoodRun` draws from it where
in the buffer llhttp can stop and what it does there. One lemma per branch of
`onMessage` (`SkipKeeps`, `RefuseKeeps`, `ParseOnKeeps`, `ServeKeeps`) gives the place
it leaves. `TableInv` is what `TableOwnsConnected` needs:
who is in the table under a descriptor has that descriptor, and who is to be removed is
closed. `SessionTypes`, `SessionAnswersInOrder`, `SessionStrandsNothing`,
`ServerOwnsConnected`, and `SessionMissesNoEdge`, the safety part of
`GoodRequestAnswered`, hold for any connections, descriptors (at least one) and numbers
of requests.

The invariants `LoopInv` and `HInv` were checked by TLC on the instances of the
`event_loop` and `http_session` runs as well, with their quantifiers over `Nat` bounded.

With these, every invariant, action property and refinement that a run checks is a
theorem. Only model-checked: the liveness properties of all modules, which are outside
the prover's reach (as is `ENABLED`). The three properties of `ProbeHealth` are all of
that kind, so it has no theorem.

## 5. Not modelled

- **What a destroyed member does to the job that uses it**, and `TcpServer::stop` with
  the connections left at exit: the first is undefined, the second runs alone.
- **Facet views, taxonomy, built-in tools, tool names, error classification**: pure
  functions of tables that do not change; `Pipeline` takes a denial as an outcome, and
  `GrantStore` has the comparison of ranks. The hash of a call's arguments
  (`paramsHashOf`) is taken to tell different arguments apart; it mixes keys and values
  without separating them.
- **The HTTP exchange with an upstream** and the kept-alive connection of each worker:
  `cpp-httplib`, and the conversion of a deadline to whole seconds.
- **Steps of the system clock**: `nowMs` is taken never to go back.
- **Configuration, identity, YAML**: read once at start.
- **The audit line**: its job is in `Shutdown`; what it says is not. A promoted call is
  audited as `ok` when its task is created, whatever becomes of it.
- **`netlib` features the gateway does not use**: IO sub-loops, queued frames,
  `shutdown()`, the integers of `Buffer`; sockets and `epoll` bookkeeping are plain I/O.

## 6. Plan

Done, in the order of importance: governor with its abstract specification and proofs;
circuit and retry, with proofs; pipeline with its proofs; event loop, with proofs;
frontend and connections, with proofs; tracer on the pool, with proofs; grant store and
the ranks that depend on it, with proofs; probe; shutdown, with proofs; byte buffer with
its abstract specification and proofs.

Next:

1. Theorems: that no two living connection objects have one descriptor (`held` never
   becomes true again); the type invariant of `ProbeHealth`; the safety parts of
   `EveryCallEnds` and `FileReachesTable` (who must act next), as has been done for
   `EveryFunctionRuns` and `GoodRequestAnswered`.
2. A run of `Pipeline` with three identical requests, for the confirmation path.
3. `tools/list` with its ttl, composed with `GrantStore`.
4. `TcpServer::stop` and the connections left at exit.
