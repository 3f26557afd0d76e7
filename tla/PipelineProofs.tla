--------------------------- MODULE PipelineProofs ---------------------------
(***************************************************************************)
(* The pipeline's safety properties for every instance.  Every step of the *)
(* pipeline is a step of the governor or leaves it alone, so the           *)
(* governor's invariant holds in the composition; on top of it, PInv ties  *)
(* the Calls, the answers given and the in-flight index to the governor's  *)
(* permits and queues.                                                     *)
(***************************************************************************)
EXTENDS Pipeline, LocalGovernorProofs

(* Each Call holds one permit, and is referred to by its backend call or   *)
(* its promote timer only while it exists.                                 *)
CallsInv ==
    /\ permits = live /\ live \subseteq Requests
    /\ busy \subseteq live /\ promoteTimer \subseteq live
    /\ attempt \in [Requests -> Nat]
    /\ stopping \in BOOLEAN

(* Who has been answered.  A Call without an outstanding attempt has       *)
(* answered, a cancelled one too; a waiter has not; whoever is neither     *)
(* waiting nor running has been answered once.                             *)
RepliesInv ==
    /\ replies \in [Requests -> Nat]
    /\ responded \subseteq called \ Queued
    /\ cancelled \subseteq responded
    /\ live \ busy \subseteq responded
    /\ \A r \in Requests : replies[r] <= 1
    /\ \A r \in Queued : replies[r] = 0
    /\ \A r \in live : replies[r] = IF r \in responded THEN 1 ELSE 0
    /\ \A r \in called : r \notin Queued /\ r \notin live => replies[r] = 1

(* Once the stop has begun nobody waits and every Call is cancelled.       *)
StopInv == stopping => Queued = {} /\ live \subseteq cancelled

IndexInv == keyToId \in [Keys -> Requests \cup {None}] /\ IndexIsSound

PInv == IInv /\ CallsInv /\ RepliesInv /\ StopInv /\ IndexInv
-----------------------------------------------------------------------------
(* What the governor's operations do to the queue, the permits and the     *)
(* requests seen.                                                          *)

LEMMA QueuedFacts ==
    ASSUME IInv
    PROVE  /\ WellQueued(queues) /\ Queued = In(queues) /\ Queued \subseteq Requests
           /\ Queued \subseteq called /\ permits \subseteq called \ Queued
           /\ called \subseteq Requests /\ permits \subseteq Requests
<1>1. Once(queues, timers, called, permits, answers) /\ Rest
  BY IInvParts DEF Parts
<1>2. Queued = In(queues) BY DEF Queued, In
<1> QED BY <1>1, <1>2, InRequests DEF Once, Rest

LEMMA DequeueEffect ==
    ASSUME IInv, NEW t \in Tools, NEW ti, NEW pi, NEW h, NEW P, NEW A,
           tryDequeue(t, ti, pi, h, P, A)
    PROVE  /\ Queued' \subseteq Queued
           /\ \E S \in SUBSET (Queued \ Queued') : permits' = P \cup S
<1> DEFINE q == queues[t]
<1>1. PICK n \in 0..Len(q), keep \in BOOLEAN :
        /\ keep => n > 0
        /\ queues' = [queues EXCEPT ![t] = SubSeq(q, n + 1, Len(q))]
        /\ permits' = IF keep THEN P \cup {q[n]} ELSE P
  BY DEF tryDequeue
<1>2. WellQueued(queues) /\ Queued = In(queues) /\ Queued' = In(queues')
  BY QueuedFacts DEF Queued, In
<1>3. In(queues') = In(queues) \ {q[i] : i \in 1..n} BY <1>1, <1>2, QueueServe
<1>4. Len(q) \in Nat BY <1>2 DEF WellQueued
<1>5. CASE keep
  <2>1. n \in 1..n /\ n \in 1..Len(q) BY <1>1, <1>4, <1>5
  <2>2. q[n] \in In(queues) BY <1>2, <2>1, InQueue
  <2>3. {q[n]} \in SUBSET (Queued \ Queued') BY <1>2, <1>3, <2>1, <2>2
  <2> QED BY <1>1, <1>2, <1>3, <1>5, <2>3
<1>6. CASE ~keep
  <2>1. {} \in SUBSET (Queued \ Queued') /\ permits' = P \cup {} BY <1>1, <1>6
  <2> QED BY <1>2, <1>3, <2>1
<1> QED BY <1>5, <1>6

LEMMA GoEffect ==
    ASSUME NEW r \in Requests, acquireGo(r)
    PROVE  /\ r \notin called /\ called' = called \cup {r}
           /\ Queued' = Queued /\ permits' = permits \cup {r}
    BY DEF acquireGo, take, Queued

LEMMA DroppedEffect ==
    ASSUME IInv, NEW r \in Requests, acquireDropped(r)
    PROVE  /\ r \notin called /\ called' = called \cup {r}
           /\ Queued' \subseteq Queued
<1>1. ToolOf[r] \in Tools BY RequestsAssumption
<1> QED BY <1>1, DequeueEffect DEF acquireDropped

LEMMA RejectEffect ==
    ASSUME NEW r \in Requests, NEW wd, acquireReject(r, wd)
    PROVE  /\ r \notin called /\ called' = called \cup {r}
           /\ Queued' = Queued /\ permits' = permits
    BY DEF acquireReject, Queued

LEMMA QueueEffect ==
    ASSUME IInv, NEW r \in Requests, NEW wd, acquireQueue(r, wd)
    PROVE  /\ r \notin called /\ called' = called \cup {r}
           /\ Queued' = Queued \cup {r} /\ permits' = permits
<1>1. WellQueued(queues) /\ Queued = In(queues) /\ Queued' = In(queues')
      /\ Queued \subseteq called
  BY QueuedFacts DEF Queued, In
<1>2. queues' = [queues EXCEPT ![ToolOf[r]] = Append(queues[ToolOf[r]], r)]
      /\ r \notin called /\ called' = called \cup {r} /\ permits' = permits
  BY DEF acquireQueue
<1>3. In(queues') = In(queues) \cup {r} BY <1>1, <1>2, QueueAppend
<1> QED BY <1>1, <1>2, <1>3

LEMMA TimerEffect ==
    ASSUME IInv, NEW r \in Requests, onWaitTimer(r)
    PROVE  /\ r \in Queued /\ Queued' = Queued \ {r}
           /\ called' = called /\ permits' = permits
<1> DEFINE t == ToolOf[r]
<1>1. PICK i \in DOMAIN queues[t] :
        queues[t][i] = r /\ queues' = [queues EXCEPT ![t] = Without(queues[t], i)]
  BY DEF onWaitTimer
<1>2. WellQueued(queues) /\ Queued = In(queues) /\ Queued' = In(queues')
  BY QueuedFacts DEF Queued, In
<1>3. t \in Tools /\ i \in 1..Len(queues[t]) BY <1>2, RequestsAssumption DEF WellQueued
<1>4. In(queues') = In(queues) \ {r}
  <2>1. In([queues EXCEPT ![t] = Without(queues[t], i)]) = In(queues) \ {queues[t][i]}
    BY <1>2, <1>3, QueueDrop
  <2> QED BY <1>1, <2>1
<1>5. r \in In(queues) BY <1>1, <1>2, <1>3, InQueue
<1> QED BY <1>2, <1>4, <1>5 DEF onWaitTimer

LEMMA RejectAllEffect ==
    ASSUME rejectAllQueued
    PROVE  Queued' = {} /\ called' = called /\ permits' = permits
    BY DEF rejectAllQueued, Queued, Elements

LEMMA ReleaseEffect ==
    ASSUME IInv, NEW r \in Requests, releaseSlot(r)
    PROVE  LET kept == permits' \ permits
           IN  /\ r \in permits /\ called' = called
               /\ Queued' \subseteq Queued
               /\ kept \subseteq Queued \ Queued'
               /\ permits' = (permits \ {r}) \cup kept
<1>1. ToolOf[r] \in Tools /\ r \in permits /\ called' = called
  BY RequestsAssumption DEF releaseSlot
<1>2. tryDequeue(ToolOf[r], Minus(toolInUse, ToolOf[r]), Minus(principalInUse, AgentOf[r]),
                 permitHeld - 1, permits \ {r}, answers)
  BY DEF releaseSlot
<1>3. Queued' \subseteq Queued BY <1>1, <1>2, DequeueEffect
<1>4. PICK S \in SUBSET (Queued \ Queued') : permits' = (permits \ {r}) \cup S
  BY <1>1, <1>2, DequeueEffect
<1>5. permits \cap Queued = {} BY QueuedFacts
<1> QED BY <1>1, <1>3, <1>4, <1>5
-----------------------------------------------------------------------------
(* Every step of the pipeline is a step of the governor or leaves it alone. *)
LEMMA GovernorStep == PNext => [Next]_vars
<1> SUFFICES ASSUME PNext PROVE Next \/ UNCHANGED vars OBVIOUS
<1>w. \A r \in Requests : \A w \in waitsLeft(ToolOf[r]) : now + w \in WaitDeadlines
  <2> TAKE r \in Requests
  <2>1. ToolOf[r] \in Tools BY RequestsAssumption
  <2>2. waitsLeft(ToolOf[r]) \subseteq CallerWaits BY <2>1, PipelineAssumption
  <2> QED BY <2>2 DEF WaitDeadlines
<1>1. ASSUME NEW r \in Requests, handleCall(r) PROVE Next \/ UNCHANGED vars
  <2>1. CASE deny(r) \/ inflightHit(r) \/ drainReject(r)
    BY <2>1 DEF deny, inflightHit, drainReject
  <2>2. CASE startNow(r) BY <2>2 DEF startNow, Next, acquire
  <2>3. CASE refuseNow(r) BY <2>3 DEF refuseNow, Next, acquire
  <2>4. CASE rejectNow(r)
    <3>1. PICK w \in waitsLeft(ToolOf[r]) : acquireReject(r, now + w) BY <2>4 DEF rejectNow
    <3> QED BY <1>w, <3>1 DEF Next, acquire
  <2>5. CASE queueUp(r)
    <3>1. PICK w \in waitsLeft(ToolOf[r]) : acquireQueue(r, now + w) BY <2>5 DEF queueUp
    <3> QED BY <1>w, <3>1 DEF Next, acquire
  <2> QED BY <1>1, <2>1, <2>2, <2>3, <2>4, <2>5 DEF handleCall
<1>2. ASSUME NEW r \in Requests, waitTimedOut(r) PROVE Next
  BY <1>2 DEF waitTimedOut, Next
<1>3. ASSUME NEW r \in Requests, onPromote(r) \/ cancelTask(r) \/ taskExpires(r)
      PROVE  UNCHANGED vars
  BY <1>3 DEF onPromote, cancelTask, taskExpires
<1>4. ASSUME NEW r \in Requests, upstreamReturns(r) PROVE UNCHANGED vars
  BY <1>4 DEF upstreamReturns, onUpstreamCancelled, onUpstream
<1>5. ASSUME NEW r \in Requests, destroyCall(r) PROVE Next
  BY <1>5 DEF destroyCall, Next
<1>6. ASSUME NEW b \in Backends, probeOk(b) PROVE Next \/ UNCHANGED vars
  BY <1>6 DEF probeOk, Next
<1>7. ASSUME NEW b \in Backends, probeFailed(b) PROVE UNCHANGED vars
  BY <1>7 DEF probeFailed
<1>8. ASSUME requestStop PROVE Next BY <1>8 DEF requestStop, Next
<1>9. ASSUME timePasses PROVE Next BY <1>9 DEF timePasses, Next
<1> QED
  BY <1>1, <1>2, <1>3, <1>4, <1>5, <1>6, <1>7, <1>8, <1>9 DEF PNext, dispatch
-----------------------------------------------------------------------------
LEMMA CountedFacts ==
    ASSUME NEW f \in [Requests -> Nat], NEW S
    PROVE  /\ Counted(f, S) \in [Requests -> Nat]
           /\ \A x \in Requests : Counted(f, S)[x] = IF x \in S THEN f[x] + 1 ELSE f[x]
    BY DEF Counted

(* Starting the calls in S: a lookup that succeeds finds a call that       *)
(* exists, under its own key.                                              *)
LEMMA StartIndex ==
    ASSUME NEW S \in SUBSET Requests, NEW K \in [Keys -> Requests \cup {None}],
           NEW L \in SUBSET Requests, NEW T,
           \A k \in Keys : K[k] # None => K[k] \in L /\ KeyOf[K[k]] = k,
           start(S, K, L, T)
    PROVE  IndexInv'
<1>1. live' = L \cup S BY DEF start
<1>2. ASSUME NEW k \in Keys
      PROVE  /\ keyToId'[k] \in Requests \cup {None}
             /\ keyToId'[k] # None => keyToId'[k] \in live' /\ KeyOf[keyToId'[k]] = k
  <2>1. CASE \E s \in S : KeyOf[s] = k
    <3> DEFINE c == CHOOSE s \in S : KeyOf[s] = k
    <3>1. c \in S /\ KeyOf[c] = k BY <2>1
    <3>2. keyToId'[k] = c BY <2>1 DEF start
    <3> HIDE DEF c
    <3> QED BY <1>1, <3>1, <3>2
  <2>2. CASE ~\E s \in S : KeyOf[s] = k
    <3>1. keyToId'[k] = K[k] BY <2>2 DEF start
    <3> QED BY <1>1, <3>1
  <2> QED BY <2>1, <2>2
<1>3. keyToId' = [k \in Keys |-> keyToId'[k]] BY DEF start
<1> QED BY <1>2, <1>3 DEF IndexInv, IndexIsSound

(* The pipeline's own part of the invariant.                               *)
Own == CallsInv /\ RepliesInv /\ StopInv /\ IndexInv

LEMMA PInvFacts ==
    ASSUME PInv
    PROVE  /\ IInv /\ Own /\ CallsInv /\ RepliesInv /\ StopInv /\ IndexInv
           /\ Queued \subseteq called /\ Queued \subseteq Requests /\ called \subseteq Requests
           /\ live \subseteq called /\ live \cap Queued = {} /\ live \subseteq Requests
<1>1. IInv /\ Own /\ CallsInv /\ RepliesInv /\ StopInv /\ IndexInv BY DEF PInv, Own
<1> QED BY <1>1, QueuedFacts DEF CallsInv

(* A request that is answered without having been to the governor.         *)
LEMMA TurnedAway ==
    ASSUME PInv, NEW r \in Requests, unseen(r), replies' = Counted(replies, {r}),
           UNCHANGED <<vars, callVars, keyToId, stopping>>
    PROVE  Own'
<1> USE PInvFacts
<1>1. /\ called' = called /\ Queued' = Queued /\ permits' = permits /\ live' = live
      /\ busy' = busy /\ promoteTimer' = promoteTimer /\ cancelled' = cancelled
      /\ responded' = responded /\ attempt' = attempt
  BY DEF vars, callVars, Queued
<1>2. CallsInv' BY <1>1 DEF CallsInv
<1>3. RepliesInv'
  <2>1. /\ replies' \in [Requests -> Nat]
        /\ \A x \in Requests : replies'[x] = IF x = r THEN replies[x] + 1 ELSE replies[x]
    BY CountedFacts DEF RepliesInv
  <2>2. r \notin called /\ replies[r] = 0 BY DEF unseen
  <2> QED BY <1>1, <2>1, <2>2 DEF RepliesInv
<1>4. StopInv' BY <1>1 DEF StopInv
<1>5. IndexInv' BY <1>1 DEF IndexInv, IndexIsSound
<1> QED BY <1>2, <1>3, <1>4, <1>5 DEF Own

(* Calls that answer, are cancelled or come back while the governor stands *)
(* still.                                                                  *)
LEMMA CallsMove ==
    ASSUME PInv, NEW S \in SUBSET live,
           UNCHANGED <<vars, live, keyToId, stopping>>,
           replies' \in [Requests -> Nat],
           \A x \in Requests :
              replies'[x] = IF x \in S /\ x \notin responded THEN replies[x] + 1 ELSE replies[x],
           responded' = responded \cup S,
           cancelled \subseteq cancelled', cancelled' \subseteq cancelled \cup S,
           busy' \subseteq busy, busy \subseteq busy' \cup S \cup responded,
           promoteTimer' \subseteq promoteTimer, attempt' \in [Requests -> Nat]
    PROVE  Own'
<1> USE PInvFacts
<1>1. called' = called /\ Queued' = Queued /\ permits' = permits BY DEF vars, Queued
<1>2. CallsInv' BY <1>1 DEF CallsInv
<1>3. RepliesInv' BY <1>1 DEF RepliesInv
<1>4. StopInv' BY <1>1 DEF StopInv
<1>5. IndexInv' BY DEF IndexInv, IndexIsSound
<1> QED BY <1>2, <1>3, <1>4, <1>5 DEF Own

(* Steps that neither touch a Call nor an answer.                          *)
LEMMA NothingMoves ==
    ASSUME PInv, UNCHANGED <<permits, called, replies, stopping, keyToId>>,
           Queued' = Queued, UNCHANGED callVars
    PROVE  Own'
    BY PInvFacts DEF Own, CallsInv, RepliesInv, StopInv, IndexInv, IndexIsSound, callVars

(* A request that the governor or the circuit turns down, with the waiters *)
(* that are turned down in the same step.                                  *)
LEMMA TurnedDown ==
    ASSUME PInv, NEW r \in Requests, unseen(r), ~stopping, stopping' = stopping,
           replies' = Counted(replies, {r} \cup (Queued \ Queued')),
           called' = called \cup {r}, Queued' \subseteq Queued, permits' = permits,
           UNCHANGED <<callVars, keyToId>>
    PROVE  Own'
<1> USE PInvFacts
<1>1. /\ live' = live /\ busy' = busy /\ cancelled' = cancelled
      /\ responded' = responded /\ promoteTimer' = promoteTimer /\ attempt' = attempt
  BY DEF callVars
<1>2. CallsInv' BY <1>1 DEF CallsInv
<1>3. RepliesInv'
  <2>1. /\ replies' \in [Requests -> Nat]
        /\ \A x \in Requests : replies'[x] =
              IF x = r \/ x \in Queued \ Queued' THEN replies[x] + 1 ELSE replies[x]
    BY CountedFacts DEF RepliesInv
  <2>2. replies[r] = 0 /\ r \notin called BY DEF unseen
  <2>3. responded' \subseteq called' \ Queued' BY <1>1 DEF RepliesInv
  <2>4. \A x \in Requests : replies'[x] <= 1 BY <2>1, <2>2 DEF RepliesInv
  <2>5. \A x \in Queued' : replies'[x] = 0 BY <2>1, <2>2 DEF RepliesInv
  <2>6. \A x \in live' : replies'[x] = IF x \in responded' THEN 1 ELSE 0
    BY <1>1, <2>1, <2>2 DEF RepliesInv
  <2>7. ASSUME NEW x \in called', x \notin Queued', x \notin live'
        PROVE  replies'[x] = 1
    <3>1. CASE x = r BY <2>1, <2>2, <3>1
    <3>2. CASE x # r /\ x \in Queued BY <2>1, <2>7, <3>2 DEF RepliesInv
    <3>3. CASE x # r /\ x \notin Queued
      <4>1. x \in called /\ x \in Requests /\ x \notin live BY <1>1, <2>7, <3>3
      <4> QED BY <2>1, <3>3, <4>1 DEF RepliesInv
    <3> QED BY <3>1, <3>2, <3>3
  <2> QED BY <1>1, <2>1, <2>3, <2>4, <2>5, <2>6, <2>7 DEF RepliesInv
<1>4. StopInv' BY DEF StopInv
<1>5. IndexInv' BY <1>1 DEF IndexInv, IndexIsSound
<1> QED BY <1>2, <1>3, <1>4, <1>5 DEF Own

LEMMA StepHandle ==
    ASSUME PInv, NEW r \in Requests, handleCall(r)
    PROVE  Own'
<1> USE PInvFacts
<1>r. replies \in [Requests -> Nat] BY DEF RepliesInv
<1>1. CASE deny(r) \/ drainReject(r)
  BY <1>1, TurnedAway DEF deny, drainReject, inflightVars
<1>2. CASE inflightHit(r)
  BY <1>2, TurnedAway DEF inflightHit
<1>3. CASE startNow(r)
  <2>1. /\ unseen(r) /\ ~stopping /\ stopping' = stopping /\ replies' = replies
        /\ start({r}, keyToId, live, promoteTimer)
    BY <1>3 DEF startNow, passes
  <2>2. /\ r \notin called /\ called' = called \cup {r}
        /\ Queued' = Queued /\ permits' = permits \cup {r}
    BY <1>3, GoEffect DEF startNow
  <2>3. /\ live' = live \cup {r} /\ busy' = busy \cup {r}
        /\ promoteTimer' = promoteTimer \cup {r}
        /\ cancelled' = cancelled /\ responded' = responded
        /\ attempt' = Counted(attempt, {r})
    BY <2>1 DEF start
  <2>4. attempt' \in [Requests -> Nat] BY <2>3, CountedFacts DEF CallsInv
  <2>5. CallsInv' BY <2>1, <2>2, <2>3, <2>4 DEF CallsInv
  <2>6. RepliesInv' BY <2>1, <2>2, <2>3 DEF RepliesInv, unseen
  <2>7. StopInv' BY <2>1 DEF StopInv
  <2>8. IndexInv' BY <2>1, StartIndex DEF IndexInv, IndexIsSound
  <2> QED BY <2>5, <2>6, <2>7, <2>8 DEF Own
<1>4. CASE refuseNow(r)
  <2>1. /\ unseen(r) /\ ~stopping /\ stopping' = stopping /\ permits' = permits
        /\ replies' = Counted(replies, {r} \cup (Queued \ Queued'))
        /\ UNCHANGED <<callVars, keyToId>>
    BY <1>4 DEF refuseNow, passes
  <2>2. called' = called \cup {r} /\ Queued' \subseteq Queued
    BY <1>4, DroppedEffect DEF refuseNow
  <2> QED BY <2>1, <2>2, TurnedDown
<1>5. CASE rejectNow(r)
  <2>1. /\ unseen(r) /\ ~stopping /\ stopping' = stopping
        /\ replies' = Counted(replies, {r}) /\ UNCHANGED <<callVars, keyToId>>
    BY <1>5 DEF rejectNow, passes
  <2>2. called' = called \cup {r} /\ Queued' = Queued /\ permits' = permits
    BY <1>5, RejectEffect DEF rejectNow
  <2>3. {r} \cup (Queued \ Queued') = {r} BY <2>2
  <2> QED BY <2>1, <2>2, <2>3, TurnedDown
<1>6. CASE queueUp(r)
  <2>1. /\ unseen(r) /\ ~stopping /\ stopping' = stopping
        /\ replies' = replies /\ UNCHANGED <<callVars, keyToId>>
    BY <1>6 DEF queueUp, passes
  <2>2. /\ r \notin called /\ called' = called \cup {r}
        /\ Queued' = Queued \cup {r} /\ permits' = permits
    BY <1>6, QueueEffect DEF queueUp
  <2>3. CallsInv' BY <2>1, <2>2 DEF CallsInv, callVars
  <2>4. RepliesInv' BY <2>1, <2>2 DEF RepliesInv, callVars, unseen
  <2>5. StopInv' BY <2>1 DEF StopInv
  <2>6. IndexInv' BY <2>1 DEF IndexInv, IndexIsSound, callVars
  <2> QED BY <2>3, <2>4, <2>5, <2>6 DEF Own
<1> QED BY <1>1, <1>2, <1>3, <1>4, <1>5, <1>6 DEF handleCall

LEMMA StepTimers ==
    ASSUME PInv, NEW r \in Requests, waitTimedOut(r) \/ onPromote(r)
    PROVE  Own'
<1> USE PInvFacts
<1>r. replies \in [Requests -> Nat] BY DEF RepliesInv
<1>1. CASE waitTimedOut(r)
  <2>1. /\ UNCHANGED <<callVars, keyToId, stopping>> /\ replies' = Counted(replies, {r})
    BY <1>1 DEF waitTimedOut, inflightVars
  <2>2. /\ r \in Queued /\ Queued' = Queued \ {r}
        /\ called' = called /\ permits' = permits
    BY <1>1, TimerEffect DEF waitTimedOut
  <2>3. /\ live' = live /\ busy' = busy /\ cancelled' = cancelled
        /\ responded' = responded /\ promoteTimer' = promoteTimer /\ attempt' = attempt
    BY <2>1 DEF callVars
  <2>4. CallsInv' BY <2>1, <2>2, <2>3 DEF CallsInv
  <2>5. /\ replies' \in [Requests -> Nat]
        /\ \A x \in Requests : replies'[x] = IF x = r THEN replies[x] + 1 ELSE replies[x]
    BY <1>r, <2>1, CountedFacts
  <2>6. RepliesInv' BY <2>2, <2>3, <2>5 DEF RepliesInv
  <2>7. StopInv' BY <2>1, <2>2, <2>3 DEF StopInv
  <2>8. IndexInv' BY <2>1, <2>3 DEF IndexInv, IndexIsSound
  <2> QED BY <2>4, <2>6, <2>7, <2>8 DEF Own
<1>2. CASE onPromote(r)
  <2>1. /\ r \in live /\ promoteTimer' \subseteq promoteTimer
        /\ UNCHANGED <<vars, live, keyToId, stopping, busy, cancelled, attempt>>
    BY <1>2 DEF onPromote, inflightVars, CallsInv
  <2>2. attempt' \in [Requests -> Nat] BY <2>1 DEF CallsInv
  <2>3. CASE r \in responded \cup cancelled
    <3>1. replies' = replies /\ responded' = responded \cup {}
      BY <1>2, <2>3 DEF onPromote
    <3> QED BY <1>r, <2>1, <2>2, <3>1, CallsMove
  <2>4. CASE r \notin responded \cup cancelled
    <3>1. respond({r}) BY <1>2, <2>4 DEF onPromote
    <3>2. /\ responded' = responded \cup {r} /\ replies' \in [Requests -> Nat]
          /\ \A x \in Requests : replies'[x] =
                IF x \in {r} /\ x \notin responded THEN replies[x] + 1 ELSE replies[x]
      BY <1>r, <3>1, CountedFacts DEF respond
    <3>3. {r} \in SUBSET live BY <2>1
    <3> QED BY <2>1, <2>2, <3>2, <3>3, CallsMove
  <2> QED BY <2>3, <2>4
<1> QED BY <1>1, <1>2

LEMMA StepUpstream ==
    ASSUME PInv, NEW r \in Requests, upstreamReturns(r)
    PROVE  Own'
<1> USE PInvFacts
<1>r. replies \in [Requests -> Nat] /\ attempt \in [Requests -> Nat]
  BY DEF RepliesInv, CallsInv
<1>1. CASE onUpstreamCancelled(r)
  <2>1. /\ r \in responded /\ busy' = busy \ {r} /\ responded' = responded \cup {}
        /\ UNCHANGED <<vars, live, keyToId, stopping, promoteTimer, cancelled, attempt, replies>>
    BY <1>1 DEF onUpstreamCancelled, inflightVars, RepliesInv
  <2> QED BY <1>r, <2>1, CallsMove
<1>2. ASSUME NEW klass, NEW late, onUpstream(r, klass, late) PROVE Own'
  <2>1. r \in live /\ UNCHANGED <<vars, live, keyToId, stopping, cancelled>>
    BY <1>2 DEF onUpstream, inflightVars, CallsInv
  <2>2. CASE retries(r, klass, late)
    <3>1. /\ attempt' = Counted(attempt, {r}) /\ responded' = responded \cup {}
          /\ UNCHANGED <<busy, promoteTimer, replies>>
      BY <1>2, <2>2 DEF onUpstream
    <3>2. attempt' \in [Requests -> Nat] BY <1>r, <3>1, CountedFacts
    <3> QED BY <1>r, <2>1, <3>1, <3>2, CallsMove
  <2>3. CASE ~retries(r, klass, late)
    <3>1. /\ busy' = busy \ {r} /\ promoteTimer' = promoteTimer \ {r}
          /\ respond({r}) /\ attempt' = attempt
      BY <1>2, <2>3 DEF onUpstream
    <3>2. /\ responded' = responded \cup {r} /\ replies' \in [Requests -> Nat]
          /\ \A x \in Requests : replies'[x] =
                IF x \in {r} /\ x \notin responded THEN replies[x] + 1 ELSE replies[x]
      BY <1>r, <3>1, CountedFacts DEF respond
    <3>3. {r} \in SUBSET live BY <2>1
    <3> QED BY <1>r, <2>1, <3>1, <3>2, <3>3, CallsMove
  <2> QED BY <2>2, <2>3
<1> QED BY <1>1, <1>2 DEF upstreamReturns

(* ~Call, and the calls of the waiters its permit passes on to.            *)
LEMMA StepDestroy ==
    ASSUME PInv, NEW r \in Requests, destroyCall(r)
    PROVE  Own'
<1> USE PInvFacts
<1> DEFINE served == Queued \ Queued'
           kept   == permits' \ permits
<1>1. /\ r \in live \ busy /\ stopping' = stopping
      /\ start(kept, erase(r), live \ {r}, promoteTimer \ {r})
      /\ replies' = Counted(replies, (served \ kept) \cup ({r} \ responded))
  BY DEF destroyCall
<1>2. /\ called' = called /\ Queued' \subseteq Queued /\ kept \subseteq served
      /\ permits' = (permits \ {r}) \cup kept
  BY ReleaseEffect DEF destroyCall
<1>3. r \in responded /\ kept \cap live = {} /\ kept \subseteq Requests
  BY <1>1, <1>2 DEF RepliesInv, CallsInv
<1>4. /\ live' = (live \ {r}) \cup kept /\ busy' = busy \cup kept
      /\ promoteTimer' = (promoteTimer \ {r}) \cup kept
      /\ cancelled' = cancelled /\ responded' = responded
      /\ attempt' = Counted(attempt, kept)
  BY <1>1 DEF start
<1>5. /\ replies' \in [Requests -> Nat]
      /\ \A x \in Requests : replies'[x] =
            IF x \in served /\ x \notin kept THEN replies[x] + 1 ELSE replies[x]
  <2>1. (served \ kept) \cup ({r} \ responded) = served \ kept BY <1>3
  <2> QED BY <1>1, <2>1, CountedFacts DEF RepliesInv
<1>6. IndexInv'
  <2>1. /\ erase(r) \in [Keys -> Requests \cup {None}]
        /\ \A k \in Keys : erase(r)[k] = IF k = KeyOf[r] THEN None ELSE keyToId[k]
    BY DEF erase, IndexInv
  <2>2. \A k \in Keys : erase(r)[k] # None =>
           erase(r)[k] \in live \ {r} /\ KeyOf[erase(r)[k]] = k
    BY <2>1 DEF IndexInv, IndexIsSound
  <2> HIDE DEF kept
  <2>3. kept \in SUBSET Requests /\ live \ {r} \in SUBSET Requests BY <1>3
  <2> QED BY <1>1, <2>1, <2>2, <2>3, StartIndex
<1> HIDE DEF served, kept
<1>7. attempt' \in [Requests -> Nat] BY <1>4, CountedFacts DEF CallsInv
<1>8. CallsInv' BY <1>1, <1>2, <1>3, <1>4, <1>7 DEF CallsInv
<1>9. RepliesInv'
  <2>1. served \subseteq Queued /\ Queued' = Queued \ served BY <1>2 DEF served
  <2>2. responded' \subseteq called' \ Queued' BY <1>2, <1>4 DEF RepliesInv
  <2>3. live' \ busy' \subseteq responded' BY <1>4 DEF RepliesInv
  <2>4. \A x \in Requests : replies'[x] <= 1 BY <1>5, <2>1 DEF RepliesInv
  <2>5. \A x \in Queued' : replies'[x] = 0 BY <1>5, <2>1 DEF RepliesInv
  <2>6. \A x \in live' : replies'[x] = IF x \in responded' THEN 1 ELSE 0
    <3>1. ASSUME NEW x \in kept PROVE replies'[x] = 0 /\ x \notin responded'
      <4>1. x \in Queued /\ x \in Requests BY <1>2, <1>3, <2>1
      <4> QED BY <1>4, <1>5, <3>1, <4>1 DEF RepliesInv
    <3>2. ASSUME NEW x \in live \ {r} PROVE replies'[x] = IF x \in responded' THEN 1 ELSE 0
      <4>1. x \notin served /\ x \in Requests BY <2>1
      <4> QED BY <1>4, <1>5, <4>1 DEF RepliesInv
    <3> QED BY <1>4, <3>1, <3>2
  <2>7. \A x \in called' : x \notin Queued' /\ x \notin live' => replies'[x] = 1
    <3> SUFFICES ASSUME NEW x \in called, x \notin Queued', x \notin live'
                 PROVE  replies'[x] = 1
      BY <1>2
    <3>1. x \in Requests /\ x \notin kept BY <1>4
    <3>2. CASE x \in served BY <1>5, <2>1, <3>1, <3>2 DEF RepliesInv
    <3>3. CASE x \notin served
      <4>1. x \notin Queued BY <2>1, <3>3
      <4>2. CASE x = r BY <1>1, <1>3, <1>5, <3>1, <3>3, <4>2 DEF RepliesInv
      <4>3. CASE x # r BY <1>4, <1>5, <3>1, <3>3, <4>1, <4>3 DEF RepliesInv
      <4> QED BY <4>2, <4>3
    <3> QED BY <3>2, <3>3
  <2>8. cancelled' \subseteq responded' BY <1>4 DEF RepliesInv
  <2> QED BY <1>5, <2>2, <2>3, <2>4, <2>5, <2>6, <2>7, <2>8 DEF RepliesInv
<1>10. StopInv'
  <2>1. stopping => kept = {} BY <1>2 DEF StopInv, served
  <2> QED BY <1>1, <1>2, <1>4, <2>1 DEF StopInv
<1> QED BY <1>6, <1>8, <1>9, <1>10 DEF Own

LEMMA StepCancel ==
    ASSUME PInv, NEW h \in Requests, cancelTask(h)
    PROVE  Own'
<1> USE PInvFacts
<1> DEFINE S == {h} \cap live
<1>1. /\ respond(S) /\ cancelled' = cancelled \cup S
      /\ UNCHANGED <<vars, live, keyToId, stopping, busy, promoteTimer, attempt>>
  BY DEF cancelTask, inflightVars
<1>2. S \in SUBSET live OBVIOUS
<1> HIDE DEF S
<1>3. /\ responded' = responded \cup S /\ replies' \in [Requests -> Nat]
      /\ \A x \in Requests : replies'[x] =
            IF x \in S /\ x \notin responded THEN replies[x] + 1 ELSE replies[x]
  BY <1>1, CountedFacts DEF respond, RepliesInv
<1>4. attempt' \in [Requests -> Nat] BY <1>1 DEF CallsInv
<1> QED BY <1>1, <1>2, <1>3, <1>4, CallsMove

LEMMA StepStop ==
    ASSUME PInv, requestStop
    PROVE  Own'
<1> USE PInvFacts
<1>1. /\ stopping' = TRUE /\ cancelled' = cancelled \cup live
      /\ responded' = responded \cup live
      /\ replies' = Counted(replies, (live \ responded) \cup Queued)
      /\ UNCHANGED <<keyToId, live, busy, promoteTimer, attempt>>
  BY DEF requestStop, inflightVars
<1>2. Queued' = {} /\ called' = called /\ permits' = permits
  BY RejectAllEffect DEF requestStop
<1>3. /\ replies' \in [Requests -> Nat]
      /\ \A x \in Requests : replies'[x] =
            IF x \in (live \ responded) \cup Queued THEN replies[x] + 1 ELSE replies[x]
  BY <1>1, CountedFacts DEF RepliesInv
<1>4. CallsInv' BY <1>1, <1>2 DEF CallsInv
<1>5. RepliesInv'
  <2>1. \A x \in Requests : replies'[x] <= 1 BY <1>3 DEF RepliesInv
  <2>2. \A x \in live' : replies'[x] = IF x \in responded' THEN 1 ELSE 0
    BY <1>1, <1>3 DEF RepliesInv
  <2>3. ASSUME NEW x \in called', x \notin live' PROVE replies'[x] = 1
    <3>1. x \in Requests /\ x \in called /\ x \notin live BY <1>1, <1>2, <2>3
    <3>2. CASE x \in Queued BY <1>3, <3>1, <3>2 DEF RepliesInv
    <3>3. CASE x \notin Queued BY <1>3, <3>1, <3>3 DEF RepliesInv
    <3> QED BY <3>2, <3>3
  <2> QED BY <1>1, <1>2, <1>3, <2>1, <2>2, <2>3 DEF RepliesInv
<1>6. StopInv' BY <1>1, <1>2 DEF StopInv
<1>7. IndexInv' BY <1>1 DEF IndexInv, IndexIsSound
<1> QED BY <1>4, <1>5, <1>6, <1>7 DEF Own

LEMMA StepRest ==
    ASSUME PInv, \/ \E r \in Requests : taskExpires(r)
                 \/ \E b \in Backends : probeOk(b) \/ probeFailed(b)
                 \/ timePasses
                 \/ UNCHANGED pvars
    PROVE  Own'
<1> USE PInvFacts
<1>1. ASSUME NEW r \in Requests, taskExpires(r) PROVE Own'
  BY <1>1, NothingMoves DEF taskExpires, vars, Queued, inflightVars
<1>2. ASSUME NEW b \in Backends, probeOk(b) PROVE Own'
  <2>1. UNCHANGED <<queues, called, permits>>
    BY <1>2 DEF probeOk, onToolsListed, vars
  <2> QED BY <1>2, <2>1, NothingMoves DEF probeOk, Queued, inflightVars
<1>3. ASSUME NEW b \in Backends, probeFailed(b) PROVE Own'
  BY <1>3, NothingMoves DEF probeFailed, vars, Queued, inflightVars
<1>4. ASSUME timePasses PROVE Own'
  BY <1>4, NothingMoves DEF timePasses, Tick, Queued, inflightVars
<1>5. ASSUME UNCHANGED pvars PROVE Own'
  BY <1>5, NothingMoves DEF pvars, pipeVars, vars, Queued, callVars
<1> QED BY <1>1, <1>2, <1>3, <1>4, <1>5

LEMMA PInvInit == PInit => PInv
<1> SUFFICES ASSUME PInit PROVE PInv OBVIOUS
<1>1. IInv BY IInvInit DEF PInit
<1>2. Queued = {} /\ called = {} /\ permits = {}
  BY DEF PInit, Init, Queued, Elements
<1>3. CallsInv BY <1>2 DEF PInit, CallsInv
<1>4. RepliesInv BY <1>2 DEF PInit, RepliesInv
<1>5. StopInv BY DEF PInit, StopInv
<1>6. IndexInv BY DEF PInit, IndexInv, IndexIsSound
<1> QED BY <1>1, <1>3, <1>4, <1>5, <1>6 DEF PInv

LEMMA PInvStep == PInv /\ [PNext]_pvars => PInv'
<1> SUFFICES ASSUME PInv, [PNext]_pvars PROVE PInv' OBVIOUS
<1>1. IInv'
  <2>1. [Next]_vars BY GovernorStep DEF pvars
  <2> QED BY <2>1, IInvStep DEF PInv
<1>2. Own'
  BY StepHandle, StepTimers, StepUpstream, StepDestroy, StepCancel, StepStop, StepRest
  DEF PNext, dispatch
<1> QED BY <1>1, <1>2 DEF PInv, Own
-----------------------------------------------------------------------------
(* The invariant of the composed pipeline.                                 *)
THEOREM PipelineInvariant == PSpec => []PInv
    BY PInvInit, PInvStep, PTL DEF PSpec

(* The governor keeps its promises as the pipeline uses it: it is the      *)
(* component of LocalGovernor.tla that runs in the composition.            *)
THEOREM PipelineGoverns == PSpec => [](PermitAccounting /\ AnsweredOnce /\ ConcurrencyBounded)
<1>1. PInv => PermitAccounting /\ AnsweredOnce /\ ConcurrencyBounded BY DEF PInv, IInv
<1> QED BY <1>1, PipelineInvariant, PTL

(* ~Call returns the permit and nothing else does: startNow, refuseNow and *)
(* destroyCall leave no permit without a Call and no Call without one.     *)
THEOREM PipelinePermits == PSpec => []PermitsAreCalls
<1>1. PInv => PermitsAreCalls BY DEF PInv, CallsInv, PermitsAreCalls
<1> QED BY <1>1, PipelineInvariant, PTL

(* At most one of respond's callers, the governor's rejections and the     *)
(* early returns of handleCall answers a client; nobody is forgotten.      *)
THEOREM PipelineRepliesOnce == PSpec => []RepliedOnce
<1>1. PInv => RepliedOnce
  <2> SUFFICES ASSUME PInv PROVE RepliedOnce OBVIOUS
  <2> USE PInvFacts
  <2>1. ASSUME NEW r \in called, replies[r] = 0, r \notin Queued
        PROVE  r \in busy \ cancelled
    <3>1. r \in live BY <2>1 DEF RepliesInv
    <3>2. r \notin responded BY <2>1, <3>1 DEF RepliesInv
    <3> QED BY <3>1, <3>2 DEF RepliesInv
  <2> QED BY <2>1 DEF RepliedOnce, RepliesInv
<1> QED BY <1>1, PipelineInvariant, PTL

(* InFlight::lookup never finds a call that is gone or of another key.     *)
THEOREM PipelineIndexSound == PSpec => []IndexIsSound
<1>1. PInv => IndexIsSound BY DEF PInv, IndexInv
<1> QED BY <1>1, PipelineInvariant, PTL

(* canTake bounds what is outstanding at the upstreams, because an attempt *)
(* belongs to a Call and a Call to a permit.                               *)
THEOREM PipelineUpstreamBounded == PSpec => []UpstreamBounded
<1>1. PInv => UpstreamBounded
  <2> SUFFICES ASSUME PInv PROVE UpstreamBounded OBVIOUS
  <2>1. /\ busy \subseteq permits /\ permits \subseteq Requests /\ TypeOK
        /\ PermitAccounting /\ ConcurrencyBounded
    BY PInvFacts DEF IInv, CallsInv
  <2>2. IsFiniteSet(permits) BY <2>1, FiniteRequests, FS_Subset
  <2>3. ASSUME NEW t \in Tools
        PROVE  Cardinality({r \in busy : ToolOf[r] = t}) <= Limit(t)
    <3> DEFINE B == {r \in busy : ToolOf[r] = t}
               H == HoldersOfTool(t)
    <3>1. B \subseteq H /\ H \subseteq permits BY <2>1 DEF HoldersOfTool
    <3>2. IsFiniteSet(H) BY <2>2, <3>1, FS_Subset
    <3>3. /\ Cardinality(B) \in Nat /\ Cardinality(H) \in Nat
          /\ Cardinality(B) <= Cardinality(H)
      BY <3>1, <3>2, FS_Subset, FS_CardinalityType
    <3>4. Cardinality(H) <= Limit(t) /\ Limit(t) \in Nat
      BY <2>1, LimitFacts DEF PermitAccounting, ConcurrencyBounded
    <3> HIDE DEF B, H
    <3>5. Cardinality(B) <= Limit(t) BY <3>3, <3>4
    <3> QED BY <3>5 DEF B
  <2>4. ASSUME NEW a \in Agents
        PROVE  Cardinality({r \in busy : AgentOf[r] = a}) <= PerPrincipal
    <3> DEFINE B == {r \in busy : AgentOf[r] = a}
               H == HoldersOfAgent(a)
    <3>1. B \subseteq H /\ H \subseteq permits BY <2>1 DEF HoldersOfAgent
    <3>2. IsFiniteSet(H) BY <2>2, <3>1, FS_Subset
    <3>3. /\ Cardinality(B) \in Nat /\ Cardinality(H) \in Nat
          /\ Cardinality(B) <= Cardinality(H)
      BY <3>1, <3>2, FS_Subset, FS_CardinalityType
    <3>4. Cardinality(H) <= PerPrincipal /\ PerPrincipal \in Nat
      BY <2>1, LimitsAssumption DEF PermitAccounting, ConcurrencyBounded
    <3> HIDE DEF B, H
    <3>5. Cardinality(B) <= PerPrincipal BY <3>3, <3>4
    <3> QED BY <3>5 DEF B
  <2> QED BY <2>3, <2>4 DEF UpstreamBounded
<1> QED BY <1>1, PipelineInvariant, PTL

(* fireAttempt runs only for a client that still waits: at admission and   *)
(* from onUpstream's retry, which looks at responded_ and cancelled_; and  *)
(* a stop leaves no Call that is not cancelled.                            *)
THEOREM PipelineNoAttemptAfterAnswer == PSpec => NoAttemptAfterAnswer
<1> DEFINE A == \A r \in Requests : attempt'[r] > attempt[r] =>
                   replies[r] = 0 /\ r \notin cancelled /\ ~stopping
<1>1. PInv /\ [PNext]_pvars => A \/ UNCHANGED pvars
  <2> SUFFICES ASSUME PInv, PNext PROVE A OBVIOUS
  <2> USE PInvFacts
  <2>a. attempt \in [Requests -> Nat] BY DEF CallsInv
  <2>1. ASSUME attempt' = attempt PROVE A BY <2>1, <2>a
  <2>2. ASSUME NEW S, attempt' = Counted(attempt, S),
               \A r \in S : replies[r] = 0 /\ r \notin cancelled /\ ~stopping
        PROVE  A
    BY <2>2, <2>a, CountedFacts
  <2> HIDE DEF A
  <2>3. ASSUME NEW r \in Requests, handleCall(r) PROVE A
    <3>1. CASE startNow(r)
      <4>1. unseen(r) /\ ~stopping /\ attempt' = Counted(attempt, {r})
        BY <3>1 DEF startNow, passes, start
      <4>2. replies[r] = 0 /\ r \notin cancelled BY <4>1 DEF unseen, RepliesInv
      <4> QED BY <2>2, <4>1, <4>2
    <3>2. CASE ~startNow(r)
      <4>1. attempt' = attempt
        BY <2>3, <3>2 DEF handleCall, deny, inflightHit, drainReject, refuseNow, rejectNow,
                          queueUp, callVars
      <4> QED BY <2>1, <4>1
    <3> QED BY <3>1, <3>2
  <2>4. ASSUME NEW r \in Requests, upstreamReturns(r) PROVE A
    <3>1. CASE onUpstreamCancelled(r) BY <2>1, <3>1 DEF onUpstreamCancelled
    <3>2. ASSUME NEW klass, NEW late, onUpstream(r, klass, late) PROVE A
      <4>1. CASE retries(r, klass, late)
        <5>1. r \in busy \ cancelled /\ attempt' = Counted(attempt, {r})
          BY <3>2, <4>1 DEF onUpstream
        <5>2. r \notin responded BY <4>1 DEF retries
        <5>3. r \in live /\ replies[r] = 0 BY <5>1, <5>2 DEF CallsInv, RepliesInv
        <5>4. ~stopping BY <5>1, <5>3 DEF StopInv
        <5> QED BY <2>2, <5>1, <5>3, <5>4
      <4>2. CASE ~retries(r, klass, late) BY <2>1, <3>2, <4>2 DEF onUpstream
      <4> QED BY <4>1, <4>2
    <3> QED BY <2>4, <3>1, <3>2 DEF upstreamReturns
  <2>5. ASSUME NEW r \in Requests, destroyCall(r) PROVE A
    <3> DEFINE kept == permits' \ permits
    <3>1. attempt' = Counted(attempt, kept) BY <2>5 DEF destroyCall, start
    <3>2. kept \subseteq Queued BY <2>5, ReleaseEffect DEF destroyCall
    <3> HIDE DEF kept
    <3>3. \A x \in kept : replies[x] = 0 /\ x \notin cancelled /\ ~stopping
      BY <3>2 DEF RepliesInv, StopInv
    <3> QED BY <2>2, <3>1, <3>3
  <2>6. ASSUME NEW r \in Requests,
               waitTimedOut(r) \/ onPromote(r) \/ cancelTask(r) \/ taskExpires(r)
        PROVE  A
    BY <2>1, <2>6 DEF waitTimedOut, onPromote, cancelTask, taskExpires, callVars
  <2>7. ASSUME NEW b \in Backends, probeOk(b) \/ probeFailed(b) PROVE A
    BY <2>1, <2>7 DEF probeOk, probeFailed, callVars
  <2>8. ASSUME requestStop \/ timePasses PROVE A
    BY <2>1, <2>8 DEF requestStop, timePasses, callVars
  <2> QED BY <2>3, <2>4, <2>5, <2>6, <2>7, <2>8 DEF PNext, dispatch
<1>2. PSpec => [][PNext]_pvars BY PTL DEF PSpec
<1> QED BY <1>1, <1>2, PipelineInvariant, PTL DEF NoAttemptAfterAnswer
-----------------------------------------------------------------------------
(* The tasks, the attempts and the circuits.                               *)

(* A request has a task or an attempt only once the governor is done with  *)
(* it, and a call that runs under a cancelled task is itself cancelled.    *)
TaskInv ==
    /\ task \in [Requests -> TaskStatus]
    /\ Cardinality(Stored) <= MaxTasks
    /\ \A r \in Requests : task[r] # "none" => r \in called \ Queued
    /\ \A r \in busy : task[r] = "cancelled" => r \in cancelled

AttemptInv ==
    /\ attempt \in [Requests -> 0..MaxAttempts]
    /\ \A r \in Requests : attempt[r] > 0 => r \in called \ Queued

HealthInv ==
    /\ circuit \in [Backends -> Slot]
    /\ probeFails \in [Backends -> 0..DownAfter]

FlagsInv == unwinding \in BOOLEAN /\ tokens \subseteq Requests /\ confirmed \subseteq Requests

TInv == TaskInv /\ AttemptInv /\ HealthInv /\ FlagsInv

(* What CancelledStays says of one step.                                   *)
CancelledKept ==
    \A r \in Requests : task[r] = "cancelled" => task'[r] \in {"cancelled", "expired"}

(* Whoever the governor is done with stays so.                             *)
Done == called \ Queued

LEMMA StoredCounts ==
    ASSUME NEW S \in SUBSET Requests, NEW T \in SUBSET Requests
    PROVE  /\ Cardinality(S) \in Nat
           /\ T \subseteq S => Cardinality(T) <= Cardinality(S)
           /\ \A x : T \subseteq S \cup {x} => Cardinality(T) <= Cardinality(S) + 1
<1>1. IsFiniteSet(S) /\ Cardinality(S) \in Nat /\ Cardinality(T) \in Nat BY FiniteRequests
<1>2. T \subseteq S => Cardinality(T) <= Cardinality(S) BY <1>1, FS_Subset
<1>3. ASSUME NEW x, T \subseteq S \cup {x} PROVE Cardinality(T) <= Cardinality(S) + 1
  <2>1. IsFiniteSet(S \cup {x}) BY <1>1, FS_AddElement
  <2>2. Cardinality(T) <= Cardinality(S \cup {x}) BY <1>3, <2>1, FS_Subset
  <2>3. CASE x \in S
    <3>1. S \cup {x} = S BY <2>3
    <3>2. Cardinality(T) <= Cardinality(S) BY <2>2, <3>1
    <3> QED BY <1>1, <3>2
  <2>4. CASE x \notin S
    <3>1. Cardinality(S \cup {x}) = Cardinality(S) + 1 BY <1>1, <2>4, FS_AddElement
    <3> QED BY <2>2, <3>1
  <2> QED BY <2>3, <2>4
<1> QED BY <1>1, <1>2, <1>3

LEMMA TaskStands ==
    ASSUME TaskInv, task' = task, Done \subseteq Done', cancelled \subseteq cancelled',
           \A r \in busy' \ busy : task[r] # "cancelled"
    PROVE  TaskInv' /\ CancelledKept
<1>1. Stored' = Stored BY DEF Stored
<1> QED BY <1>1 DEF TaskInv, CancelledKept, Done

LEMMA InsertKeeps ==
    ASSUME TaskInv, NEW h \in Requests, h \in Done, task[h] = "none", insertTask(h),
           Done' = Done, busy' = busy, cancelled' = cancelled
    PROVE  TaskInv' /\ CancelledKept
<1>1. CASE task' = task BY <1>1, TaskStands
<1>2. ASSUME NEW st \in {"working", "expired"}, Cardinality(Stored) < MaxTasks,
             task' = [task EXCEPT ![h] = st]
      PROVE  TaskInv' /\ CancelledKept
  <2>1. /\ task' \in [Requests -> TaskStatus] /\ task'[h] = st
        /\ \A r \in Requests \ {h} : task'[r] = task[r]
    BY <1>2 DEF TaskInv, TaskStatus
  <2>2. Stored \in SUBSET Requests /\ Stored' \in SUBSET Requests /\ Stored' \subseteq Stored \cup {h}
    BY <2>1 DEF Stored
  <2>3. Cardinality(Stored') <= MaxTasks
    <3> DEFINE n == Cardinality(Stored)
               m == Cardinality(Stored')
    <3>1. n \in Nat /\ m \in Nat /\ m <= n + 1 BY <2>2, StoredCounts
    <3>2. n < MaxTasks /\ MaxTasks \in Nat BY <1>2, PipelineAssumption
    <3> HIDE DEF n, m
    <3>3. m <= MaxTasks BY <3>1, <3>2
    <3> QED BY <3>3 DEF m
  <2>4. \A r \in Requests : task'[r] # "none" => r \in called' \ Queued'
    BY <2>1 DEF TaskInv, Done
  <2>5. \A r \in busy' : task'[r] = "cancelled" => r \in cancelled'
    <3> SUFFICES ASSUME NEW r \in busy, task'[r] = "cancelled" PROVE r \in cancelled OBVIOUS
    <3>1. CASE r \in Requests \ {h} BY <2>1, <3>1 DEF TaskInv
    <3>2. CASE r = h BY <1>2, <2>1, <3>2
    <3>3. CASE r \notin Requests
      <4>1. task'[r] = task[r] BY <1>2, <3>3 DEF TaskInv
      <4> QED BY <4>1 DEF TaskInv
    <3> QED BY <3>1, <3>2, <3>3
  <2>6. CancelledKept BY <2>1 DEF CancelledKept
  <2> QED BY <2>1, <2>3, <2>4, <2>5, <2>6 DEF TaskInv
<1> QED BY <1>1, <1>2 DEF insertTask

LEMMA UpdateKeeps ==
    ASSUME TaskInv, NEW S, NEW st \in {"completed", "failed", "cancelled"},
           updateStatus(S, st), Done \subseteq Done', busy' \subseteq busy, busy \subseteq Requests,
           cancelled \subseteq cancelled',
           st = "cancelled" => S \cap busy' \subseteq cancelled',
           st # "cancelled" => \A r \in S : task[r] # "cancelled"
    PROVE  TaskInv' /\ CancelledKept
<1>1. \A r \in Requests : task'[r] = IF r \in S \cap Stored THEN st ELSE task[r]
  BY DEF updateStatus
<1>2. task' \in [Requests -> TaskStatus] BY DEF updateStatus, TaskInv, TaskStatus
<1>3. Stored' = Stored BY <1>1 DEF Stored
<1>4. \A r \in Requests : task'[r] # "none" => r \in called' \ Queued'
  BY <1>1 DEF TaskInv, Done, Stored
<1>5. \A r \in busy' : task'[r] = "cancelled" => r \in cancelled' BY <1>1 DEF TaskInv
<1>6. CancelledKept BY <1>1 DEF CancelledKept
<1> QED BY <1>2, <1>3, <1>4, <1>5, <1>6 DEF TaskInv

LEMMA ExpireKeeps ==
    ASSUME TaskInv, NEW h \in Requests, h \in Stored, task' = [task EXCEPT ![h] = "expired"],
           Done' = Done, busy' = busy, cancelled' = cancelled, busy \subseteq Requests
    PROVE  TaskInv' /\ CancelledKept
<1>1. /\ task' \in [Requests -> TaskStatus] /\ task'[h] = "expired" /\ task[h] # "none"
      /\ \A r \in Requests \ {h} : task'[r] = task[r]
  BY DEF TaskInv, TaskStatus, Stored
<1>2. Stored \in SUBSET Requests /\ Stored' \in SUBSET Requests /\ Stored' \subseteq Stored
  BY <1>1 DEF Stored
<1>3. Cardinality(Stored') <= MaxTasks
  <2> DEFINE n == Cardinality(Stored)
             m == Cardinality(Stored')
  <2>1. n \in Nat /\ m \in Nat /\ m <= n BY <1>2, StoredCounts
  <2>2. n <= MaxTasks /\ MaxTasks \in Nat BY PipelineAssumption DEF TaskInv
  <2> HIDE DEF n, m
  <2>3. m <= MaxTasks BY <2>1, <2>2
  <2> QED BY <2>3 DEF m
<1>4. \A r \in Requests : task'[r] # "none" => r \in called' \ Queued'
  BY <1>1 DEF TaskInv, Done
<1>5. \A r \in busy' : task'[r] = "cancelled" => r \in cancelled' BY <1>1 DEF TaskInv
<1>6. CancelledKept BY <1>1 DEF CancelledKept
<1> QED BY <1>1, <1>3, <1>4, <1>5, <1>6 DEF TaskInv
(* A lookup that finds something finds a call that exists.                 *)
LEMMA LookupFacts ==
    ASSUME PInv, NEW r \in Requests, lookup(r) # None
    PROVE  lookup(r) \in live /\ lookup(r) \in Done /\ lookup(r) \in Requests
<1>1. lookup(r) \in live BY DEF lookup
<1> QED BY <1>1, PInvFacts DEF Done

(* The governor's part of a step only adds to those it is done with.       *)
LEMMA DoneGrows ==
    ASSUME PInv, PInv', [PNext]_pvars
    PROVE  Done \subseteq Done'
<1>1. [Next]_vars BY GovernorStep DEF pvars
<1>2. IInv /\ IInv' BY DEF PInv
<1> QED BY <1>1, <1>2, SettledGrows DEF Done

LEMMA TaskStep ==
    ASSUME PInv, PInv', TaskInv, PNext
    PROVE  TaskInv' /\ CancelledKept
<1> USE PInvFacts
<1>d. Done \subseteq Done' BY DoneGrows
<1>b. busy \subseteq Requests BY DEF CallsInv
<1>v. ASSUME UNCHANGED vars PROVE Done' = Done BY <1>v DEF vars, Done, Queued
<1>1. ASSUME NEW r \in Requests, handleCall(r) PROVE TaskInv' /\ CancelledKept
  <2>1. CASE deny(r) \/ drainReject(r) \/ refuseNow(r) \/ rejectNow(r) \/ queueUp(r)
    <3>1. task' = task /\ busy' = busy /\ cancelled' = cancelled
      BY <2>1 DEF deny, drainReject, refuseNow, rejectNow, queueUp, passes, callVars
    <3> QED BY <1>d, <3>1, TaskStands
  <2>2. CASE inflightHit(r)
    <3> DEFINE h == lookup(r)
    <3>1. h # None /\ busy' = busy /\ cancelled' = cancelled /\ UNCHANGED vars
      BY <2>2 DEF inflightHit, callVars
    <3>2. h \in Requests /\ h \in Done BY <3>1, LookupFacts
    <3>3. (task[h] = "none" /\ insertTask(h)) \/ task' = task BY <2>2 DEF inflightHit
    <3> HIDE DEF h
    <3>4. Done' = Done BY <3>1, <1>v
    <3> QED BY <3>1, <3>2, <3>3, <3>4, InsertKeeps, TaskStands
  <2>3. CASE startNow(r)
    <3>1. task' = task /\ busy' = busy \cup {r} /\ cancelled' = cancelled /\ r \notin called
      BY <2>3, GoEffect DEF startNow, passes, start
    <3>2. task[r] # "cancelled" BY <3>1 DEF TaskInv
    <3> QED BY <1>d, <3>1, <3>2, TaskStands
  <2> QED BY <1>1, <2>1, <2>2, <2>3 DEF handleCall
<1>2. ASSUME NEW r \in Requests, waitTimedOut(r) PROVE TaskInv' /\ CancelledKept
  <2>1. task' = task /\ busy' = busy /\ cancelled' = cancelled
    BY <1>2 DEF waitTimedOut, callVars
  <2> QED BY <1>d, <2>1, TaskStands
<1>3. ASSUME NEW r \in Requests, onPromote(r) PROVE TaskInv' /\ CancelledKept
  <2>1. r \in busy /\ busy' = busy /\ cancelled' = cancelled /\ UNCHANGED vars
    BY <1>3 DEF onPromote
  <2>2. (task[r] = "none" /\ insertTask(r)) \/ task' = task BY <1>3 DEF onPromote
  <2>3. r \in Done BY <2>1 DEF CallsInv, Done
  <2>4. Done' = Done BY <2>1, <1>v
  <2> QED BY <2>1, <2>2, <2>3, <2>4, InsertKeeps, TaskStands
<1>4. ASSUME NEW r \in Requests, onUpstreamCancelled(r) PROVE TaskInv' /\ CancelledKept
  <2>1. task' = task /\ busy' \subseteq busy /\ cancelled' = cancelled
    BY <1>4 DEF onUpstreamCancelled
  <2> QED BY <1>d, <2>1, TaskStands
<1>5. ASSUME NEW r \in Requests, NEW klass, NEW late, onUpstream(r, klass, late)
      PROVE  TaskInv' /\ CancelledKept
  <2>1. r \in busy /\ r \notin cancelled /\ cancelled' = cancelled BY <1>5 DEF onUpstream
  <2>2. task[r] # "cancelled" BY <2>1 DEF TaskInv
  <2>3. CASE retries(r, klass, late)
    <3>1. task' = task /\ busy' = busy BY <1>5, <2>3 DEF onUpstream
    <3> QED BY <1>d, <2>1, <3>1, TaskStands
  <2>4. CASE ~retries(r, klass, late)
    <3>1. busy' \subseteq busy /\ updateStatus({r}, IF klass = "Ok" THEN "completed" ELSE "failed")
      BY <1>5, <2>4 DEF onUpstream
    <3>2. PICK st \in {"completed", "failed"} : updateStatus({r}, st) BY <3>1
    <3> QED BY <1>b, <1>d, <2>1, <2>2, <3>1, <3>2, UpdateKeeps
  <2> QED BY <2>3, <2>4
<1>6. ASSUME NEW r \in Requests, destroyCall(r) PROVE TaskInv' /\ CancelledKept
  <2> DEFINE kept == permits' \ permits
  <2>1. task' = task /\ busy' = busy \cup kept /\ cancelled' = cancelled
    BY <1>6 DEF destroyCall, start
  <2>2. kept \subseteq Queued BY <1>6, ReleaseEffect DEF destroyCall
  <2> HIDE DEF kept
  <2>3. \A x \in kept : task[x] # "cancelled" BY <2>2 DEF TaskInv
  <2> QED BY <1>d, <2>1, <2>3, TaskStands
<1>7. ASSUME NEW h \in Requests, cancelTask(h) PROVE TaskInv' /\ CancelledKept
  <2>1. /\ updateStatus({h}, "cancelled") /\ cancelled' = cancelled \cup ({h} \cap live)
        /\ busy' = busy
    BY <1>7 DEF cancelTask
  <2>2. {h} \cap busy' \subseteq cancelled' BY <2>1 DEF CallsInv
  <2> QED BY <1>b, <1>d, <2>1, <2>2, UpdateKeeps
<1>8. ASSUME requestStop PROVE TaskInv' /\ CancelledKept
  <2>1. /\ updateStatus(live, "cancelled") /\ cancelled' = cancelled \cup live /\ busy' = busy
    BY <1>8 DEF requestStop
  <2> QED BY <1>b, <1>d, <2>1, UpdateKeeps
<1>9. ASSUME NEW h \in Requests, taskExpires(h) PROVE TaskInv' /\ CancelledKept
  <2>1. /\ h \in Stored /\ task' = [task EXCEPT ![h] = "expired"] /\ UNCHANGED vars
        /\ busy' = busy /\ cancelled' = cancelled
    BY <1>9 DEF taskExpires, callVars
  <2> QED BY <1>b, <1>v, <2>1, ExpireKeeps
<1>10. ASSUME \/ \E b \in Backends : probeOk(b) \/ probeFailed(b)
              \/ timePasses
       PROVE  TaskInv' /\ CancelledKept
  <2>1. task' = task /\ busy' = busy /\ cancelled' = cancelled
    BY <1>10 DEF probeOk, probeFailed, timePasses, callVars
  <2> QED BY <1>d, <2>1, TaskStands
<1> QED
  BY <1>1, <1>2, <1>3, <1>4, <1>5, <1>6, <1>7, <1>8, <1>9, <1>10
  DEF PNext, dispatch, upstreamReturns

(* Attempts: each is made for a request the governor is done with, and     *)
(* none beyond MaxAttempts.                                                *)
LEMMA AttemptsMade ==
    ASSUME AttemptInv, Done \subseteq Done', NEW S \in SUBSET Done',
           \A x \in S : attempt[x] < MaxAttempts, attempt' = Counted(attempt, S)
    PROVE  AttemptInv'
<1>0. MaxAttempts \in Nat BY RetryAssumption
<1>1. \A x \in Requests : attempt[x] \in 0..MaxAttempts BY DEF AttemptInv
<1>2. \A x \in Requests : attempt'[x] = IF x \in S THEN attempt[x] + 1 ELSE attempt[x]
  BY DEF Counted
<1>3. \A x \in Requests : attempt'[x] \in 0..MaxAttempts BY <1>0, <1>1, <1>2
<1>4. attempt' \in [Requests -> 0..MaxAttempts] BY <1>2, <1>3 DEF Counted
<1>5. \A x \in Requests : attempt'[x] > 0 => x \in Done' BY <1>1, <1>2 DEF AttemptInv, Done
<1> QED BY <1>4, <1>5 DEF AttemptInv, Done

LEMMA AttemptsStand ==
    ASSUME AttemptInv, Done \subseteq Done', attempt' = attempt
    PROVE  AttemptInv'
    BY DEF AttemptInv, Done

LEMMA AttemptStep ==
    ASSUME PInv, PInv', AttemptInv, PNext
    PROVE  AttemptInv'
<1> USE PInvFacts
<1>d. Done \subseteq Done' BY DoneGrows
<1>m. MaxAttempts \in Nat /\ 0 < MaxAttempts BY RetryAssumption
<1>a. \A x \in Requests : attempt[x] \in Nat BY DEF AttemptInv
<1>1. ASSUME NEW r \in Requests, handleCall(r) PROVE AttemptInv'
  <2>1. CASE startNow(r)
    <3>1. /\ attempt' = Counted(attempt, {r}) /\ r \notin called /\ called' = called \cup {r}
          /\ Queued' = Queued
      BY <2>1, GoEffect DEF startNow, start
    <3>2. attempt[r] = 0 BY <1>a, <3>1 DEF AttemptInv
    <3>3. {r} \in SUBSET Done' BY <3>1 DEF Done
    <3> QED BY <1>d, <1>m, <3>1, <3>2, <3>3, AttemptsMade
  <2>2. CASE ~startNow(r)
    <3>1. attempt' = attempt
      BY <1>1, <2>2 DEF handleCall, deny, inflightHit, drainReject, refuseNow, rejectNow,
                        queueUp, callVars
    <3> QED BY <1>d, <3>1, AttemptsStand
  <2> QED BY <2>1, <2>2
<1>2. ASSUME NEW r \in Requests, upstreamReturns(r) PROVE AttemptInv'
  <2>1. CASE onUpstreamCancelled(r)
    BY <1>d, <2>1, AttemptsStand DEF onUpstreamCancelled
  <2>2. ASSUME NEW klass, NEW late, onUpstream(r, klass, late) PROVE AttemptInv'
    <3>1. CASE retries(r, klass, late)
      <4>1. r \in busy /\ attempt' = Counted(attempt, {r}) BY <2>2, <3>1 DEF onUpstream
      <4>2. attempt[r] < MaxAttempts BY <3>1 DEF retries, shouldRetry
      <4>3. {r} \in SUBSET Done' BY <1>d, <4>1 DEF CallsInv, Done
      <4> QED BY <1>d, <4>1, <4>2, <4>3, AttemptsMade
    <3>2. CASE ~retries(r, klass, late)
      BY <1>d, <2>2, <3>2, AttemptsStand DEF onUpstream
    <3> QED BY <3>1, <3>2
  <2> QED BY <1>2, <2>1, <2>2 DEF upstreamReturns
<1>3. ASSUME NEW r \in Requests, destroyCall(r) PROVE AttemptInv'
  <2> DEFINE kept == permits' \ permits
  <2>1. attempt' = Counted(attempt, kept) BY <1>3 DEF destroyCall, start
  <2>2. kept \subseteq Queued \ Queued' /\ called' = called BY <1>3, ReleaseEffect DEF destroyCall
  <2> HIDE DEF kept
  <2>3. ASSUME NEW x \in kept PROVE attempt[x] < MaxAttempts
    <3>1. x \in Requests /\ x \in Queued BY <2>2
    <3>2. attempt[x] = 0 BY <1>a, <3>1 DEF AttemptInv
    <3> QED BY <1>m, <3>2
  <2>4. kept \in SUBSET Done' BY <2>2 DEF Done
  <2> QED BY <1>d, <2>1, <2>3, <2>4, AttemptsMade
<1>4. ASSUME NEW r \in Requests,
             waitTimedOut(r) \/ onPromote(r) \/ cancelTask(r) \/ taskExpires(r)
      PROVE  AttemptInv'
  BY <1>d, <1>4, AttemptsStand DEF waitTimedOut, onPromote, cancelTask, taskExpires, callVars
<1>5. ASSUME NEW b \in Backends, probeOk(b) \/ probeFailed(b) PROVE AttemptInv'
  BY <1>d, <1>5, AttemptsStand DEF probeOk, probeFailed, callVars
<1>6. ASSUME requestStop \/ timePasses PROVE AttemptInv'
  BY <1>d, <1>6, AttemptsStand DEF requestStop, timePasses, callVars
<1> QED BY <1>1, <1>2, <1>3, <1>4, <1>5, <1>6 DEF PNext, dispatch

(* What the circuit's operations make of a slot is a slot.                 *)
LEMMA SlotOps ==
    ASSUME NEW s \in Slot
    PROVE  /\ maybeHalfOpen(s) \in Slot /\ onSuccess(s) \in Slot /\ onFailure(s) \in Slot
           /\ onProbeSuccess(s) \in Slot /\ Cooler(s) \in Slot
<1>1. ASSUME NEW x \in Slot
      PROVE  /\ x.st \in CState /\ x.fails \in Nat /\ x.halfOk \in Nat /\ x.cool \in Nat
             /\ \A v \in CState : [x EXCEPT !.st = v] \in Slot
             /\ \A n \in Nat : /\ [x EXCEPT !.fails = n] \in Slot
                               /\ [x EXCEPT !.halfOk = n] \in Slot
                               /\ [x EXCEPT !.cool = n] \in Slot
             /\ \A v \in CState, n \in Nat : [x EXCEPT !.st = v, !.halfOk = n] \in Slot
             /\ \A v \in CState, n \in Nat : [x EXCEPT !.st = v, !.fails = n] \in Slot
             /\ \A v \in CState, m, n \in Nat : [x EXCEPT !.st = v, !.halfOk = m, !.fails = n] \in Slot
             /\ \A v \in CState, m, n \in Nat : [x EXCEPT !.st = v, !.cool = m, !.fails = n] \in Slot
  BY DEF Slot
<1>2. /\ {"Closed", "Open", "HalfOpen"} = CState /\ Cooldown \in Nat
      /\ HalfOpenProbes \in Nat /\ OpenAfter \in Nat
  BY CircuitAssumption DEF CState
<1>0. s.halfOk \in Nat /\ s.cool \in Nat /\ s.st \in CState BY DEF Slot
<1>3. s.halfOk \in Nat /\ s.halfOk + 1 \in Nat /\ s.cool \in Nat /\ s.st \in CState
  <2> HIDE DEF Slot
  <2> QED BY <1>0
<1>4. maybeHalfOpen(s) \in Slot BY <1>1, <1>2 DEF maybeHalfOpen
<1>5. onSuccess(s) \in Slot BY <1>1, <1>2, <1>3 DEF onSuccess
<1>6. onFailure(s) \in Slot
  <2> DEFINE h == maybeHalfOpen(s)
  <2>1. h \in Slot /\ h.st \in CState /\ h.fails \in Nat BY <1>4 DEF Slot
  <2>2. h.fails + 1 \in Nat BY <2>1
  <2>3. CASE h.st = "HalfOpen"
    <3>1. onFailure(s) = [h EXCEPT !.st = "Open", !.cool = Cooldown, !.fails = 0]
      BY <2>3 DEF onFailure
    <3> HIDE DEF h
    <3>2. onFailure(s) = [st |-> "Open", fails |-> 0, halfOk |-> h.halfOk, cool |-> Cooldown]
      BY <2>1, <3>1 DEF Slot
    <3>3. h.halfOk \in Nat BY <2>1 DEF Slot
    <3>4. "Open" \in CState BY DEF CState
    <3> QED BY <1>2, <3>2, <3>3, <3>4 DEF Slot
  <2>4. CASE h.st = "Closed" /\ h.fails + 1 >= OpenAfter
    <3>1. onFailure(s) = [h EXCEPT !.st = "Open", !.cool = Cooldown, !.fails = @ + 1]
      BY <2>4 DEF onFailure
    <3> HIDE DEF h
    <3> QED BY <1>2, <2>1, <2>2, <3>1 DEF Slot
  <2>5. CASE h.st # "HalfOpen" /\ ~(h.st = "Closed" /\ h.fails + 1 >= OpenAfter)
    <3>1. onFailure(s) = [h EXCEPT !.fails = @ + 1]
      BY <2>5 DEF onFailure
    <3> HIDE DEF h
    <3> QED BY <1>2, <2>1, <2>2, <3>1 DEF Slot
  <2> QED BY <2>3, <2>4, <2>5
<1>7. onProbeSuccess(s) \in Slot BY <1>1, <1>2, <1>3 DEF onProbeSuccess
<1>8. Cooler(s) \in Slot
  <2>1. (IF s.cool > 0 THEN s.cool - 1 ELSE 0) \in Nat BY <1>3
  <2> QED BY <1>1, <2>1 DEF Cooler
<1> QED BY <1>4, <1>5, <1>6, <1>7, <1>8

LEMMA HealthStep ==
    ASSUME HealthInv, [PNext]_pvars
    PROVE  HealthInv'
<1>c. circuit \in [Backends -> Slot] /\ probeFails \in [Backends -> 0..DownAfter]
  BY DEF HealthInv
<1>b. \A r \in Requests : BackendOfCall(r) \in Backends
  BY RequestsAssumption DEF BackendOfCall
<1>1. ASSUME NEW b \in Backends, consult(b) PROVE circuit' \in [Backends -> Slot]
  BY <1>1, <1>c, SlotOps DEF consult
<1>2. ASSUME NEW r \in Requests, handleCall(r) PROVE HealthInv'
  <2>1. probeFails' = probeFails
    BY <1>2 DEF handleCall, deny, inflightHit, drainReject, startNow, refuseNow, rejectNow,
                queueUp, passes
  <2>2. circuit' = circuit \/ consult(BackendOfCall(r))
    BY <1>2 DEF handleCall, deny, inflightHit, drainReject, startNow, refuseNow, rejectNow, queueUp
  <2> QED BY <1>1, <1>b, <1>c, <2>1, <2>2 DEF HealthInv
<1>3. ASSUME NEW r \in Requests, NEW klass, NEW late, onUpstream(r, klass, late)
      PROVE  HealthInv'
  <2> DEFINE b == BackendOfCall(r)
             h == maybeHalfOpen(circuit[b])
  <2>1. /\ circuit' = [circuit EXCEPT ![b] = IF klass = "Ok" THEN onSuccess(h) ELSE onFailure(h)]
        /\ probeFails' = probeFails
    BY <1>3 DEF onUpstream
  <2>2. circuit[b] \in Slot BY <1>b, <1>c
  <2>3. h \in Slot BY <2>2, SlotOps
  <2> HIDE DEF h
  <2>4. onSuccess(h) \in Slot /\ onFailure(h) \in Slot BY <2>3, SlotOps
  <2> QED BY <1>c, <2>1, <2>4 DEF HealthInv
<1>4. ASSUME NEW r \in Requests, destroyCall(r) PROVE HealthInv'
  <2>1. probeFails' = probeFails /\ (circuit' = circuit \/ consult(BackendOfCall(r)))
    BY <1>4 DEF destroyCall
  <2> QED BY <1>1, <1>b, <1>c, <2>1 DEF HealthInv
<1>5. ASSUME NEW b \in Backends, probeOk(b) PROVE HealthInv'
  <2>1. /\ probeFails' = [probeFails EXCEPT ![b] = 0]
        /\ circuit' = [circuit EXCEPT ![b] = onProbeSuccess(circuit[b])]
    BY <1>5 DEF probeOk
  <2>2. 0 \in 0..DownAfter BY PipelineAssumption
  <2> QED BY <1>c, <2>1, <2>2, SlotOps DEF HealthInv
<1>6. ASSUME NEW b \in Backends, probeFailed(b) PROVE HealthInv'
  <2>1. /\ probeFails' = [probeFails EXCEPT ![b] =
                            IF probeFails[b] < DownAfter THEN probeFails[b] + 1 ELSE probeFails[b]]
        /\ circuit' = circuit
    BY <1>6 DEF probeFailed
  <2>2. DownAfter \in Nat /\ probeFails[b] \in 0..DownAfter BY <1>c, PipelineAssumption
  <2> QED BY <1>c, <2>1, <2>2 DEF HealthInv
<1>7. ASSUME timePasses PROVE HealthInv'
  <2>1. /\ probeFails' = probeFails
        /\ circuit' = [b \in Backends |-> Cooler(circuit[b])]
    BY <1>7 DEF timePasses
  <2> QED BY <1>c, <2>1, SlotOps DEF HealthInv
<1>8. ASSUME \/ \E r \in Requests : \/ waitTimedOut(r) \/ onPromote(r) \/ cancelTask(r)
                                    \/ taskExpires(r) \/ onUpstreamCancelled(r)
             \/ requestStop
             \/ UNCHANGED pvars
      PROVE  HealthInv'
  <2>1. circuit' = circuit /\ probeFails' = probeFails
    BY <1>8 DEF waitTimedOut, onPromote, cancelTask, taskExpires, onUpstreamCancelled, requestStop,
                pvars, pipeVars
  <2> QED BY <2>1 DEF HealthInv
<1> QED BY <1>2, <1>3, <1>4, <1>5, <1>6, <1>7, <1>8 DEF PNext, dispatch, upstreamReturns

LEMMA FlagsStep ==
    ASSUME PInv, FlagsInv, [PNext]_pvars
    PROVE  FlagsInv'
<1>1. ASSUME NEW r \in Requests, handleCall(r) PROVE FlagsInv'
  <2>1. CASE inflightHit(r)
    <3>1. /\ lookup(r) # None /\ unwinding' = unwinding /\ confirmed' = confirmed
          /\ (tokens' = tokens \/ tokens' = tokens \cup {lookup(r)})
      BY <2>1 DEF inflightHit, dispatched
    <3> QED BY <3>1, LookupFacts DEF FlagsInv
  <2>2. CASE ~inflightHit(r)
    <3>1. /\ unwinding' = unwinding /\ tokens' = tokens
          /\ (confirmed' = confirmed \/ confirmed' = confirmed \cup {r})
      BY <1>1, <2>2 DEF handleCall, deny, drainReject, startNow, refuseNow, rejectNow, queueUp,
                        passes, dispatched, inflightVars
    <3> QED BY <3>1 DEF FlagsInv
  <2> QED BY <2>1, <2>2
<1>2. ASSUME NEW r \in Requests, destroyCall(r) PROVE FlagsInv'
  BY <1>2 DEF destroyCall, FlagsInv
<1>3. ASSUME \/ \E r \in Requests : \/ waitTimedOut(r) \/ onPromote(r) \/ cancelTask(r)
                                    \/ taskExpires(r) \/ upstreamReturns(r)
             \/ \E b \in Backends : probeOk(b) \/ probeFailed(b)
             \/ requestStop \/ timePasses
             \/ UNCHANGED pvars
      PROVE  FlagsInv'
  <2>1. unwinding' = unwinding /\ tokens' = tokens /\ confirmed' = confirmed
    BY <1>3 DEF waitTimedOut, onPromote, cancelTask, taskExpires, upstreamReturns,
                onUpstreamCancelled, onUpstream, probeOk, probeFailed, requestStop, timePasses,
                dispatched, inflightVars, pvars, pipeVars
  <2> QED BY <2>1 DEF FlagsInv
<1> QED BY <1>1, <1>2, <1>3 DEF PNext, dispatch

LEMMA TInvInit == PInit => TInv
<1> SUFFICES ASSUME PInit PROVE TInv OBVIOUS
<1>1. TaskInv
  <2>1. Stored = {} BY DEF PInit, Stored
  <2>2. Cardinality(Stored) <= MaxTasks BY <2>1, FS_EmptySet, PipelineAssumption
  <2> QED BY <2>2 DEF PInit, TaskInv, TaskStatus
<1>2. AttemptInv BY RetryAssumption DEF PInit, AttemptInv
<1>3. HealthInv
  <2>1. NewSlot \in Slot BY DEF NewSlot, Slot, CState
  <2> QED BY <2>1, PipelineAssumption DEF PInit, HealthInv
<1>4. FlagsInv BY DEF PInit, FlagsInv
<1> QED BY <1>1, <1>2, <1>3, <1>4 DEF TInv

LEMMA TInvStep ==
    ASSUME PInv, PInv', TInv, [PNext]_pvars
    PROVE  TInv'
<1>1. HealthInv' /\ FlagsInv' BY HealthStep, FlagsStep DEF TInv
<1>2. CASE PNext BY <1>1, <1>2, TaskStep, AttemptStep DEF TInv
<1>3. CASE UNCHANGED pvars
  <2>1. UNCHANGED <<task, busy, cancelled, attempt>> /\ Done' = Done
    BY <1>3 DEF pvars, pipeVars, vars, Done, Queued
  <2> QED BY <1>1, <2>1, TaskStands, AttemptsStand DEF TInv
<1> QED BY <1>2, <1>3

(* Tasks, attempts, circuits and the flags of calls stay consistent in     *)
(* every step of the pipeline.                                             *)
THEOREM PipelineDetail == PSpec => []TInv
<1>1. PInv /\ PInv' /\ TInv /\ [PNext]_pvars => TInv' BY TInvStep
<1> QED BY <1>1, TInvInit, PipelineInvariant, PTL DEF PSpec

(* Type correctness of the pipeline's state, with its two bounds: no call  *)
(* makes more than retry.max_attempts attempts (shouldRetry, also across   *)
(* admissions), and MemTaskStore never holds more than task_max tasks.     *)
THEOREM PipelineTypes == PSpec => []PTypeOK
<1>1. PInv /\ TInv => PTypeOK
  BY PInvFacts DEF TInv, TaskInv, AttemptInv, HealthInv, FlagsInv, CallsInv, RepliesInv, IndexInv,
                   PTypeOK
<1> QED BY <1>1, PipelineInvariant, PipelineDetail, PTL

(* The result of a call whose task the client cancelled is dropped: the    *)
(* task's call is itself cancelled while it runs, and onUpstream returns   *)
(* before it files anything.                                               *)
THEOREM PipelineCancelledStays == PSpec => CancelledStays
<1>1. PInv /\ PInv' /\ TInv /\ [PNext]_pvars => CancelledKept \/ UNCHANGED pvars
  BY TaskStep DEF TInv
<1>2. PSpec => [][PNext]_pvars BY PTL DEF PSpec
<1> QED
  BY <1>1, <1>2, PipelineInvariant, PipelineDetail, PTL DEF CancelledStays, CancelledKept

(* A waiter admitted inside ~Call is of the tool, and so of the upstream,  *)
(* of the call that ends: the circuit asked about is its own.              *)
LEMMA KeptIsSibling ==
    ASSUME IInv, NEW r \in Requests, releaseSlot(r), NEW w \in permits' \ permits
    PROVE  /\ w \in Queued \ Queued' /\ now < deadline[w]
           /\ BackendOfCall(w) = BackendOfCall(r)
<1> DEFINE t == ToolOf[r]
           q == queues[t]
<1>0. t \in Tools BY RequestsAssumption
<1>1. PICK n \in 0..Len(q), keep \in BOOLEAN :
        /\ keep => n > 0 /\ now < deadline[q[n]]
        /\ permits' = IF keep THEN (permits \ {r}) \cup {q[n]} ELSE permits \ {r}
  BY DEF releaseSlot, tryDequeue
<1>2. WellQueued(queues) BY QueuedFacts
<1>3. keep /\ w = q[n] BY <1>1
<1>4. n \in DOMAIN q BY <1>0, <1>1, <1>2, <1>3 DEF WellQueued
<1>5. ToolOf[w] = t BY <1>0, <1>2, <1>3, <1>4 DEF WellQueued
<1>6. w \in Queued \ Queued' BY ReleaseEffect
<1> QED BY <1>1, <1>3, <1>5, <1>6 DEF BackendOfCall

(* fireAttempt is reached only past isOpen: of the admission, be it at     *)
(* once or inside a destructor after a wait, or of onUpstream's retry.     *)
THEOREM PipelineNoAttemptWhileOpen == PSpec => NoAttemptWhileOpen
<1> DEFINE A == \A r \in Requests : attempt'[r] > attempt[r] => ~isOpen(BackendOfCall(r))
<1>1. PInv /\ [PNext]_pvars => A \/ UNCHANGED pvars
  <2> SUFFICES ASSUME PInv, PNext PROVE A OBVIOUS
  <2> USE PInvFacts
  <2>a. attempt \in [Requests -> Nat] BY DEF CallsInv
  <2>1. ASSUME attempt' = attempt PROVE A BY <2>1, <2>a
  <2>2. ASSUME NEW S, attempt' = Counted(attempt, S), \A r \in S : ~isOpen(BackendOfCall(r))
        PROVE  A
    BY <2>2, <2>a, CountedFacts
  <2> HIDE DEF A
  <2>3. ASSUME NEW r \in Requests, handleCall(r) PROVE A
    <3>1. CASE startNow(r)
      <4>1. ~isOpen(BackendOfCall(r)) /\ attempt' = Counted(attempt, {r})
        BY <3>1 DEF startNow, start, admissible
      <4> QED BY <2>2, <4>1
    <3>2. CASE ~startNow(r)
      <4>1. attempt' = attempt
        BY <2>3, <3>2 DEF handleCall, deny, inflightHit, drainReject, refuseNow, rejectNow,
                          queueUp, callVars
      <4> QED BY <2>1, <4>1
    <3> QED BY <3>1, <3>2
  <2>4. ASSUME NEW r \in Requests, upstreamReturns(r) PROVE A
    <3>1. CASE onUpstreamCancelled(r) BY <2>1, <3>1 DEF onUpstreamCancelled
    <3>2. ASSUME NEW klass, NEW late, onUpstream(r, klass, late) PROVE A
      <4>1. CASE retries(r, klass, late)
        <5>1. attempt' = Counted(attempt, {r}) BY <3>2, <4>1 DEF onUpstream
        <5>2. ~isOpen(BackendOfCall(r)) BY <4>1 DEF retries, shouldRetry
        <5> QED BY <2>2, <5>1, <5>2
      <4>2. CASE ~retries(r, klass, late) BY <2>1, <3>2, <4>2 DEF onUpstream
      <4> QED BY <4>1, <4>2
    <3> QED BY <2>4, <3>1, <3>2 DEF upstreamReturns
  <2>5. ASSUME NEW r \in Requests, destroyCall(r) PROVE A
    <3> DEFINE kept == permits' \ permits
    <3>1. /\ attempt' = Counted(attempt, kept) /\ releaseSlot(r)
          /\ \A w \in {x \in Queued \ Queued' : now < deadline[x]} :
                w \in kept <=> admissible(BackendOfCall(r))
      BY <2>5 DEF destroyCall, start
    <3>2. \A w \in kept : w \in Queued \ Queued' /\ now < deadline[w]
                          /\ BackendOfCall(w) = BackendOfCall(r)
      BY <3>1, KeptIsSibling
    <3> HIDE DEF kept
    <3>3. \A w \in kept : ~isOpen(BackendOfCall(w)) BY <3>1, <3>2 DEF admissible
    <3> QED BY <2>2, <3>1, <3>3
  <2>6. ASSUME NEW r \in Requests,
               waitTimedOut(r) \/ onPromote(r) \/ cancelTask(r) \/ taskExpires(r)
        PROVE  A
    BY <2>1, <2>6 DEF waitTimedOut, onPromote, cancelTask, taskExpires, callVars
  <2>7. ASSUME NEW b \in Backends, probeOk(b) \/ probeFailed(b) PROVE A
    BY <2>1, <2>7 DEF probeOk, probeFailed, callVars
  <2>8. ASSUME requestStop \/ timePasses PROVE A
    BY <2>1, <2>8 DEF requestStop, timePasses, callVars
  <2> QED BY <2>3, <2>4, <2>5, <2>6, <2>7, <2>8 DEF PNext, dispatch
<1>2. PSpec => [][PNext]_pvars BY PTL DEF PSpec
<1> QED BY <1>1, <1>2, PipelineInvariant, PTL DEF NoAttemptWhileOpen

(* In the composition, too, the permits obey the pool's contract: every    *)
(* step of Pipeline and Call is a step of the pool or leaves it alone.     *)
THEOREM PipelineImplementsPool == PSpec => ImplementsPermitPool
<1>1. PInit => Pool!PoolInit BY PoolInitially DEF PInit
<1>2. PInv /\ PInv' /\ [PNext]_pvars => [Pool!PoolNext]_(Pool!poolVars)
  <2> SUFFICES ASSUME PInv, PInv', [PNext]_pvars PROVE [Pool!PoolNext]_(Pool!poolVars) OBVIOUS
  <2>1. [Next]_vars BY GovernorStep DEF pvars
  <2> QED BY <2>1, PoolStep DEF PInv
<1> QED
  BY <1>1, <1>2, PipelineInvariant, PTL DEF PSpec, ImplementsPermitPool, Pool!PoolSpec
=============================================================================
