------------------------ MODULE LocalGovernorProofs ------------------------
(***************************************************************************)
(* The governor's safety properties for every set of requests, tools and   *)
(* principals and every choice of limits.  TypeOK, PermitAccounting,       *)
(* AnsweredOnce and ConcurrencyBounded are not inductive one by one: a     *)
(* served waiter must not already hold a permit for the counters to stay   *)
(* right (AnsweredOnce), a release must find its counters positive for the *)
(* types to stay right (PermitAccounting).  Their conjunction is.          *)
(***************************************************************************)
EXTENDS LocalGovernor, FiniteSetTheorems, SequenceTheorems, TLAPS

IInv == TypeOK /\ PermitAccounting /\ AnsweredOnce /\ ConcurrencyBounded
-----------------------------------------------------------------------------
(* Sequences.                                                              *)

(* What is left of a queue whose first n waiters have been served.         *)
LEMMA SuffixFacts ==
    ASSUME NEW S, NEW q \in Seq(S), NEW n \in 0..Len(q)
    PROVE  LET s == SubSeq(q, n + 1, Len(q))
           IN  /\ s \in Seq(S)
               /\ Len(s) = Len(q) - n
               /\ \A i \in 1..(Len(q) - n) : s[i] = q[n + i]
    OBVIOUS

(* What is left of a queue from which the waiter at position k was taken.  *)
LEMMA WithoutFacts ==
    ASSUME NEW S, NEW q \in Seq(S), NEW k \in 1..Len(q)
    PROVE  /\ Without(q, k) \in Seq(S)
           /\ Len(Without(q, k)) = Len(q) - 1
           /\ \A i \in 1..(Len(q) - 1) :
                 Without(q, k)[i] = IF i < k THEN q[i] ELSE q[i + 1]
<1> DEFINE a == SubSeq(q, 1, k - 1)
           b == SubSeq(q, k + 1, Len(q))
<1>1. /\ a \in Seq(S) /\ Len(a) = k - 1
      /\ \A i \in 1..(k - 1) : a[i] = q[i]
  OBVIOUS
<1>2. /\ b \in Seq(S) /\ Len(b) = Len(q) - k
      /\ \A i \in 1..(Len(q) - k) : b[i] = q[k + i]
  OBVIOUS
<1> HIDE DEF a, b
<1>3. /\ a \o b \in Seq(S)
      /\ Len(a \o b) = Len(a) + Len(b)
      /\ \A i \in 1..(Len(a) + Len(b)) :
            (a \o b)[i] = IF i <= Len(a) THEN a[i] ELSE b[i - Len(a)]
  BY <1>1, <1>2, ConcatProperties
<1>4. Len(q) \in Nat OBVIOUS
<1>5. ASSUME NEW i \in 1..(Len(q) - 1)
      PROVE  (a \o b)[i] = IF i < k THEN q[i] ELSE q[i + 1]
  <2>1. CASE i < k
    <3>1. i <= Len(a) /\ i \in 1..(Len(a) + Len(b)) /\ i \in 1..(k - 1)
      BY <1>1, <1>2, <1>4, <2>1
    <3>2. (a \o b)[i] = a[i] BY <1>3, <3>1
    <3> QED BY <1>1, <2>1, <3>1, <3>2
  <2>2. CASE i >= k
    <3>0. ~(i <= Len(a)) /\ i \in 1..(Len(a) + Len(b)) /\ Len(a) = k - 1
      BY <1>1, <1>2, <1>4, <2>2
    <3>1. (a \o b)[i] = b[i - (k - 1)] BY <1>3, <3>0
    <3>2. i - (k - 1) \in 1..(Len(q) - k) BY <1>4, <2>2
    <3>3. b[i - (k - 1)] = q[k + (i - (k - 1))] BY <1>2, <3>2
    <3>4. k + (i - (k - 1)) = i + 1 /\ ~(i < k) BY <1>4, <2>2
    <3>5. (a \o b)[i] = q[i + 1] BY <3>1, <3>3, <3>4
    <3> QED BY <3>4, <3>5
  <2>3. i < k \/ i >= k BY <1>4
  <2> QED BY <2>1, <2>2, <2>3
<1>6. Without(q, k) = a \o b BY DEF Without, a, b
<1>7. Len(a) + Len(b) = Len(q) - 1 BY <1>1, <1>2, <1>4
<1> QED BY <1>3, <1>5, <1>6, <1>7
-----------------------------------------------------------------------------
(* Counting: how many requests of P the function f maps to v, when P gains *)
(* or loses one request.                                                   *)
Count(f, P, v) == Cardinality({r \in P : f[r] = v})

LEMMA FiniteRequests ==
    ASSUME NEW S \in SUBSET Requests
    PROVE  IsFiniteSet(S) /\ Cardinality(S) \in Nat
    BY RequestsAssumption, FS_Subset, FS_CardinalityType

LEMMA CountType ==
    ASSUME NEW f, NEW P \in SUBSET Requests, NEW v
    PROVE  Count(f, P, v) \in Nat
<1> DEFINE S == {r \in P : f[r] = v}
<1>1. S \in SUBSET Requests OBVIOUS
<1> HIDE DEF S
<1>2. Cardinality(S) \in Nat BY <1>1, FiniteRequests
<1> QED BY <1>2 DEF S, Count

LEMMA CountAdd ==
    ASSUME NEW f, NEW P \in SUBSET Requests, NEW x \in Requests, x \notin P, NEW v
    PROVE  Count(f, P \cup {x}, v) = IF f[x] = v THEN Count(f, P, v) + 1 ELSE Count(f, P, v)
<1> DEFINE S == {r \in P : f[r] = v}
           T == {r \in P \cup {x} : f[r] = v}
<1>1. S \in SUBSET Requests OBVIOUS
<1>2. CASE f[x] = v
  <2>1. T = S \cup {x} /\ x \notin S BY <1>2
  <2> HIDE DEF S, T
  <2>2. Cardinality(S \cup {x}) = Cardinality(S) + 1 BY <1>1, <2>1, FiniteRequests, FS_AddElement
  <2> QED BY <1>2, <2>1, <2>2 DEF Count, S, T
<1>3. CASE f[x] # v
  <2>1. T = S BY <1>3
  <2> QED BY <1>3, <2>1 DEF Count
<1> QED BY <1>2, <1>3

LEMMA CountRemove ==
    ASSUME NEW f, NEW P \in SUBSET Requests, NEW x \in P, NEW v
    PROVE  Count(f, P \ {x}, v) = IF f[x] = v THEN Count(f, P, v) - 1 ELSE Count(f, P, v)
<1> DEFINE Q == P \ {x}
<1>1. Q \cup {x} = P /\ x \notin Q /\ Q \in SUBSET Requests /\ x \in Requests OBVIOUS
<1> HIDE DEF Q
<1>2. Count(f, Q, v) \in Nat BY <1>1, CountType
<1>3. Count(f, Q \cup {x}, v) = IF f[x] = v THEN Count(f, Q, v) + 1 ELSE Count(f, Q, v)
  BY <1>1, CountAdd
<1> QED BY <1>1, <1>2, <1>3 DEF Q

LEMMA CardAddRemove ==
    ASSUME NEW P \in SUBSET Requests
    PROVE  /\ Cardinality(P) \in Nat
           /\ \A x : x \notin P => Cardinality(P \cup {x}) = Cardinality(P) + 1
           /\ \A x \in P : Cardinality(P \ {x}) = Cardinality(P) - 1 /\ Cardinality(P) > 0
<1>1. IsFiniteSet(P) BY RequestsAssumption, FS_Subset
<1>2. Cardinality(P) \in Nat BY <1>1, FS_CardinalityType
<1>3. \A x \in P : Cardinality(P \ {x}) \in Nat /\ Cardinality(P \ {x}) = Cardinality(P) - 1
  BY <1>1, FS_RemoveElement, FS_CardinalityType
<1>4. \A x : x \notin P => Cardinality(P \cup {x}) = Cardinality(P) + 1
  BY <1>1, FS_AddElement
<1> QED BY <1>2, <1>3, <1>4
-----------------------------------------------------------------------------
(* The counters ti, pi and h agree with the permits in P.                  *)
Acc(ti, pi, h, P) ==
    /\ ti \in [Tools -> Nat] /\ pi \in [Agents -> Nat] /\ h \in Nat
    /\ \A t \in Tools : ti[t] = Count(ToolOf, P, t)
    /\ \A a \in Agents : pi[a] = Count(AgentOf, P, a)
    /\ h = Cardinality(P)

LEMMA AccIsAccounting ==
    TypeOK => (PermitAccounting <=> Acc(toolInUse, principalInUse, permitHeld, permits))
    BY DEF TypeOK, PermitAccounting, Acc, Count, HoldersOfTool, HoldersOfAgent

LEMMA AccTake ==
    ASSUME NEW ti, NEW pi, NEW h, NEW P \in SUBSET Requests, NEW x \in Requests,
           x \notin P, Acc(ti, pi, h, P)
    PROVE  Acc(Plus(ti, ToolOf[x]), Plus(pi, AgentOf[x]), h + 1, P \cup {x})
<1>1. ToolOf[x] \in Tools /\ AgentOf[x] \in Agents BY RequestsAssumption
<1>2. Plus(ti, ToolOf[x]) \in [Tools -> Nat] /\ Plus(pi, AgentOf[x]) \in [Agents -> Nat]
  BY <1>1 DEF Acc, Plus
<1>3. ASSUME NEW t \in Tools PROVE Plus(ti, ToolOf[x])[t] = Count(ToolOf, P \cup {x}, t)
  BY <1>1, CountAdd DEF Acc, Plus
<1>4. ASSUME NEW a \in Agents PROVE Plus(pi, AgentOf[x])[a] = Count(AgentOf, P \cup {x}, a)
  BY <1>1, CountAdd DEF Acc, Plus
<1>5. h + 1 = Cardinality(P \cup {x}) /\ h + 1 \in Nat BY CardAddRemove DEF Acc
<1> QED BY <1>2, <1>3, <1>4, <1>5 DEF Acc

LEMMA AccRelease ==
    ASSUME NEW ti, NEW pi, NEW h, NEW P \in SUBSET Requests, NEW x \in P,
           Acc(ti, pi, h, P)
    PROVE  /\ Acc(Minus(ti, ToolOf[x]), Minus(pi, AgentOf[x]), h - 1, P \ {x})
           /\ \A t \in Tools : Minus(ti, ToolOf[x])[t] <= ti[t]
           /\ \A a \in Agents : Minus(pi, AgentOf[x])[a] <= pi[a]
<1>0. x \in Requests OBVIOUS
<1>1. ToolOf[x] \in Tools /\ AgentOf[x] \in Agents BY <1>0, RequestsAssumption
<1>2. Minus(ti, ToolOf[x]) \in [Tools -> Nat] /\ Minus(pi, AgentOf[x]) \in [Agents -> Nat]
  BY <1>1 DEF Acc, Minus
<1>3. ASSUME NEW t \in Tools PROVE /\ Minus(ti, ToolOf[x])[t] = Count(ToolOf, P \ {x}, t)
                                   /\ Minus(ti, ToolOf[x])[t] <= ti[t]
  <2>1. Count(ToolOf, P \ {x}, t) = IF ToolOf[x] = t THEN Count(ToolOf, P, t) - 1
                                                     ELSE Count(ToolOf, P, t)
    BY CountRemove
  <2>2. Count(ToolOf, P \ {x}, t) \in Nat BY CountType
  <2> QED BY <1>1, <2>1, <2>2 DEF Acc, Minus
<1>4. ASSUME NEW a \in Agents PROVE /\ Minus(pi, AgentOf[x])[a] = Count(AgentOf, P \ {x}, a)
                                    /\ Minus(pi, AgentOf[x])[a] <= pi[a]
  <2>1. Count(AgentOf, P \ {x}, a) = IF AgentOf[x] = a THEN Count(AgentOf, P, a) - 1
                                                      ELSE Count(AgentOf, P, a)
    BY CountRemove
  <2>2. Count(AgentOf, P \ {x}, a) \in Nat BY CountType
  <2> QED BY <1>1, <2>1, <2>2 DEF Acc, Minus
<1>5. h - 1 = Cardinality(P \ {x}) /\ h - 1 \in Nat BY CardAddRemove DEF Acc
<1> QED BY <1>2, <1>3, <1>4, <1>5 DEF Acc
-----------------------------------------------------------------------------
(* The queues: each holds requests of its own tool, each at one place.     *)
WellQueued(qs) ==
    /\ qs \in [Tools -> Seq(Requests)]
    /\ \A t \in Tools : \A i, j \in DOMAIN qs[t] :
          /\ ToolOf[qs[t][i]] = t
          /\ qs[t][i] = qs[t][j] => i = j

In(qs) == UNION {Elements(qs[t]) : t \in Tools}

LEMMA InQueue ==
    ASSUME NEW qs, WellQueued(qs), NEW r
    PROVE  /\ r \in In(qs) <=> \E t \in Tools : \E i \in 1..Len(qs[t]) : qs[t][i] = r
           /\ r \in In(qs) => r \in Requests
<1>1. \A t \in Tools : qs[t] \in Seq(Requests) /\ DOMAIN qs[t] = 1..Len(qs[t])
  BY DEF WellQueued
<1>2. \A t \in Tools : \A i \in 1..Len(qs[t]) : qs[t][i] \in Requests
  BY <1>1, ElementOfSeq
<1> QED BY <1>1, <1>2 DEF In, Elements

LEMMA QueueServe ==
    ASSUME NEW qs, WellQueued(qs), NEW t \in Tools, NEW n \in 0..Len(qs[t])
    PROVE  LET qs2 == [qs EXCEPT ![t] = SubSeq(qs[t], n + 1, Len(qs[t]))]
           IN  /\ WellQueued(qs2)
               /\ In(qs2) = In(qs) \ {qs[t][i] : i \in 1..n}
<1> DEFINE q == qs[t]
           s == SubSeq(q, n + 1, Len(q))
           qs2 == [qs EXCEPT ![t] = s]
<1>1. q \in Seq(Requests) /\ Len(q) \in Nat /\ DOMAIN q = 1..Len(q) BY DEF WellQueued
<1>2. /\ s \in Seq(Requests) /\ Len(s) = Len(q) - n
      /\ \A i \in 1..(Len(q) - n) : s[i] = q[n + i]
  BY <1>1, SuffixFacts
<1>3. DOMAIN s = 1..(Len(q) - n) BY <1>2
<1>q. \A i, j \in 1..Len(q) : ToolOf[q[i]] = t /\ (q[i] = q[j] => i = j)
  BY <1>1 DEF WellQueued
<1> HIDE DEF s
<1>4. qs2 \in [Tools -> Seq(Requests)] BY <1>2 DEF WellQueued
<1>5. qs2[t] = s /\ \A u \in Tools \ {t} : qs2[u] = qs[u] BY DEF WellQueued
<1>6. WellQueued(qs2)
  <2> SUFFICES ASSUME NEW u \in Tools, NEW i \in DOMAIN qs2[u], NEW j \in DOMAIN qs2[u]
               PROVE  ToolOf[qs2[u][i]] = u /\ (qs2[u][i] = qs2[u][j] => i = j)
    BY <1>4 DEF WellQueued
  <2>1. CASE u # t BY <1>5, <2>1 DEF WellQueued
  <2>2. CASE u = t
    <3>1. i \in 1..(Len(q) - n) /\ j \in 1..(Len(q) - n) BY <1>3, <1>5, <2>2
    <3>2. qs2[u][i] = q[n + i] /\ qs2[u][j] = q[n + j] BY <1>2, <1>5, <2>2, <3>1
    <3>3. n + i \in 1..Len(q) /\ n + j \in 1..Len(q) BY <1>1, <3>1
    <3>4. ToolOf[q[n + i]] = t /\ (q[n + i] = q[n + j] => n + i = n + j) BY <1>q, <3>3
    <3> QED BY <2>2, <3>1, <3>2, <3>4
  <2> QED BY <2>1, <2>2
<1>7. ASSUME NEW r PROVE r \in In(qs2) <=> r \in In(qs) /\ r \notin {q[i] : i \in 1..n}
  <2>1. ASSUME NEW u \in Tools, NEW i \in 1..Len(qs2[u]), qs2[u][i] = r
        PROVE  r \in In(qs) /\ r \notin {q[k] : k \in 1..n}
    <3>1. CASE u # t
      <4>1. qs[u][i] = r /\ i \in 1..Len(qs[u]) BY <1>5, <2>1, <3>1
      <4>2. ToolOf[r] = u BY <4>1 DEF WellQueued
      <4>3. \A k \in 1..n : ToolOf[q[k]] = t BY <1>1, <1>q
      <4> QED BY <3>1, <4>1, <4>2, <4>3, InQueue
    <3>2. CASE u = t
      <4>1. i \in 1..(Len(q) - n) /\ r = q[n + i] BY <1>2, <1>5, <2>1, <3>2
      <4>2. n + i \in 1..Len(q) BY <1>1, <4>1
      <4>3. r \in In(qs) BY <4>1, <4>2, InQueue
      <4>4. ASSUME NEW k \in 1..n PROVE q[k] # r
        <5>1. k \in 1..Len(q) /\ k # n + i BY <1>1, <4>1
        <5> QED BY <1>q, <4>1, <4>2, <5>1
      <4> QED BY <4>3, <4>4
    <3> QED BY <3>1, <3>2
  <2>2. ASSUME NEW u \in Tools, NEW i \in 1..Len(qs[u]), qs[u][i] = r,
               r \notin {q[k] : k \in 1..n}
        PROVE  r \in In(qs2)
    <3>1. CASE u # t BY <1>5, <1>6, <2>2, <3>1, InQueue
    <3>2. CASE u = t
      <4>1. i \in 1..Len(q) /\ i \notin 1..n BY <2>2, <3>2
      <4>2. i - n \in 1..(Len(q) - n) /\ n + (i - n) = i BY <1>1, <4>1
      <4>3. s[i - n] = r BY <1>2, <2>2, <3>2, <4>2
      <4> QED BY <1>2, <1>5, <1>6, <4>2, <4>3, InQueue
    <3> QED BY <3>1, <3>2
  <2>3. r \in In(qs2) => \E u \in Tools : \E i \in 1..Len(qs2[u]) : qs2[u][i] = r
    BY <1>6, InQueue
  <2>4. r \in In(qs) => \E u \in Tools : \E i \in 1..Len(qs[u]) : qs[u][i] = r
    BY InQueue
  <2> HIDE DEF qs2, q
  <2> QED BY <2>1, <2>2, <2>3, <2>4
<1> QED BY <1>6, <1>7 DEF s

LEMMA QueueDrop ==
    ASSUME NEW qs, WellQueued(qs), NEW t \in Tools, NEW n \in 1..Len(qs[t])
    PROVE  LET qs2 == [qs EXCEPT ![t] = Without(qs[t], n)]
           IN  /\ WellQueued(qs2)
               /\ In(qs2) = In(qs) \ {qs[t][n]}
<1> DEFINE q == qs[t]
           s == Without(q, n)
           qs2 == [qs EXCEPT ![t] = s]
           At(i) == IF i < n THEN i ELSE i + 1
<1>1. q \in Seq(Requests) /\ Len(q) \in Nat /\ DOMAIN q = 1..Len(q) BY DEF WellQueued
<1>2. /\ s \in Seq(Requests) /\ Len(s) = Len(q) - 1
      /\ \A i \in 1..(Len(q) - 1) : s[i] = IF i < n THEN q[i] ELSE q[i + 1]
  BY <1>1, WithoutFacts
<1>3. DOMAIN s = 1..(Len(q) - 1) BY <1>2
<1>a. /\ \A i \in 1..(Len(q) - 1) : At(i) \in 1..Len(q) /\ At(i) # n
      /\ \A i, j \in 1..(Len(q) - 1) : At(i) = At(j) => i = j
      /\ \A i \in 1..(Len(q) - 1) : s[i] = q[At(i)]
  BY <1>1, <1>2
<1>b. \A k \in 1..Len(q) : k # n => \E i \in 1..(Len(q) - 1) : At(i) = k
  <2> SUFFICES ASSUME NEW k \in 1..Len(q), k # n
               PROVE  \E i \in 1..(Len(q) - 1) : At(i) = k
    OBVIOUS
  <2>1. CASE k < n
    <3>1. k \in 1..(Len(q) - 1) /\ At(k) = k BY <1>1, <2>1
    <3> QED BY <3>1
  <2>2. CASE k > n
    <3>1. k - 1 \in 1..(Len(q) - 1) /\ At(k - 1) = k BY <1>1, <2>2
    <3> QED BY <3>1
  <2> QED BY <1>1, <2>1, <2>2
<1>q. \A i, j \in 1..Len(q) : ToolOf[q[i]] = t /\ (q[i] = q[j] => i = j)
  BY <1>1 DEF WellQueued
<1> HIDE DEF s, At
<1>4. qs2 \in [Tools -> Seq(Requests)] BY <1>2 DEF WellQueued
<1>5. qs2[t] = s /\ \A u \in Tools \ {t} : qs2[u] = qs[u] BY DEF WellQueued
<1>6. WellQueued(qs2)
  <2> SUFFICES ASSUME NEW u \in Tools, NEW i \in DOMAIN qs2[u], NEW j \in DOMAIN qs2[u]
               PROVE  ToolOf[qs2[u][i]] = u /\ (qs2[u][i] = qs2[u][j] => i = j)
    BY <1>4 DEF WellQueued
  <2>1. CASE u # t BY <1>5, <2>1 DEF WellQueued
  <2>2. CASE u = t
    <3>1. i \in 1..(Len(q) - 1) /\ j \in 1..(Len(q) - 1) BY <1>3, <1>5, <2>2
    <3>2. qs2[u][i] = q[At(i)] /\ qs2[u][j] = q[At(j)] BY <1>a, <1>5, <2>2, <3>1
    <3> QED BY <1>a, <1>q, <2>2, <3>1, <3>2
  <2> QED BY <2>1, <2>2
<1>7. ASSUME NEW r PROVE r \in In(qs2) <=> r \in In(qs) /\ r # q[n]
  <2>1. ASSUME NEW u \in Tools, NEW i \in 1..Len(qs2[u]), qs2[u][i] = r
        PROVE  r \in In(qs) /\ r # q[n]
    <3>1. CASE u # t
      <4>1. qs[u][i] = r /\ i \in 1..Len(qs[u]) BY <1>5, <2>1, <3>1
      <4>2. ToolOf[r] = u BY <4>1 DEF WellQueued
      <4> QED BY <1>q, <3>1, <4>1, <4>2, InQueue
    <3>2. CASE u = t
      <4>1. i \in 1..(Len(q) - 1) /\ r = q[At(i)] BY <1>a, <1>2, <1>5, <2>1, <3>2
      <4>2. At(i) \in 1..Len(q) /\ At(i) # n BY <1>a, <4>1
      <4>3. r \in In(qs) BY <4>1, <4>2, InQueue
      <4> QED BY <1>q, <4>1, <4>2, <4>3
    <3> QED BY <3>1, <3>2
  <2>2. ASSUME NEW u \in Tools, NEW i \in 1..Len(qs[u]), qs[u][i] = r, r # q[n]
        PROVE  r \in In(qs2)
    <3>1. CASE u # t BY <1>5, <1>6, <2>2, <3>1, InQueue
    <3>2. CASE u = t
      <4>1. PICK k \in 1..(Len(q) - 1) : At(k) = i BY <1>b, <2>2, <3>2
      <4>2. s[k] = r BY <1>a, <2>2, <3>2, <4>1
      <4> QED BY <1>2, <1>5, <1>6, <4>1, <4>2, InQueue
    <3> QED BY <3>1, <3>2
  <2>3. r \in In(qs2) => \E u \in Tools : \E i \in 1..Len(qs2[u]) : qs2[u][i] = r
    BY <1>6, InQueue
  <2>4. r \in In(qs) => \E u \in Tools : \E i \in 1..Len(qs[u]) : qs[u][i] = r
    BY InQueue
  <2> HIDE DEF qs2, q
  <2> QED BY <2>1, <2>2, <2>3, <2>4
<1> QED BY <1>6, <1>7 DEF s

LEMMA QueueAppend ==
    ASSUME NEW qs, WellQueued(qs), NEW x \in Requests, x \notin In(qs)
    PROVE  LET qs2 == [qs EXCEPT ![ToolOf[x]] = Append(qs[ToolOf[x]], x)]
           IN  /\ WellQueued(qs2)
               /\ In(qs2) = In(qs) \cup {x}
<1> DEFINE t == ToolOf[x]
           q == qs[t]
           s == Append(q, x)
           qs2 == [qs EXCEPT ![t] = s]
<1>0. t \in Tools BY RequestsAssumption
<1>1. q \in Seq(Requests) /\ Len(q) \in Nat /\ DOMAIN q = 1..Len(q) BY <1>0 DEF WellQueued
<1>2. /\ s \in Seq(Requests) /\ Len(s) = Len(q) + 1
      /\ \A i \in 1..Len(q) : s[i] = q[i]
      /\ s[Len(q) + 1] = x
  BY <1>1, AppendProperties
<1>3. DOMAIN s = 1..(Len(q) + 1) BY <1>2
<1>q. \A i, j \in 1..Len(q) : /\ ToolOf[q[i]] = t /\ (q[i] = q[j] => i = j)
                              /\ q[i] # x
  BY <1>0, <1>1, InQueue DEF WellQueued
<1> HIDE DEF s
<1>4. qs2 \in [Tools -> Seq(Requests)] BY <1>0, <1>2 DEF WellQueued
<1>5. qs2[t] = s /\ \A u \in Tools \ {t} : qs2[u] = qs[u] BY <1>0 DEF WellQueued
<1>6. WellQueued(qs2)
  <2> SUFFICES ASSUME NEW u \in Tools, NEW i \in DOMAIN qs2[u], NEW j \in DOMAIN qs2[u]
               PROVE  ToolOf[qs2[u][i]] = u /\ (qs2[u][i] = qs2[u][j] => i = j)
    BY <1>4 DEF WellQueued
  <2>1. CASE u # t BY <1>5, <2>1 DEF WellQueued
  <2>2. CASE u = t
    <3>1. i \in 1..(Len(q) + 1) /\ j \in 1..(Len(q) + 1) BY <1>3, <1>5, <2>2
    <3>2. \A k \in 1..(Len(q) + 1) : k \in 1..Len(q) \/ k = Len(q) + 1 BY <1>1
    <3> QED BY <1>2, <1>q, <1>5, <2>2, <3>1, <3>2
  <2> QED BY <2>1, <2>2
<1>7. ASSUME NEW r PROVE r \in In(qs2) <=> r \in In(qs) \/ r = x
  <2>1. ASSUME NEW u \in Tools, NEW i \in 1..Len(qs2[u]), qs2[u][i] = r
        PROVE  r \in In(qs) \/ r = x
    <3>1. CASE u # t BY <1>5, <2>1, <3>1, InQueue
    <3>2. CASE u = t
      <4>1. i \in 1..Len(q) \/ i = Len(q) + 1 BY <1>1, <1>2, <1>5, <2>1, <3>2
      <4>2. i \in 1..Len(q) => q[i] = r BY <1>2, <1>5, <2>1, <3>2
      <4>3. i = Len(q) + 1 => r = x BY <1>2, <1>5, <2>1, <3>2
      <4> QED BY <1>0, <4>1, <4>2, <4>3, InQueue
    <3> QED BY <3>1, <3>2
  <2>2. ASSUME NEW u \in Tools, NEW i \in 1..Len(qs[u]), qs[u][i] = r
        PROVE  r \in In(qs2)
    <3>1. CASE u # t BY <1>5, <1>6, <2>2, <3>1, InQueue
    <3>2. CASE u = t
      <4>1. i \in 1..Len(s) /\ s[i] = r BY <1>1, <1>2, <2>2, <3>2
      <4> QED BY <1>0, <1>5, <1>6, <4>1, InQueue
    <3> QED BY <3>1, <3>2
  <2> HIDE DEF qs2, q, t
  <2>3. r \in In(qs2) => \E u \in Tools : \E i \in 1..Len(qs2[u]) : qs2[u][i] = r
    BY <1>6, InQueue
  <2>4. r \in In(qs) => \E u \in Tools : \E i \in 1..Len(qs[u]) : qs[u][i] = r
    BY InQueue
  <2>5. x \in In(qs2)
    <3>1. Len(q) + 1 \in 1..Len(s) BY <1>1, <1>2
    <3> QED BY <1>0, <1>2, <1>5, <1>6, <3>1, InQueue
  <2> QED BY <2>1, <2>2, <2>3, <2>4, <2>5
<1> QED BY <1>6, <1>7 DEF s
-----------------------------------------------------------------------------
(* AnsweredOnce of arbitrary components, so that it can be stated of the   *)
(* intermediate state in which tryDequeue is entered.                      *)
Once(qs, tm, cd, P, A) ==
    /\ WellQueued(qs)
    /\ tm = In(qs)
    /\ In(qs) \subseteq cd
    /\ P \subseteq cd \ In(qs)
    /\ A \in [Requests -> Nat]
    /\ \A r \in Requests : A[r] = IF r \in cd /\ r \notin In(qs) THEN 1 ELSE 0

LEMMA OnceIsAnsweredOnce ==
    TypeOK => (AnsweredOnce <=> Once(queues, timers, called, permits, answers))
    BY DEF TypeOK, AnsweredOnce, Once, WellQueued, In, Queued

(* Both limits, of arbitrary counters.                                     *)
Bounded(ti, pi) ==
    /\ \A a \in Agents : pi[a] <= PerPrincipal
    /\ \A t \in Tools : ti[t] <= Limit(t)

LEMMA BoundedIsConcurrencyBounded ==
    ConcurrencyBounded <=> Bounded(toolInUse, principalInUse)
    BY DEF ConcurrencyBounded, Bounded

LEMMA LimitFacts ==
    ASSUME NEW t \in Tools
    PROVE  toolLimit(t) \in Nat /\ Limit(t) \in Nat /\ toolLimit(t) <= Limit(t)
    BY LimitsAssumption DEF toolLimit, Limit

(* One more permit for a request that canTake admits stays within bounds.  *)
LEMMA BoundedTake ==
    ASSUME NEW ti \in [Tools -> Nat], NEW pi \in [Agents -> Nat], NEW x \in Requests,
           Bounded(ti, pi), canTake(ti, pi, x)
    PROVE  Bounded(Plus(ti, ToolOf[x]), Plus(pi, AgentOf[x]))
<1>1. ToolOf[x] \in Tools /\ AgentOf[x] \in Agents BY RequestsAssumption
<1>2. /\ toolLimit(ToolOf[x]) \in Nat /\ Limit(ToolOf[x]) \in Nat
      /\ toolLimit(ToolOf[x]) <= Limit(ToolOf[x])
  BY <1>1, LimitFacts
<1>3. PerPrincipal \in Nat BY LimitsAssumption
<1>4. ASSUME NEW a \in Agents PROVE Plus(pi, AgentOf[x])[a] <= PerPrincipal
  BY <1>1, <1>3 DEF Bounded, canTake, Plus
<1>5. ASSUME NEW t \in Tools PROVE Plus(ti, ToolOf[x])[t] <= Limit(t)
  BY <1>1, <1>2 DEF Bounded, canTake, Plus
<1> QED BY <1>4, <1>5 DEF Bounded

LEMMA AnsweredType ==
    ASSUME NEW A \in [Requests -> Nat], NEW S
    PROVE  Answered(A, S) \in [Requests -> Nat]
    BY DEF Answered

(* tryDequeue, entered with counters that agree with the live permits,     *)
(* leaves counters that agree with them, answers each request it serves    *)
(* once, and keeps the limits.                                             *)
LEMMA DequeueStep ==
    ASSUME NEW t \in Tools, NEW ti, NEW pi, NEW h, NEW P \in SUBSET Requests, NEW A,
           NEW cd \in SUBSET Requests, TypeOK,
           Acc(ti, pi, h, P), Bounded(ti, pi), Once(queues, timers, cd, P, A),
           tryDequeue(t, ti, pi, h, P, A)
    PROVE  /\ Acc(toolInUse', principalInUse', permitHeld', permits')
           /\ Bounded(toolInUse', principalInUse')
           /\ Once(queues', timers', cd, permits', answers')
           /\ permits' \subseteq Requests
<1> DEFINE q == queues[t]
<1>1. PICK n \in 0..Len(q), keep \in BOOLEAN :
        LET served == {q[i] : i \in 1..n}
        IN  /\ \A i \in 1..n : canTake(ti, pi, q[i])
            /\ keep => n > 0 /\ now < deadline[q[n]]
            /\ queues' = [queues EXCEPT ![t] = SubSeq(q, n + 1, Len(q))]
            /\ timers' = timers \ served
            /\ answers' = Answered(A, served)
            /\ toolInUse' = IF keep THEN Plus(ti, t) ELSE ti
            /\ principalInUse' = IF keep THEN Plus(pi, AgentOf[q[n]]) ELSE pi
            /\ permitHeld' = IF keep THEN h + 1 ELSE h
            /\ permits' = IF keep THEN P \cup {q[n]} ELSE P
  BY DEF tryDequeue
<1> DEFINE served == {q[i] : i \in 1..n}
<1>2. WellQueued(queues) /\ q \in Seq(Requests) /\ Len(q) \in Nat
  BY DEF Once, WellQueued
<1>3. WellQueued(queues') /\ In(queues') = In(queues) \ served
  BY <1>1, <1>2, QueueServe
<1>4. \A i \in 1..n : q[i] \in Requests /\ q[i] \in In(queues) /\ ToolOf[q[i]] = t
  <2> SUFFICES ASSUME NEW i \in 1..n
               PROVE  q[i] \in Requests /\ q[i] \in In(queues) /\ ToolOf[q[i]] = t
    OBVIOUS
  <2>1. i \in 1..Len(q) BY <1>2
  <2>2. q[i] \in In(queues) /\ q[i] \in Requests BY <1>2, <2>1, InQueue
  <2>3. ToolOf[q[i]] = t BY <1>2, <2>1 DEF WellQueued
  <2> QED BY <2>2, <2>3
<1>5. served \subseteq In(queues) BY <1>4
<1>6. ASSUME keep
      PROVE  /\ q[n] \in Requests /\ q[n] \in served /\ q[n] \in In(queues)
             /\ ToolOf[q[n]] = t /\ canTake(ti, pi, q[n]) /\ q[n] \notin P
  <2>1. n \in 1..n BY <1>1, <1>6
  <2>2. q[n] \notin P BY <1>4, <2>1 DEF Once
  <2> QED BY <1>1, <1>4, <2>1, <2>2
<1>7. Acc(toolInUse', principalInUse', permitHeld', permits') /\ permits' \subseteq Requests
  <2>1. CASE keep
    <3>1. Acc(Plus(ti, t), Plus(pi, AgentOf[q[n]]), h + 1, P \cup {q[n]})
      BY <1>6, <2>1, AccTake
    <3> QED BY <1>1, <1>6, <2>1, <3>1
  <2>2. CASE ~keep BY <1>1, <2>2
  <2> QED BY <2>1, <2>2
<1>8. Bounded(toolInUse', principalInUse')
  <2>1. CASE keep
    <3>1. ti \in [Tools -> Nat] /\ pi \in [Agents -> Nat] BY DEF Acc
    <3>2. Bounded(Plus(ti, t), Plus(pi, AgentOf[q[n]])) BY <1>6, <2>1, <3>1, BoundedTake
    <3> QED BY <1>1, <2>1, <3>2
  <2>2. CASE ~keep BY <1>1, <2>2
  <2> QED BY <2>1, <2>2
<1>9. Once(queues', timers', cd, permits', answers')
  <2>1. timers' = In(queues') BY <1>1, <1>3 DEF Once
  <2>2. In(queues') \subseteq cd BY <1>3 DEF Once
  <2>3. permits' \subseteq cd \ In(queues')
    <3>1. P \subseteq cd \ In(queues') BY <1>3 DEF Once
    <3>2. keep => q[n] \in cd \ In(queues') BY <1>3, <1>6 DEF Once
    <3> QED BY <1>1, <3>1, <3>2
  <2>4. answers' \in [Requests -> Nat] BY <1>1, AnsweredType DEF Once
  <2>5. ASSUME NEW r \in Requests
        PROVE  answers'[r] = IF r \in cd /\ r \notin In(queues') THEN 1 ELSE 0
    <3>1. answers'[r] = IF r \in served THEN A[r] + 1 ELSE A[r] BY <1>1 DEF Answered
    <3>2. A[r] = IF r \in cd /\ r \notin In(queues) THEN 1 ELSE 0 BY DEF Once
    <3>3. In(queues) \subseteq cd BY DEF Once
    <3> HIDE DEF served
    <3> QED BY <1>3, <1>5, <3>1, <3>2, <3>3
  <2> QED BY <1>3, <2>1, <2>2, <2>3, <2>4, <2>5 DEF Once
<1> QED BY <1>7, <1>8, <1>9
-----------------------------------------------------------------------------
(* The invariant in the form the lemmas speak of, and the type facts that  *)
(* no other part implies.                                                  *)
Rest == /\ deadline \in [Requests -> Nat]
        /\ status \in [Tools -> Statuses]
        /\ called \subseteq Requests
        /\ permits \subseteq Requests
        /\ now \in Nat

Parts ==
    /\ Acc(toolInUse, principalInUse, permitHeld, permits)
    /\ Bounded(toolInUse, principalInUse)
    /\ Once(queues, timers, called, permits, answers)
    /\ Rest

LEMMA InRequests ==
    ASSUME NEW qs, WellQueued(qs)
    PROVE  In(qs) \subseteq Requests
    BY InQueue

LEMMA IInvParts == IInv <=> Parts
<1>1. Parts => TypeOK
  BY InRequests DEF Parts, Acc, Once, WellQueued, Rest, TypeOK
<1>2. IInv => Rest BY DEF IInv, TypeOK, Rest
<1> QED
  BY <1>1, <1>2, AccIsAccounting, OnceIsAnsweredOnce, BoundedIsConcurrencyBounded
  DEF IInv, Parts

LEMMA InitParts == Init => Parts
<1> SUFFICES ASSUME Init PROVE Parts OBVIOUS
<1> USE DEF Init
<1>1. Acc(toolInUse, principalInUse, permitHeld, permits)
  <2>1. ASSUME NEW f, NEW v PROVE Count(f, {}, v) = 0
    <3>1. {r \in {} : f[r] = v} = {} OBVIOUS
    <3> QED BY <3>1, FS_EmptySet DEF Count
  <2> QED BY <2>1, FS_EmptySet DEF Acc
<1>2. Bounded(toolInUse, principalInUse) BY LimitsAssumption, LimitFacts DEF Bounded
<1>3. Once(queues, timers, called, permits, answers)
  <2>1. WellQueued(queues) BY DEF WellQueued
  <2>2. In(queues) = {} BY DEF In, Elements
  <2> QED BY <2>1, <2>2 DEF Once
<1>4. Rest BY DEF Rest, Statuses
<1> QED BY <1>1, <1>2, <1>3, <1>4 DEF Parts

(* An answer to a request that acquire sees for the first time.            *)
LEMMA FreshAnswer ==
    ASSUME NEW r \in Requests, r \notin called, Once(queues, timers, called, permits, answers)
    PROVE  /\ Once(queues, timers, called \cup {r}, permits, Answered(answers, {r}))
           /\ r \notin permits
<1>1. r \notin In(queues) /\ r \notin permits BY DEF Once
<1>2. answers \in [Requests -> Nat] BY DEF Once
<1>3. Answered(answers, {r}) \in [Requests -> Nat] BY <1>2, AnsweredType
<1>4. ASSUME NEW x \in Requests
      PROVE  Answered(answers, {r})[x] =
                IF x \in called \cup {r} /\ x \notin In(queues) THEN 1 ELSE 0
  <2>1. answers[x] = IF x \in called /\ x \notin In(queues) THEN 1 ELSE 0 BY DEF Once
  <2>2. Answered(answers, {r})[x] = IF x = r THEN answers[x] + 1 ELSE answers[x]
    BY DEF Answered
  <2> QED BY <1>1, <2>1, <2>2
<1> QED BY <1>1, <1>3, <1>4 DEF Once

LEMMA NextParts == IInv /\ [Next]_vars => Parts'
<1> SUFFICES ASSUME IInv, [Next]_vars PROVE Parts' OBVIOUS
<1>p. /\ Acc(toolInUse, principalInUse, permitHeld, permits)
      /\ Bounded(toolInUse, principalInUse)
      /\ Once(queues, timers, called, permits, answers)
      /\ Rest /\ TypeOK
  BY IInvParts DEF Parts, IInv
<1>q. permits \in SUBSET Requests /\ called \in SUBSET Requests BY <1>p DEF Rest
<1>i. toolInUse \in [Tools -> Nat] /\ principalInUse \in [Agents -> Nat]
  BY <1>p DEF TypeOK
<1>1. ASSUME NEW r \in Requests, acquireGo(r) PROVE Parts'
  <2>1. Once(queues, timers, called \cup {r}, permits, Answered(answers, {r})) /\ r \notin permits
    BY <1>p, <1>1, FreshAnswer DEF acquireGo
  <2>2. Once(queues, timers, called', permits', answers')
    <3>1. /\ called' = called \cup {r} /\ permits' = permits \cup {r}
          /\ answers' = Answered(answers, {r})
      BY <1>1 DEF acquireGo, take
    <3>2. r \notin In(queues) BY <1>1, <1>p DEF Once, acquireGo
    <3> QED BY <2>1, <3>1, <3>2 DEF Once
  <2>3. Acc(toolInUse', principalInUse', permitHeld', permits')
    BY <1>1, <1>p, <1>q, <2>1, AccTake DEF acquireGo, take
  <2>4. Bounded(toolInUse', principalInUse')
    BY <1>1, <1>p, <1>i, BoundedTake DEF acquireGo, take
  <2>5. Rest' BY <1>1, <1>p DEF acquireGo, take, Rest
  <2> QED BY <1>1, <2>2, <2>3, <2>4, <2>5 DEF Parts, acquireGo
<1>2. ASSUME NEW r \in Requests, acquireDropped(r) PROVE Parts'
  <2>1. Once(queues, timers, called', permits, Answered(answers, {r}))
    BY <1>p, <1>2, FreshAnswer DEF acquireDropped
  <2>2. ToolOf[r] \in Tools /\ called' \in SUBSET Requests
    BY <1>2, <1>q, RequestsAssumption DEF acquireDropped
  <2>3. tryDequeue(ToolOf[r], toolInUse, principalInUse, permitHeld, permits,
                   Answered(answers, {r}))
    BY <1>2 DEF acquireDropped
  <2>4. /\ Acc(toolInUse', principalInUse', permitHeld', permits')
        /\ Bounded(toolInUse', principalInUse')
        /\ Once(queues', timers', called', permits', answers')
        /\ permits' \subseteq Requests
    BY <1>p, <1>q, <2>1, <2>2, <2>3, DequeueStep
  <2>5. Rest' BY <1>2, <1>p, <2>2, <2>4 DEF acquireDropped, Rest
  <2> QED BY <2>4, <2>5 DEF Parts
<1>3. ASSUME NEW r \in Requests, NEW wd, acquireReject(r, wd) PROVE Parts'
  <2>1. Once(queues, timers, called \cup {r}, permits, Answered(answers, {r}))
    BY <1>p, <1>3, FreshAnswer DEF acquireReject
  <2>2. Rest' BY <1>3, <1>p DEF acquireReject, Rest, counters
  <2> QED BY <1>3, <1>p, <2>1, <2>2 DEF acquireReject, Parts, counters
<1>4. ASSUME NEW r \in Requests, NEW wd \in WaitDeadlines, acquireQueue(r, wd) PROVE Parts'
  <2> DEFINE t == ToolOf[r]
  <2>1. r \notin In(queues) /\ r \notin called /\ r \notin permits /\ t \in Tools
    BY <1>4, <1>p, RequestsAssumption DEF acquireQueue, Once
  <2>2. queues' = [queues EXCEPT ![t] = Append(queues[t], r)]
    BY <1>4 DEF acquireQueue
  <2>3. WellQueued(queues') /\ In(queues') = In(queues) \cup {r}
    BY <1>p, <2>1, <2>2, QueueAppend DEF Once
  <2>4. Once(queues', timers', called', permits', answers')
    <3>1. timers' = timers \cup {r} /\ called' = called \cup {r}
          /\ permits' = permits /\ answers' = answers
      BY <1>4 DEF acquireQueue
    <3> QED BY <1>p, <2>1, <2>3, <3>1 DEF Once
  <2>5. WaitDeadline(r, wd) \in Nat
    <3>1. now \in Nat /\ status \in [Tools -> Statuses] BY <1>p DEF Rest
    <3>2. toolWaitMs(t) \in Nat BY <2>1, LimitsAssumption DEF toolWaitMs
    <3>3. wd \in Nat BY <3>1, LimitsAssumption DEF WaitDeadlines
    <3> QED BY <3>1, <3>2, <3>3 DEF WaitDeadline
  <2>6. Rest' BY <1>4, <1>p, <2>5 DEF acquireQueue, Rest, counters
  <2> QED BY <1>4, <1>p, <2>4, <2>6 DEF acquireQueue, Parts, counters
<1>5. ASSUME NEW r \in Requests, releaseSlot(r) PROVE Parts'
  <2> DEFINE ti == Minus(toolInUse, ToolOf[r])
             pi == Minus(principalInUse, AgentOf[r])
  <2>0. ToolOf[r] \in Tools /\ r \in permits BY <1>5, RequestsAssumption DEF releaseSlot
  <2>1. /\ Acc(ti, pi, permitHeld - 1, permits \ {r})
        /\ \A t \in Tools : ti[t] <= toolInUse[t]
        /\ \A a \in Agents : pi[a] <= principalInUse[a]
    BY <1>p, <1>q, <2>0, AccRelease
  <2>2. Bounded(ti, pi)
    <3>1. ti \in [Tools -> Nat] /\ pi \in [Agents -> Nat] BY <2>1 DEF Acc
    <3> HIDE DEF ti, pi
    <3>2. ASSUME NEW a \in Agents PROVE pi[a] <= PerPrincipal
      <4>1. pi[a] \in Nat /\ principalInUse[a] \in Nat BY <3>1, <1>i
      <4>2. pi[a] <= principalInUse[a] /\ principalInUse[a] <= PerPrincipal
        BY <2>1, <1>p DEF Bounded
      <4> QED BY <4>1, <4>2, LimitsAssumption
    <3>3. ASSUME NEW t \in Tools PROVE ti[t] <= Limit(t)
      <4>1. ti[t] \in Nat /\ toolInUse[t] \in Nat /\ Limit(t) \in Nat
        BY <3>1, <1>i, LimitFacts
      <4>2. ti[t] <= toolInUse[t] /\ toolInUse[t] <= Limit(t) BY <2>1, <1>p DEF Bounded
      <4> QED BY <4>1, <4>2
    <3> QED BY <3>2, <3>3 DEF Bounded
  <2>3. Once(queues, timers, called, permits \ {r}, answers) BY <1>p DEF Once
  <2>4. tryDequeue(ToolOf[r], ti, pi, permitHeld - 1, permits \ {r}, answers)
    BY <1>5 DEF releaseSlot
  <2>5. /\ Acc(toolInUse', principalInUse', permitHeld', permits')
        /\ Bounded(toolInUse', principalInUse')
        /\ Once(queues', timers', called, permits', answers')
        /\ permits' \subseteq Requests
    <3> HIDE DEF ti, pi
    <3>1. permits \ {r} \in SUBSET Requests BY <1>q
    <3> QED BY <1>p, <1>q, <2>0, <2>1, <2>2, <2>3, <2>4, <3>1, DequeueStep
  <2>6. Rest' /\ called' = called BY <1>5, <1>p, <2>5 DEF releaseSlot, Rest
  <2> QED BY <2>5, <2>6 DEF Parts
<1>6. ASSUME NEW r \in Requests, onWaitTimer(r) PROVE Parts'
  <2> DEFINE t == ToolOf[r]
  <2>1. PICK i \in DOMAIN queues[t] :
          /\ queues[t][i] = r
          /\ queues' = [queues EXCEPT ![t] = Without(queues[t], i)]
          /\ answers' = Answered(answers, {r})
    BY <1>6 DEF onWaitTimer
  <2>2. t \in Tools /\ WellQueued(queues) /\ i \in 1..Len(queues[t])
    BY <1>p, RequestsAssumption DEF Once, WellQueued
  <2>3. WellQueued(queues') /\ In(queues') = In(queues) \ {r} /\ r \in In(queues)
    <3>1. /\ WellQueued([queues EXCEPT ![t] = Without(queues[t], i)])
          /\ In([queues EXCEPT ![t] = Without(queues[t], i)]) = In(queues) \ {queues[t][i]}
      BY <2>2, QueueDrop
    <3>2. r \in In(queues) BY <2>1, <2>2, InQueue
    <3> QED BY <2>1, <3>1, <3>2
  <2>4. Once(queues', timers', called', permits', answers')
    <3>1. timers' = timers \ {r} /\ called' = called /\ permits' = permits
      BY <1>6 DEF onWaitTimer
    <3>2. answers' \in [Requests -> Nat] BY <1>p, <2>1, AnsweredType DEF Once
    <3>3. \A x \in Requests : answers'[x] = IF x = r THEN answers[x] + 1 ELSE answers[x]
      BY <2>1 DEF Answered
    <3>4. \A x \in Requests : answers[x] = IF x \in called /\ x \notin In(queues) THEN 1 ELSE 0
      BY <1>p DEF Once
    <3>5. In(queues) \subseteq called BY <1>p DEF Once
    <3>6. \A x \in Requests : answers'[x] = IF x \in called' /\ x \notin In(queues') THEN 1 ELSE 0
      BY <2>3, <3>1, <3>3, <3>4, <3>5
    <3> QED BY <1>p, <2>3, <3>1, <3>2, <3>5, <3>6 DEF Once
  <2>5. Rest' BY <1>6, <1>p DEF onWaitTimer, Rest, counters
  <2> QED BY <1>6, <1>p, <2>4, <2>5 DEF onWaitTimer, Parts, counters
<1>7. ASSUME NEW b \in Backends, NEW listed, onToolsListed(b, listed) PROVE Parts'
  <2>1. Rest' BY <1>7, <1>p DEF onToolsListed, Rest, Statuses, counters
  <2> QED BY <1>7, <1>p, <2>1 DEF onToolsListed, Parts, counters
<1>8. ASSUME rejectAllQueued PROVE Parts'
  <2>0. Queued = In(queues) BY DEF Queued, In
  <2>1. WellQueued(queues') /\ In(queues') = {}
    BY <1>8 DEF rejectAllQueued, WellQueued, In, Elements
  <2>2. Once(queues', timers', called', permits', answers')
    <3>1. /\ timers' = timers \ In(queues) /\ called' = called /\ permits' = permits
          /\ answers' = Answered(answers, In(queues))
      BY <1>8, <2>0 DEF rejectAllQueued
    <3>2. answers' \in [Requests -> Nat] BY <1>p, <3>1, AnsweredType DEF Once
    <3>3. \A x \in Requests :
            answers'[x] = IF x \in In(queues) THEN answers[x] + 1 ELSE answers[x]
      BY <3>1 DEF Answered
    <3>4. \A x \in Requests : answers[x] = IF x \in called /\ x \notin In(queues) THEN 1 ELSE 0
      BY <1>p DEF Once
    <3>5. In(queues) \subseteq called BY <1>p DEF Once
    <3>6. \A x \in Requests : answers'[x] = IF x \in called' /\ x \notin In(queues') THEN 1 ELSE 0
      BY <2>1, <3>1, <3>3, <3>4, <3>5
    <3> QED BY <1>p, <2>1, <3>1, <3>2, <3>6 DEF Once
  <2>3. Rest' BY <1>8, <1>p DEF rejectAllQueued, Rest, counters
  <2> QED BY <1>8, <1>p, <2>2, <2>3 DEF rejectAllQueued, Parts, counters
<1>9. ASSUME Tick PROVE Parts'
  <2>1. Rest' BY <1>9, <1>p DEF Tick, Rest
  <2> QED BY <1>9, <1>p, <2>1 DEF Tick, Parts, counters
<1>10. ASSUME UNCHANGED vars PROVE Parts'
  BY <1>10, <1>p DEF vars, Parts, Rest
<1> QED
  BY <1>1, <1>2, <1>3, <1>4, <1>5, <1>6, <1>7, <1>8, <1>9, <1>10 DEF Next, acquire

(* The two halves of the induction, for whoever composes the governor.     *)
LEMMA IInvInit == Init => IInv
    BY InitParts, IInvParts

LEMMA IInvStep == IInv /\ [Next]_vars => IInv'
<1>1. Parts' => IInv' BY IInvParts, PTL
<1> QED BY <1>1, NextParts

(* The conjunction of the four safety properties is an invariant of the    *)
(* governor for every instance.                                            *)
THEOREM GovernorInvariant == Spec => []IInv
    BY IInvInit, IInvStep, PTL DEF Spec

(* Type correctness of the governor's state (LocalGovernor.h).             *)
THEOREM GovernorTypeCorrect == Spec => []TypeOK
<1>1. IInv => TypeOK BY DEF IInv
<1> QED BY <1>1, GovernorInvariant, PTL

(* take and releaseSlot keep toolInUse_, principalInUse_ and permitHeld    *)
(* equal to the number of live permits, whatever order grants, drops,      *)
(* timers and releases come in.                                            *)
THEOREM GovernorAccounting == Spec => []PermitAccounting
<1>1. IInv => PermitAccounting BY DEF IInv
<1> QED BY <1>1, GovernorInvariant, PTL

(* Every onAdmit callback runs exactly once: at most one of the immediate  *)
(* answer, tryDequeue, the timer and rejectAllQueued answers a request.    *)
THEOREM GovernorAnswersOnce == Spec => []AnsweredOnce
<1>1. IInv => AnsweredOnce BY DEF IInv
<1> QED BY <1>1, GovernorInvariant, PTL

(* canTake's two tests bound the permits of each principal and each tool,  *)
(* also across tools/list results that switch a tool's limit.              *)
THEOREM GovernorBounded == Spec => []ConcurrencyBounded
<1>1. IInv => ConcurrencyBounded BY DEF IInv
<1> QED BY <1>1, GovernorInvariant, PTL
-----------------------------------------------------------------------------
(* The refinement.  What the pool calls settled are the requests seen and  *)
(* no longer queued; the holders the pool counts are the counters' value.  *)
LEMMA SettledFacts == IInv => {r \in Requests : answers[r] > 0} = called \ Queued
<1> SUFFICES ASSUME IInv PROVE {r \in Requests : answers[r] > 0} = called \ Queued OBVIOUS
<1>1. Once(queues, timers, called, permits, answers) /\ Rest BY IInvParts DEF Parts
<1>2. Queued = In(queues) BY DEF Queued, In
<1>3. \A r \in Requests : answers[r] = IF r \in called /\ r \notin Queued THEN 1 ELSE 0
  BY <1>1, <1>2 DEF Once
<1> QED BY <1>1, <1>3 DEF Rest

LEMMA SameCardinality == \A S : Pool!Cardinality(S) = Cardinality(S)
    BY DEF Pool!Cardinality, Cardinality

LEMMA RoomFor ==
    ASSUME NEW ti, NEW pi, NEW h, NEW out, NEW r \in Requests,
           Acc(ti, pi, h, permits \ out), canTake(ti, pi, r)
    PROVE  Pool!Room(r, out)
<1>1. ToolOf[r] \in Tools /\ AgentOf[r] \in Agents BY RequestsAssumption
<1>2. /\ ti[ToolOf[r]] = Cardinality({x \in permits \ out : ToolOf[x] = ToolOf[r]})
      /\ pi[AgentOf[r]] = Cardinality({x \in permits \ out : AgentOf[x] = AgentOf[r]})
  BY <1>1 DEF Acc, Count
<1> QED BY <1>1, <1>2, SameCardinality DEF canTake, Pool!Room, Pool!OfTool, Pool!OfAgent

(* A step that leaves the limits alone settles whoever is answered in it.  *)
LEMMA PoolSettles ==
    ASSUME IInv, IInv', status' = status,
           called \ Queued \subseteq called' \ Queued',
           NEW out, out = {} \/ \E x \in permits : out = {x},
           NEW in, \/ in = {}
                   \/ \E x \in Requests : /\ in = {x} /\ Pool!Room(x, out)
                                          /\ x \notin called \ Queued
                                          /\ x \in called' \ Queued',
           permits' = (permits \ out) \cup in
    PROVE  Pool!PoolNext
<1> DEFINE S == called \ Queued
           new == (called' \ Queued') \ S
<1>1. {r \in Requests : answers[r] > 0} = S BY SettledFacts
<1>2. {r \in Requests : answers'[r] > 0} = called' \ Queued'
  <2>1. (IInv => {r \in Requests : answers[r] > 0} = called \ Queued)' BY SettledFacts, PTL
  <2> QED BY <2>1
<1>3. called' \subseteq Requests BY DEF IInv, TypeOK
<1>4. out \in Pool!AtMostOneOf(permits) BY DEF Pool!AtMostOneOf
<1>5. in \in Pool!AtMostOneOf(Requests \ S) BY DEF Pool!AtMostOneOf
<1>6. new \in SUBSET (Requests \ S) BY <1>3
<1>7. \A r \in in : Pool!Room(r, out) OBVIOUS
<1>8. called' \ Queued' = (S \cup in) \cup new OBVIOUS
<1>9. [t \in Tools |-> toolLimit(t)]' = [t \in Tools |-> toolLimit(t)] BY DEF toolLimit
<1> HIDE DEF S, new
<1>10. Pool!Settle(out, in, new) BY <1>1, <1>2, <1>7, <1>8, <1>9 DEF Pool!Settle
<1> DEFINE settledNow == {r \in Requests : answers[r] > 0}
<1>11. /\ in \in Pool!AtMostOneOf(Requests \ settledNow)
       /\ new \in SUBSET (Requests \ settledNow)
  BY <1>1, <1>5, <1>6
<1> HIDE DEF settledNow
<1>12. \E o \in Pool!AtMostOneOf(permits), i \in Pool!AtMostOneOf(Requests \ settledNow),
          refused \in SUBSET (Requests \ settledNow) : Pool!Settle(o, i, refused)
  BY <1>4, <1>10, <1>11 DEF Pool!Settle
<1> QED BY <1>12 DEF Pool!PoolNext, settledNow

(* tryDequeue gives out at most one permit, to a waiter, and only if there *)
(* is room for it.                                                         *)
LEMMA DequeueGrants ==
    ASSUME NEW t \in Tools, NEW ti, NEW pi, NEW h, NEW out, NEW A, IInv,
           Acc(ti, pi, h, permits \ out), tryDequeue(t, ti, pi, h, permits \ out, A)
    PROVE  /\ Queued' \subseteq Queued
           /\ \/ permits' = (permits \ out) \cup {}
              \/ \E x \in Requests : /\ permits' = (permits \ out) \cup {x}
                                     /\ x \in Queued \ Queued' /\ Pool!Room(x, out)
<1> DEFINE q == queues[t]
<1>1. PICK n \in 0..Len(q), keep \in BOOLEAN :
        /\ \A i \in 1..n : canTake(ti, pi, q[i])
        /\ keep => n > 0
        /\ queues' = [queues EXCEPT ![t] = SubSeq(q, n + 1, Len(q))]
        /\ permits' = IF keep THEN (permits \ out) \cup {q[n]} ELSE permits \ out
  BY DEF tryDequeue
<1>2. WellQueued(queues) BY IInvParts DEF Parts, Once
<1>3. Queued = In(queues) /\ Queued' = In(queues') BY DEF Queued, In
<1>4. In(queues') = In(queues) \ {q[i] : i \in 1..n} BY <1>1, <1>2, QueueServe
<1>5. Len(q) \in Nat BY <1>2 DEF WellQueued
<1>6. CASE keep
  <2>1. n \in 1..n /\ n \in 1..Len(q) BY <1>1, <1>5, <1>6
  <2>2. q[n] \in In(queues) /\ q[n] \in Requests BY <1>2, <2>1, InQueue
  <2>3. canTake(ti, pi, q[n]) BY <1>1, <2>1
  <2>4. Pool!Room(q[n], out) BY <2>2, <2>3, RoomFor
  <2>5. q[n] \in Queued \ Queued' BY <1>3, <1>4, <2>1, <2>2
  <2> QED BY <1>1, <1>3, <1>4, <1>6, <2>2, <2>4, <2>5
<1>7. CASE ~keep BY <1>1, <1>3, <1>4, <1>7
<1> QED BY <1>6, <1>7

LEMMA PoolStep == IInv /\ IInv' /\ [Next]_vars => [Pool!PoolNext]_(Pool!poolVars)
<1> SUFFICES ASSUME IInv, IInv', [Next]_vars
             PROVE  Pool!PoolNext \/ UNCHANGED Pool!poolVars
  OBVIOUS
<1>p. Acc(toolInUse, principalInUse, permitHeld, permits) BY IInvParts DEF Parts
<1>q. /\ permits \in SUBSET Requests /\ permits \cup {} = permits
      /\ (permits \ {}) \cup {} = permits /\ permits \ {} = permits
      /\ Queued \subseteq called
      /\ Acc(toolInUse, principalInUse, permitHeld, permits \ {})
  BY <1>p DEF IInv, TypeOK, AnsweredOnce
<1>1. ASSUME NEW r \in Requests, acquireGo(r) PROVE Pool!PoolNext
  <2>1. Pool!Room(r, {}) BY <1>1, <1>p, <1>q, RoomFor DEF acquireGo
  <2>2. /\ status' = status /\ called' = called \cup {r} /\ r \notin called
        /\ Queued' = Queued /\ permits' = (permits \ {}) \cup {r}
    BY <1>1 DEF acquireGo, take, Queued
  <2>3. r \in called' \ Queued' BY <1>q, <2>2
  <2> QED BY <2>1, <2>2, <2>3, PoolSettles
<1>2. ASSUME NEW r \in Requests, acquireDropped(r) PROVE Pool!PoolNext
  <2>1. ToolOf[r] \in Tools BY RequestsAssumption
  <2>2. /\ status' = status /\ called' = called \cup {r} /\ r \notin called
        /\ tryDequeue(ToolOf[r], toolInUse, principalInUse, permitHeld, permits \ {},
                      Answered(answers, {r}))
    BY <1>2, <1>q DEF acquireDropped
  <2>3. /\ Queued' \subseteq Queued
        /\ \/ permits' = (permits \ {}) \cup {}
           \/ \E x \in Requests : /\ permits' = (permits \ {}) \cup {x}
                                  /\ x \in Queued \ Queued' /\ Pool!Room(x, {})
    BY <1>q, <2>1, <2>2, DequeueGrants
  <2>4. called \ Queued \subseteq called' \ Queued' BY <2>2, <2>3
  <2>5. CASE permits' = (permits \ {}) \cup {} BY <2>2, <2>4, <2>5, PoolSettles
  <2>6. ASSUME NEW x \in Requests, permits' = (permits \ {}) \cup {x},
               x \in Queued \ Queued', Pool!Room(x, {})
        PROVE  Pool!PoolNext
    <3>1. x \notin called \ Queued /\ x \in called' \ Queued' BY <1>q, <2>2, <2>6
    <3> QED BY <2>2, <2>4, <2>6, <3>1, PoolSettles
  <2> QED BY <2>3, <2>5, <2>6
<1>3. ASSUME NEW r \in Requests, NEW wd, acquireReject(r, wd) PROVE Pool!PoolNext
  <2>1. /\ status' = status /\ called' = called \cup {r} /\ Queued' = Queued
        /\ permits' = (permits \ {}) \cup {}
    BY <1>3, <1>q DEF acquireReject, Queued
  <2>2. called \ Queued \subseteq called' \ Queued' BY <2>1
  <2> QED BY <2>1, <2>2, PoolSettles
<1>4. ASSUME NEW r \in Requests, NEW wd, acquireQueue(r, wd)
      PROVE  UNCHANGED Pool!poolVars
  BY <1>4 DEF acquireQueue, Pool!poolVars, toolLimit
<1>5. ASSUME NEW r \in Requests, releaseSlot(r) PROVE Pool!PoolNext
  <2> DEFINE ti == Minus(toolInUse, ToolOf[r])
             pi == Minus(principalInUse, AgentOf[r])
  <2>1. ToolOf[r] \in Tools /\ r \in permits BY <1>5, RequestsAssumption DEF releaseSlot
  <2>2. Acc(ti, pi, permitHeld - 1, permits \ {r}) BY <1>p, <1>q, <2>1, AccRelease
  <2>3. /\ status' = status /\ called' = called
        /\ tryDequeue(ToolOf[r], ti, pi, permitHeld - 1, permits \ {r}, answers)
    BY <1>5 DEF releaseSlot
  <2> HIDE DEF ti, pi
  <2>4. /\ Queued' \subseteq Queued
        /\ \/ permits' = (permits \ {r}) \cup {}
           \/ \E x \in Requests : /\ permits' = (permits \ {r}) \cup {x}
                                  /\ x \in Queued \ Queued' /\ Pool!Room(x, {r})
    BY <2>1, <2>2, <2>3, DequeueGrants
  <2>5. called \ Queued \subseteq called' \ Queued' BY <2>3, <2>4
  <2>6. CASE permits' = (permits \ {r}) \cup {} BY <2>1, <2>3, <2>5, <2>6, PoolSettles
  <2>7. ASSUME NEW x \in Requests, permits' = (permits \ {r}) \cup {x},
               x \in Queued \ Queued', Pool!Room(x, {r})
        PROVE  Pool!PoolNext
    <3>1. x \notin called \ Queued /\ x \in called' \ Queued' BY <1>q, <2>3, <2>7
    <3> QED BY <2>1, <2>3, <2>5, <2>7, <3>1, PoolSettles
  <2> QED BY <2>4, <2>6, <2>7
<1>6. ASSUME NEW r \in Requests, onWaitTimer(r) PROVE Pool!PoolNext
  <2>1. PICK i \in DOMAIN queues[ToolOf[r]] :
          queues' = [queues EXCEPT ![ToolOf[r]] = Without(queues[ToolOf[r]], i)]
    BY <1>6 DEF onWaitTimer
  <2>2. WellQueued(queues) /\ ToolOf[r] \in Tools
    BY IInvParts, RequestsAssumption DEF Parts, Once
  <2>3. i \in 1..Len(queues[ToolOf[r]]) BY <2>2 DEF WellQueued
  <2>4. In(queues') \subseteq In(queues)
    <3>1. In([queues EXCEPT ![ToolOf[r]] = Without(queues[ToolOf[r]], i)])
            = In(queues) \ {queues[ToolOf[r]][i]}
      BY <2>2, <2>3, QueueDrop
    <3> QED BY <2>1, <3>1
  <2>5. /\ status' = status /\ called' = called /\ Queued' \subseteq Queued
        /\ permits' = (permits \ {}) \cup {}
    BY <1>6, <1>q, <2>4 DEF onWaitTimer, Queued, In
  <2>6. called \ Queued \subseteq called' \ Queued' BY <2>5
  <2> QED BY <2>5, <2>6, PoolSettles
<1>7. ASSUME NEW b \in Backends, NEW listed, onToolsListed(b, listed) PROVE Pool!PoolNext
  <2>1. [t \in Tools |-> toolLimit(t)]' \in [Tools -> Nat]
    BY LimitsAssumption DEF toolLimit
  <2>2. UNCHANGED <<permits, answers>> BY <1>7 DEF onToolsListed
  <2> QED BY <2>1, <2>2 DEF Pool!PoolNext, Pool!Recap
<1>8. ASSUME rejectAllQueued PROVE Pool!PoolNext
  <2>1. /\ status' = status /\ called' = called /\ Queued' = {}
        /\ permits' = (permits \ {}) \cup {}
    BY <1>8, <1>q DEF rejectAllQueued, Queued, Elements
  <2>2. called \ Queued \subseteq called' \ Queued' BY <2>1
  <2> QED BY <2>1, <2>2, PoolSettles
<1>9. ASSUME Tick PROVE UNCHANGED Pool!poolVars
  BY <1>9 DEF Tick, Pool!poolVars, toolLimit
<1>10. ASSUME UNCHANGED vars PROVE UNCHANGED Pool!poolVars
  BY <1>10 DEF vars, Pool!poolVars, toolLimit
<1> QED
  BY <1>1, <1>2, <1>3, <1>4, <1>5, <1>6, <1>7, <1>8, <1>9, <1>10 DEF Next, acquire

(* Whoever is answered stays answered, and is not queued again.            *)
LEMMA SettledGrows ==
    ASSUME IInv, IInv', [Next]_vars
    PROVE  called \ Queued \subseteq called' \ Queued'
<1>1. {r \in Requests : answers[r] > 0} = called \ Queued BY SettledFacts
<1>2. {r \in Requests : answers'[r] > 0} = called' \ Queued'
  <2>1. (IInv => {r \in Requests : answers[r] > 0} = called \ Queued)' BY SettledFacts, PTL
  <2> QED BY <2>1
<1>3. {r \in Requests : answers[r] > 0} \subseteq {r \in Requests : answers'[r] > 0}
  BY PoolStep DEF Pool!PoolNext, Pool!Settle, Pool!Recap, Pool!poolVars
<1> QED BY <1>1, <1>2, <1>3

LEMMA PoolInitially == Init => Pool!PoolInit
<1> SUFFICES ASSUME Init PROVE Pool!PoolInit OBVIOUS
<1>1. {r \in Requests : answers[r] > 0} = {} BY DEF Init
<1>2. [t \in Tools |-> toolLimit(t)] \in [Tools -> Nat] BY LimitFacts
<1> QED BY <1>1, <1>2 DEF Init, Pool!PoolInit

(* LocalGovernor implements the permit pool: take is only reached below    *)
(* the limits in force at that step, tryDequeue passes on at most one of   *)
(* the permits releaseSlot gets back, and nobody is answered twice.        *)
THEOREM GovernorImplementsPool == Spec => ImplementsPermitPool
    BY PoolInitially, GovernorInvariant, PoolStep, PTL DEF Spec, ImplementsPermitPool, Pool!PoolSpec
=============================================================================
