----------------------------- MODULE GrantStore -----------------------------
(***************************************************************************)
(* policy/JsonlGrantStore in the gateway, and the CLI's grant approve.     *)
(*                                                                         *)
(* grants.jsonl is shared by two processes that only append to it.  The    *)
(* gateway keeps a snapshot of it: the loop thread adds the pending grants *)
(* it writes (by a job on the worker pool), a worker replaces it when the  *)
(* file's mtime differs from the one last read.  A refresh takes its steps *)
(* (stat, look, parse, swap) between those of everybody else, and several  *)
(* may be under way.                                                       *)
(*                                                                         *)
(* The file is kept as what parseFile makes of it: the last line of each   *)
(* id.  Its mtime is 0 while it does not exist.                            *)
(***************************************************************************)
EXTENDS Integers, FiniteSets

CONSTANTS Grants,           \* grant ids
          Agents, AgentOf,  \* the agent each grant is for
          elevationMax,     \* the highest rank that may be asked for
          RankOf,           \* the rank each grant bumps to
          LevelOfAgent,     \* the rank each agent has of its own
          Backends, LevelOf,   \* the rank each backend asks for
          Workers,          \* the workers that may refresh
          Ttl, Overrides,   \* elevation.ttl_ms, and the values of --ttl-ms
          PoolMayFill,      \* whether the worker queue may be full
          CoarseMtime,      \* whether writes of one tick share an mtime
          MaxApprovals,     \* bound on the approvals
          MaxTime           \* bound on the clock

ASSUME GrantAssumption ==
    /\ AgentOf \in [Grants -> Agents] /\ elevationMax \in Nat /\ RankOf \in [Grants -> 0..elevationMax]
    /\ LevelOfAgent \in [Agents -> Nat] /\ LevelOf \in [Backends -> Nat]
    /\ Ttl \in Nat \ {0} /\ Overrides \subseteq Nat \ {0} /\ MaxTime \in Nat
    /\ MaxApprovals \in Nat
    /\ PoolMayFill \in BOOLEAN /\ CoarseMtime \in BOOLEAN

VARIABLES
    file, mtime,     \* grants.jsonl
    table,           \* table_
    lastMtime,       \* lastMtimeNs_
    dirty,           \* dirty_
    job,             \* the append job of each grant the gateway has issued
    refresh,         \* the refresh each worker is at
    expireEmitted,   \* expireEmitted_: grants whose expiry has been audited
    approvals,       \* history: the grants approved, with their times of expiry
    now

fileVars == <<file, mtime, approvals>>
storeVars == <<table, lastMtime, dirty, expireEmitted>>
gvars == <<file, mtime, approvals, table, lastMtime, dirty, job, refresh, expireEmitted, now>>

Record == [status : {"none", "pending", "approved"}, expiresAt : Nat]
NoRecord == [status |-> "none", expiresAt |-> 0]
Table == [Grants -> Record]
Idle == [at |-> "idle", mtime |-> 0, next |-> [g \in Grants |-> NoRecord]]

(* A line is appended to the file.                                         *)
write(g, r) ==
    /\ file' = [file EXCEPT ![g] = r]
    /\ mtime' = IF CoarseMtime THEN now ELSE mtime + 1
    /\ approvals' = approvals \cup (IF r.status = "approved" THEN {<<g, r.expiresAt>>} ELSE {})

(* The ranks of a's grants in force in a table.                            *)
InForce(t, a) == {RankOf[g] : g \in {g \in Grants :
    AgentOf[g] = a /\ t[g].status = "approved" /\ now < t[g].expiresAt}}

Largest(S) == CHOOSE m \in S \cup {0} : \A n \in S : n <= m

\* Mutant: a grant is still in force in the millisecond it expires.
effectiveBump_Late(a) ==
    Largest({RankOf[g] : g \in {g \in Grants : /\ AgentOf[g] = a
                                               /\ table[g].status = "approved"
                                               /\ now <= table[g].expiresAt}})

effectiveBump(a) == Largest(InForce(table, a))

effectiveRank(a) ==
    IF LevelOfAgent[a] > effectiveBump(a) THEN LevelOfAgent[a] ELSE effectiveBump(a)

(* RankPolicy::authorizeCall for a configured backend and an agent that    *)
(* has a level, with the bump read when the request came in.               *)
authorizeCall(a, b) == effectiveRank(a) >= LevelOf[b]
-----------------------------------------------------------------------------
(* appendPending and appendLine's first section, on the loop thread.       *)
appendLine(g) ==
    /\ table' = [table EXCEPT ![g] = [status |-> "pending", expiresAt |-> 0]]
    /\ lastMtime' = -1
    /\ dirty' = TRUE
    /\ UNCHANGED expireEmitted

appendPending(g) ==
    /\ job[g] = "none" /\ file[g] = NoRecord
    /\ appendLine(g)
    /\ job' = [job EXCEPT ![g] = "queued"]
    /\ UNCHANGED <<fileVars, refresh, now>>

(* The pool is full: post_ throws after the job was moved into its         *)
(* argument, and the job run in its place has no path and no line to write.*)
appendPendingFull(g) ==
    /\ PoolMayFill
    /\ job[g] = "none" /\ file[g] = NoRecord
    /\ appendLine(g)
    /\ job' = [job EXCEPT ![g] = "written"]
    /\ UNCHANGED <<fileVars, refresh, now>>

jobWrites(g) ==
    /\ job[g] = "queued"
    /\ write(g, [status |-> "pending", expiresAt |-> 0])
    /\ job' = [job EXCEPT ![g] = "written"]
    /\ UNCHANGED <<storeVars, refresh, now>>

clearDirty(g) ==
    /\ job[g] = "written"
    /\ dirty' = FALSE
    /\ job' = [job EXCEPT ![g] = "done"]
    /\ UNCHANGED <<fileVars, table, lastMtime, expireEmitted, refresh, now>>
-----------------------------------------------------------------------------
(* refreshOnWorker.                                                        *)
at(w, place) == refresh[w].at = place
leave(w) == refresh' = [refresh EXCEPT ![w] = Idle]

refreshStatFails(w) ==
    /\ at(w, "idle") /\ mtime = 0
    /\ refresh' = [refresh EXCEPT ![w] = [Idle EXCEPT !.at = "missing"]]
    /\ UNCHANGED <<fileVars, storeVars, job, now>>

(* The file may be there, and in the table, by now.                        *)
refreshNoFile(w) ==
    /\ at(w, "missing")
    /\ leave(w)
    /\ \/ /\ ~dirty /\ lastMtime # 0
          /\ lastMtime' = 0
          /\ table' = [g \in Grants |-> NoRecord]
       \/ /\ dirty \/ lastMtime = 0
          /\ UNCHANGED <<table, lastMtime>>
    /\ UNCHANGED <<fileVars, dirty, expireEmitted, job, now>>

refreshStat(w) ==
    /\ at(w, "idle") /\ mtime # 0
    /\ refresh' = [refresh EXCEPT ![w] = [Idle EXCEPT !.at = "statted", !.mtime = mtime]]
    /\ UNCHANGED <<fileVars, storeVars, job, now>>

refreshLook(w) ==
    /\ at(w, "statted")
    /\ IF dirty \/ refresh[w].mtime = lastMtime
       THEN leave(w)
       ELSE refresh' = [refresh EXCEPT ![w].at = "parsing"]
    /\ UNCHANGED <<fileVars, storeVars, job, now>>

parseFile(w) ==
    /\ at(w, "parsing")
    /\ refresh' = [refresh EXCEPT ![w].at = "parsed", ![w].next = file]
    /\ UNCHANGED <<fileVars, storeVars, job, now>>

Expired(t) == {g \in Grants : t[g].status = "approved" /\ now >= t[g].expiresAt}

\* Mutant: the mtime recorded is that of the file at the swap.
refreshSwap_LateStat(w) ==
    /\ at(w, "parsed")
    /\ leave(w)
    /\ \/ dirty /\ UNCHANGED <<table, lastMtime, expireEmitted>>
       \/ /\ ~dirty
          /\ lastMtime' = mtime
          /\ table' = refresh[w].next
          /\ expireEmitted' = expireEmitted \cup Expired(table')
    /\ UNCHANGED <<fileVars, dirty, job, now>>

refreshSwap(w) ==
    /\ at(w, "parsed")
    /\ leave(w)
    /\ \/ dirty /\ UNCHANGED <<table, lastMtime, expireEmitted>>
       \/ /\ ~dirty
          /\ lastMtime' = refresh[w].mtime
          /\ table' = refresh[w].next
          /\ expireEmitted' = expireEmitted \cup Expired(table')
    /\ UNCHANGED <<fileVars, dirty, job, now>>
-----------------------------------------------------------------------------
(* The CLI, in a process of its own.  approveById finds the grant in the   *)
(* file, pending or approved before, and may be given a time to live;      *)
(* approveDirect makes a new one.  Both append at once.                    *)
approveUntil(g, e) ==
    /\ Cardinality(approvals) < MaxApprovals /\ <<g, e>> \notin approvals
    /\ write(g, [status |-> "approved", expiresAt |-> e])
    /\ job' = [job EXCEPT ![g] = IF @ = "none" THEN "done" ELSE @]
    /\ UNCHANGED <<storeVars, refresh, now>>

approveById(g) ==
    /\ file[g].status # "none"
    /\ \E ttl \in Overrides \cup {Ttl} : approveUntil(g, now + ttl)

approveDirect(g) ==
    /\ file[g].status = "none" /\ job[g] = "none"
    /\ approveUntil(g, now + Ttl)

tick ==
    /\ now < MaxTime
    /\ now' = now + 1
    /\ UNCHANGED <<fileVars, storeVars, job, refresh>>
-----------------------------------------------------------------------------
GInit ==
    /\ file = [g \in Grants |-> NoRecord] /\ mtime = 0
    /\ approvals = {}
    /\ table = [g \in Grants |-> NoRecord]
    /\ lastMtime = -1 /\ dirty = FALSE
    /\ job = [g \in Grants |-> "none"]
    /\ refresh = [w \in Workers |-> Idle]
    /\ expireEmitted = {}
    /\ now = 1

refreshOnWorker(w) ==
    \/ refreshStatFails(w) \/ refreshNoFile(w)
    \/ refreshStat(w) \/ refreshLook(w) \/ parseFile(w) \/ refreshSwap(w)

GNext ==
    \/ \E g \in Grants : \/ appendPending(g) \/ appendPendingFull(g)
                         \/ jobWrites(g) \/ clearDirty(g)
                         \/ approveById(g) \/ approveDirect(g)
    \/ \E w \in Workers : refreshOnWorker(w)
    \/ tick

(* Workers run the jobs they are given, and the gateway's timer goes on    *)
(* asking for refreshes; time passes.                                      *)
GFairness ==
    /\ \A g \in Grants : WF_gvars(jobWrites(g)) /\ WF_gvars(clearDirty(g))
    /\ \A w \in Workers : WF_gvars(refreshOnWorker(w))
    /\ WF_gvars(tick)

GSpec == GInit /\ [][GNext]_gvars /\ GFairness
-----------------------------------------------------------------------------
(* The type invariant of the store.                                        *)
GTypeOK ==
    /\ file \in Table /\ mtime \in Nat
    /\ table \in Table /\ lastMtime \in Int /\ lastMtime <= mtime
    /\ dirty \in BOOLEAN
    /\ dirty => \E g \in Grants : job[g] \in {"queued", "written"}
    /\ job \in [Grants -> {"none", "queued", "written", "done"}]
    /\ refresh \in [Workers -> [at : {"idle", "missing", "statted", "parsing", "parsed"},
                                mtime : Nat, next : Table]]
    /\ expireEmitted \subseteq Grants /\ now \in Nat
    /\ approvals \subseteq Grants \X Nat

(* Whatever snapshot the loop thread reads, however stale, and whichever   *)
(* refreshes, appends and approvals raced to install it: an agent gets to  *)
(* a backend above its own level only on a grant that was approved until   *)
(* later than now.                                                         *)
CallsAreApproved ==
    \A a \in Agents, b \in Backends : authorizeCall(a, b) =>
        \/ LevelOfAgent[a] >= LevelOf[b]
        \/ \E g \in Grants : /\ AgentOf[g] = a /\ RankOf[g] >= LevelOf[b]
                             /\ \E p \in approvals : p[1] = g /\ now < p[2]

(* What is in the file reaches the snapshot, although a refresh may work   *)
(* from an old stat or parse, or find the store dirty and give up.         *)
FileReachesTable == \A g \in Grants : table[g] # file[g] ~> table[g] = file[g]

(* SPEC: request_elevation writes the pending grant whose id it returns.   *)
PendingIsWritten == \A g \in Grants : job[g] # "none" ~> file[g] # NoRecord

(* pipeline.md: the expiry of a grant is audited.                          *)
ExpiryIsAudited ==
    \A g \in Grants : g \in Expired(file) ~> g \in expireEmitted \/ g \notin Expired(file)
=============================================================================
