-------------------------- MODULE GrantStoreProofs --------------------------
(***************************************************************************)
(* Whatever the grants, workers, times to live and races: every record the *)
(* gateway has in its hands, in the table or in a refresh under way, is    *)
(* one that was approved, so no call is authorised without an approval     *)
(* that lasts.                                                             *)
(***************************************************************************)
EXTENDS GrantStore, WellFoundedInduction, TLAPS

(* Each approved record of t was written by an approval.                   *)
Approved(t) == \A g \in Grants : t[g].status = "approved" => <<g, t[g].expiresAt>> \in approvals

GInv ==
    /\ file \in Table /\ table \in Table /\ now \in Nat /\ mtime \in Nat
    /\ refresh \in [Workers -> [at : {"idle", "missing", "statted", "parsing", "parsed"},
                                mtime : Nat, next : Table]]
    /\ Approved(file) /\ Approved(table)
    /\ \A w \in Workers : Approved(refresh[w].next)

LEMMA LargestIsIn ==
    ASSUME NEW S, S \subseteq 0..elevationMax
    PROVE  Largest(S) \in S \cup {0}
<1> DEFINE T == {n \in Nat : \A s \in S : s <= n}
           R == OpToRel(<, Nat)
<1>1. elevationMax \in T BY GrantAssumption
<1>2. PICK m \in T : \A y \in T : ~(<<y, m>> \in R)
  <2>1. IsWellFoundedOn(R, Nat) BY NatLessThanWellFounded
  <2> HIDE DEF R
  <2> QED BY <1>1, <2>1, WFMin
<1>3. \A y \in T : ~(y < m) BY <1>2 DEF OpToRel
<1>4. m \in S \cup {0}
  <2> SUFFICES ASSUME m \notin S, m # 0 PROVE FALSE OBVIOUS
  <2>1. m \in Nat /\ \A s \in S : s <= m /\ s # m BY <1>2
  <2>2. m - 1 \in T BY <2>1, GrantAssumption
  <2> QED BY <1>3, <2>1, <2>2
<1>5. \E n \in S \cup {0} : \A s \in S : s <= n BY <1>2, <1>4
<1> QED BY <1>5 DEF Largest

LEMMA RecordFacts ==
    /\ NoRecord \in Record /\ NoRecord.status # "approved"
    /\ [status |-> "pending", expiresAt |-> 0] \in Record
    /\ [g \in Grants |-> NoRecord] \in Table
    /\ Idle \in [at : {"idle", "missing", "statted", "parsing", "parsed"},
                 mtime : Nat, next : Table]
    /\ Approved([g \in Grants |-> NoRecord])
BY DEF NoRecord, Record, Table, Idle, Approved

LEMMA InvInit == GInit => GInv
BY RecordFacts DEF GInit, GInv, Idle

(* The gateway's own writes are pending records.                           *)
LEMMA AppendKeeps ==
    ASSUME GInv, NEW g \in Grants,
           appendPending(g) \/ appendPendingFull(g) \/ jobWrites(g) \/ clearDirty(g)
    PROVE  GInv'
<1> DEFINE pending == [status |-> "pending", expiresAt |-> 0]
<1>0. pending \in Record /\ pending.status # "approved" BY DEF Record
<1>1. UNCHANGED <<refresh, now, approvals>>
  BY DEF appendPending, appendPendingFull, jobWrites, clearDirty, write, fileVars
<1>2. table' = table \/ table' = [table EXCEPT ![g] = pending]
  BY DEF appendPending, appendPendingFull, jobWrites, clearDirty, appendLine, storeVars
<1>3. file' = file \/ file' = [file EXCEPT ![g] = pending]
  BY DEF appendPending, appendPendingFull, jobWrites, clearDirty, write, fileVars
<1> HIDE DEF pending
<1>3a. mtime' \in Nat
  BY DEF appendPending, appendPendingFull, jobWrites, clearDirty, write, fileVars, GInv
<1>4. table' \in Table /\ file' \in Table BY <1>0, <1>2, <1>3 DEF GInv, Table
<1>5. Approved(table)' BY <1>0, <1>1, <1>2 DEF GInv, Table, Approved
<1>6. Approved(file)' BY <1>0, <1>1, <1>3 DEF GInv, Table, Approved
<1>7. \A w \in Workers : Approved(refresh[w].next)' BY <1>1 DEF GInv, Approved
<1> QED BY <1>1, <1>3a, <1>4, <1>5, <1>6, <1>7 DEF GInv

(* A refresh carries a copy of the file into the table.                    *)
LEMMA RefreshKeeps ==
    ASSUME GInv, NEW w \in Workers, refreshOnWorker(w)
    PROVE  GInv'
<1> DEFINE Refresh == [at : {"idle", "missing", "statted", "parsing", "parsed"},
                       mtime : Nat, next : Table]
<1>1. UNCHANGED <<file, mtime, approvals, now>>
  BY DEF refreshOnWorker, refreshStatFails, refreshNoFile, refreshStat, refreshLook, parseFile,
         refreshSwap, fileVars
<1>2. \/ table' = table
      \/ table' = [g \in Grants |-> NoRecord]
      \/ table' = refresh[w].next
  BY DEF refreshOnWorker, refreshStatFails, refreshNoFile, refreshStat, refreshLook, parseFile,
         refreshSwap, storeVars
<1>3. table' \in Table /\ Approved(table')
  BY <1>2, RecordFacts DEF GInv
<1>4. Approved(table)' /\ Approved(file)' BY <1>1, <1>3 DEF GInv, Approved
<1>5. PICK r : \/ refresh' = refresh
               \/ refresh' = [refresh EXCEPT ![w] = r] /\ r \in Refresh /\ Approved(r.next)
  <2>0. CASE refreshStatFails(w)
    <3> DEFINE r == [Idle EXCEPT !.at = "missing"]
    <3>1. r \in Refresh /\ r.next = Idle.next BY RecordFacts DEF Idle
    <3>2. Approved(r.next) BY <3>1, RecordFacts DEF Idle
    <3> QED BY <2>0, <3>1, <3>2 DEF refreshStatFails
  <2>1. CASE refreshNoFile(w)
    <3>1. Idle \in Refresh /\ Approved(Idle.next) BY RecordFacts DEF Idle
    <3> QED BY <2>1, <3>1 DEF refreshNoFile, leave
  <2>2. CASE refreshStat(w)
    <3> DEFINE r == [Idle EXCEPT !.at = "statted", !.mtime = mtime]
    <3>1. r \in Refresh /\ r.next = Idle.next BY RecordFacts DEF GInv, Idle
    <3>2. Approved(r.next) BY <3>1, RecordFacts DEF Idle
    <3> QED BY <2>2, <3>1, <3>2 DEF refreshStat
  <2>3. CASE refreshLook(w)
    <3> DEFINE r == [refresh[w] EXCEPT !.at = "parsing"]
    <3>1. r \in Refresh /\ r.next = refresh[w].next BY DEF GInv
    <3>2. Approved(r.next) BY <3>1 DEF GInv
    <3>3. Idle \in Refresh /\ Approved(Idle.next) BY RecordFacts DEF Idle
    <3>4. refresh' = [refresh EXCEPT ![w] = Idle] \/ refresh' = [refresh EXCEPT ![w] = r]
      BY <2>3 DEF refreshLook, leave, GInv
    <3> HIDE DEF r
    <3> QED BY <3>1, <3>2, <3>3, <3>4
  <2>4. CASE parseFile(w)
    <3> DEFINE r == [refresh[w] EXCEPT !.at = "parsed", !.next = file]
    <3>1. r \in Refresh /\ r.next = file BY DEF GInv
    <3>2. Approved(r.next) BY <3>1 DEF GInv
    <3>3. refresh' = [refresh EXCEPT ![w] = r] BY <2>4 DEF parseFile, GInv
    <3> HIDE DEF r
    <3> QED BY <3>1, <3>2, <3>3
  <2>5. CASE refreshSwap(w)
    <3>1. Idle \in Refresh /\ Approved(Idle.next) BY RecordFacts DEF Idle
    <3> QED BY <2>5, <3>1 DEF refreshSwap, leave
  <2> QED BY <2>0, <2>1, <2>2, <2>3, <2>4, <2>5 DEF refreshOnWorker
<1>6. refresh' \in [Workers -> Refresh] BY <1>5 DEF GInv
<1>7. \A v \in Workers : Approved(refresh[v].next)'
  <2> TAKE v \in Workers
  <2>1. Approved(refresh'[v].next) BY <1>5 DEF GInv
  <2> QED BY <1>1, <2>1 DEF Approved
<1> QED BY <1>1, <1>3, <1>4, <1>6, <1>7 DEF GInv

(* An approval is recorded with the line that it writes.                   *)
LEMMA ApproveKeeps ==
    ASSUME GInv, NEW g \in Grants, approveById(g) \/ approveDirect(g)
    PROVE  GInv'
<1>1. PICK e \in Nat : approveUntil(g, e)
  BY GrantAssumption DEF approveById, approveDirect, GInv
<1> DEFINE r == [status |-> "approved", expiresAt |-> e]
<1>2. r \in Record /\ r.status = "approved" /\ r.expiresAt = e BY DEF Record
<1>3. write(g, r) /\ UNCHANGED <<table, refresh, now>> BY <1>1 DEF approveUntil, storeVars
<1> HIDE DEF r
<1>4. file' = [file EXCEPT ![g] = r] /\ approvals' = approvals \cup {<<g, e>>} /\ mtime' \in Nat
  BY <1>2, <1>3 DEF write, GInv
<1>5. file' \in Table BY <1>2, <1>4 DEF GInv, Table
<1>6. Approved(file)' BY <1>2, <1>4 DEF GInv, Table, Approved
<1>7. Approved(table)' BY <1>3, <1>4 DEF GInv, Approved
<1>8. \A w \in Workers : Approved(refresh[w].next)' BY <1>3, <1>4 DEF GInv, Approved
<1> QED BY <1>3, <1>4, <1>5, <1>6, <1>7, <1>8 DEF GInv

LEMMA TickKeeps == GInv /\ (tick \/ UNCHANGED gvars) => GInv'
BY DEF GInv, Approved, tick, gvars, fileVars, storeVars

(* Every approved record the store can act on was written by an approval,  *)
(* through appends, refreshes and stale copies.                            *)
THEOREM InvHolds == GSpec => []GInv
<1>1. ASSUME GInv, [GNext]_gvars PROVE GInv'
  BY <1>1, AppendKeeps, RefreshKeeps, ApproveKeeps, TickKeeps DEF GNext
<1> QED BY <1>1, InvInit, PTL DEF GSpec

LEMMA CallsApproved == GInv => CallsAreApproved
<1> SUFFICES ASSUME GInv, NEW a \in Agents, NEW b \in Backends,
                    authorizeCall(a, b), ~(LevelOfAgent[a] >= LevelOf[b])
             PROVE  \E g \in Grants : /\ AgentOf[g] = a /\ RankOf[g] >= LevelOf[b]
                                      /\ \E p \in approvals : p[1] = g /\ now < p[2]
  BY DEF CallsAreApproved
<1>1. InForce(table, a) \subseteq 0..elevationMax BY GrantAssumption DEF InForce
<1>2. effectiveBump(a) \in InForce(table, a) \cup {0} BY <1>1, LargestIsIn DEF effectiveBump
<1>3. effectiveBump(a) >= LevelOf[b] /\ effectiveBump(a) # 0
  BY <1>1, <1>2, GrantAssumption DEF authorizeCall, effectiveRank
<1>4. PICK g \in Grants : /\ AgentOf[g] = a /\ table[g].status = "approved"
                          /\ now < table[g].expiresAt /\ RankOf[g] = effectiveBump(a)
  BY <1>2, <1>3 DEF InForce
<1>5. <<g, table[g].expiresAt>> \in approvals BY <1>4 DEF GInv, Approved
<1> QED BY <1>3, <1>4, <1>5

(* No interleaving of refreshes, appends and approvals, by any number of   *)
(* workers and with any times to live, lets effectiveBump lift an agent to *)
(* a backend without an approval that still lasts.                         *)
THEOREM CallsNeedApproval == GSpec => []CallsAreApproved
BY InvHolds, CallsApproved, PTL
-----------------------------------------------------------------------------
(* No file time that a refresh remembers is later than the file's own.     *)
TInv ==
    /\ GTypeOK
    /\ \A w \in Workers : refresh[w].mtime <= mtime
    /\ CoarseMtime => mtime <= now

LEMMA TInit == GInit => TInv
<1> SUFFICES ASSUME GInit PROVE TInv OBVIOUS
<1>1. Idle.mtime = 0 BY DEF Idle
<1>2. refresh \in [Workers -> [at : {"idle", "missing", "statted", "parsing", "parsed"},
                               mtime : Nat, next : Table]]
  BY RecordFacts DEF GInit
<1>3. \A w \in Workers : refresh[w].mtime <= mtime BY <1>1 DEF GInit
<1>4. lastMtime \in Int /\ lastMtime <= mtime /\ mtime <= now BY DEF GInit
<1> QED BY <1>2, <1>3, <1>4, RecordFacts DEF GInit, TInv, GTypeOK

(* A write of the file moves its time on, never back.                      *)
LEMMA WriteMoves ==
    ASSUME TInv, NEW g \in Grants, NEW r \in Record, write(g, r)
    PROVE  /\ file' \in Table /\ mtime' \in Nat /\ mtime <= mtime'
           /\ approvals' \subseteq Grants \X Nat
           /\ CoarseMtime => mtime' <= now
<1>1. file' \in Table BY DEF write, TInv, GTypeOK, Table
<1>2. mtime' \in Nat /\ mtime <= mtime' /\ (CoarseMtime => mtime' <= now)
  BY GrantAssumption DEF write, TInv, GTypeOK
<1>3. approvals' \subseteq Grants \X Nat
  <2>1. r.expiresAt \in Nat BY DEF Record
  <2> QED BY <2>1 DEF write, TInv, GTypeOK
<1> QED BY <1>1, <1>2, <1>3

LEMMA AppendTypes ==
    ASSUME TInv, NEW g \in Grants,
           appendPending(g) \/ appendPendingFull(g) \/ jobWrites(g) \/ clearDirty(g)
    PROVE  TInv'
<1> DEFINE pending == [status |-> "pending", expiresAt |-> 0]
<1>0. pending \in Record BY DEF Record
<1>1. CASE appendPending(g) \/ appendPendingFull(g)
  <2>1. table' = [table EXCEPT ![g] = pending] /\ lastMtime' = -1 /\ dirty' = TRUE
        /\ UNCHANGED <<file, mtime, approvals, refresh, expireEmitted, now>>
    BY <1>1 DEF appendPending, appendPendingFull, appendLine, fileVars
  <2>2. \E s \in {"queued", "written"} : job' = [job EXCEPT ![g] = s]
    BY <1>1 DEF appendPending, appendPendingFull
  <2> HIDE DEF pending
  <2>3. table' \in Table BY <1>0, <2>1 DEF TInv, GTypeOK, Table
  <2>4. /\ job' \in [Grants -> {"none", "queued", "written", "done"}]
        /\ job'[g] \in {"queued", "written"}
    BY <2>2 DEF TInv, GTypeOK
  <2>5. lastMtime' \in Int /\ lastMtime' <= mtime' BY <2>1 DEF TInv, GTypeOK
  <2> QED BY <2>1, <2>3, <2>4, <2>5 DEF TInv, GTypeOK
<1>2. CASE jobWrites(g)
  <2>1. job[g] = "queued" /\ job' = [job EXCEPT ![g] = "written"] /\ write(g, pending)
        /\ UNCHANGED <<table, lastMtime, dirty, expireEmitted, refresh, now>>
    BY <1>2 DEF jobWrites, storeVars
  <2> HIDE DEF pending
  <2>2. /\ file' \in Table /\ mtime' \in Nat /\ mtime <= mtime'
        /\ approvals' \subseteq Grants \X Nat /\ (CoarseMtime => mtime' <= now)
    BY <1>0, <2>1, WriteMoves
  <2>3. job' \in [Grants -> {"none", "queued", "written", "done"}] /\ job'[g] = "written"
    BY <2>1 DEF TInv, GTypeOK
  <2>4. lastMtime' <= mtime' /\ \A w \in Workers : refresh'[w].mtime <= mtime'
    <3>1. \A w \in Workers : refresh[w].mtime \in Nat BY DEF TInv, GTypeOK
    <3> QED BY <2>1, <2>2, <3>1 DEF TInv, GTypeOK
  <2> QED BY <2>1, <2>2, <2>3, <2>4 DEF TInv, GTypeOK
<1>3. CASE clearDirty(g)
  BY <1>3 DEF clearDirty, fileVars, TInv, GTypeOK
<1> QED BY <1>1, <1>2, <1>3

LEMMA RefreshTypes ==
    ASSUME TInv, NEW w \in Workers, refreshOnWorker(w)
    PROVE  TInv'
<1> DEFINE Refresh == [at : {"idle", "missing", "statted", "parsing", "parsed"},
                       mtime : Nat, next : Table]
<1>1. UNCHANGED <<file, mtime, approvals, dirty, job, now>>
  BY DEF refreshOnWorker, refreshStatFails, refreshNoFile, refreshStat, refreshLook, parseFile,
         refreshSwap, fileVars, storeVars
<1>2. /\ table' \in Table /\ lastMtime' \in Int /\ lastMtime' <= mtime
      /\ expireEmitted' \subseteq Grants
  <2>1. CASE refreshNoFile(w) BY <2>1, RecordFacts DEF refreshNoFile, TInv, GTypeOK
  <2>2. CASE refreshStatFails(w) \/ refreshStat(w) \/ refreshLook(w) \/ parseFile(w)
    BY <2>2 DEF refreshStatFails, refreshStat, refreshLook, parseFile, storeVars, TInv, GTypeOK
  <2>3. CASE refreshSwap(w)
    <3>1. refresh[w].mtime \in Nat /\ refresh[w].mtime <= mtime /\ refresh[w].next \in Table
      BY DEF TInv, GTypeOK
    <3> QED BY <2>3, <3>1 DEF refreshSwap, Expired, TInv, GTypeOK
  <2> QED BY <2>1, <2>2, <2>3 DEF refreshOnWorker
<1>3. PICK r : \/ refresh' = refresh
               \/ refresh' = [refresh EXCEPT ![w] = r] /\ r \in Refresh /\ r.mtime <= mtime
  <2>0. Idle \in Refresh /\ Idle.mtime <= mtime BY RecordFacts DEF Idle, TInv, GTypeOK
  <2>a. CASE refreshStatFails(w)
    <3> DEFINE r == [Idle EXCEPT !.at = "missing"]
    <3>1. r \in Refresh /\ r.mtime = Idle.mtime BY RecordFacts DEF Idle
    <3> QED BY <2>0, <2>a, <3>1 DEF refreshStatFails
  <2>1. CASE refreshNoFile(w) BY <2>0, <2>1 DEF refreshNoFile, leave
  <2>2. CASE refreshStat(w)
    <3> DEFINE r == [Idle EXCEPT !.at = "statted", !.mtime = mtime]
    <3>0. mtime \in Nat BY DEF TInv, GTypeOK
    <3>1. r \in Refresh /\ r.mtime = mtime BY <3>0, RecordFacts DEF Idle
    <3>2. r.mtime <= mtime BY <3>0, <3>1
    <3> QED BY <3>2, <2>2, <3>1 DEF refreshStat
  <2>3. CASE refreshLook(w)
    <3> DEFINE r == [refresh[w] EXCEPT !.at = "parsing"]
    <3>1. r \in Refresh /\ r.mtime <= mtime BY DEF TInv, GTypeOK
    <3>2. refresh' = [refresh EXCEPT ![w] = Idle] \/ refresh' = [refresh EXCEPT ![w] = r]
      BY <2>3 DEF refreshLook, leave, TInv, GTypeOK
    <3> HIDE DEF r
    <3> QED BY <2>0, <3>1, <3>2
  <2>4. CASE parseFile(w)
    <3> DEFINE r == [refresh[w] EXCEPT !.at = "parsed", !.next = file]
    <3>1. r \in Refresh /\ r.mtime <= mtime BY DEF TInv, GTypeOK
    <3>2. refresh' = [refresh EXCEPT ![w] = r] BY <2>4 DEF parseFile, TInv, GTypeOK
    <3> HIDE DEF r
    <3> QED BY <3>1, <3>2
  <2>5. CASE refreshSwap(w) BY <2>0, <2>5 DEF refreshSwap, leave
  <2> QED BY <2>a, <2>1, <2>2, <2>3, <2>4, <2>5 DEF refreshOnWorker
<1>4. refresh' \in [Workers -> Refresh] BY <1>3 DEF TInv, GTypeOK
<1>5. \A v \in Workers : refresh'[v].mtime <= mtime BY <1>3 DEF TInv, GTypeOK
<1> QED BY <1>1, <1>2, <1>4, <1>5 DEF TInv, GTypeOK

LEMMA ApproveTypes ==
    ASSUME TInv, NEW g \in Grants, approveById(g) \/ approveDirect(g)
    PROVE  TInv'
<1>1. PICK e \in Nat : approveUntil(g, e)
  BY GrantAssumption DEF approveById, approveDirect, TInv, GTypeOK
<1> DEFINE r == [status |-> "approved", expiresAt |-> e]
<1>2. r \in Record BY DEF Record
<1>3. /\ write(g, r) /\ UNCHANGED <<table, lastMtime, dirty, expireEmitted, refresh, now>>
      /\ job' = [job EXCEPT ![g] = IF @ = "none" THEN "done" ELSE @]
  BY <1>1 DEF approveUntil, storeVars
<1> HIDE DEF r
<1>4. /\ file' \in Table /\ mtime' \in Nat /\ mtime <= mtime'
      /\ approvals' \subseteq Grants \X Nat /\ (CoarseMtime => mtime' <= now)
  BY <1>2, <1>3, WriteMoves
<1>5. /\ job' \in [Grants -> {"none", "queued", "written", "done"}]
      /\ \A h \in Grants : job[h] \in {"queued", "written"} => job'[h] = job[h]
  BY <1>3 DEF TInv, GTypeOK
<1>6. lastMtime' <= mtime' /\ \A w \in Workers : refresh'[w].mtime <= mtime'
  <2>1. \A w \in Workers : refresh[w].mtime \in Nat BY DEF TInv, GTypeOK
  <2> QED BY <1>3, <1>4, <2>1 DEF TInv, GTypeOK
<1> QED BY <1>3, <1>4, <1>5, <1>6 DEF TInv, GTypeOK

LEMMA TickTypes == TInv /\ (tick \/ UNCHANGED gvars) => TInv'
BY DEF TInv, GTypeOK, tick, gvars, fileVars, storeVars

(* For every instance the store keeps its types; in particular dirty_ is   *)
(* set only while an append is under way, so it never shuts refreshes out  *)
(* for good, and no remembered file time is later than the file's.         *)
THEOREM StoreTypes == GSpec => []GTypeOK
<1>1. ASSUME TInv, [GNext]_gvars PROVE TInv'
  BY <1>1, AppendTypes, RefreshTypes, ApproveTypes, TickTypes DEF GNext
<1>2. TInv => GTypeOK BY DEF TInv
<1> QED BY <1>1, <1>2, TInit, PTL DEF GSpec
=============================================================================
