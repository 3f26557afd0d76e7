----------------------------- MODULE PermitPool -----------------------------
(***************************************************************************)
(* What the admission component promises its caller, without queues,       *)
(* timers or counters: a request is settled at most once, a settled        *)
(* request may hold a permit, a permit may be handed over in the step that *)
(* returns another one, and a permit is only given out below the cap of    *)
(* the tool in force at that step and below the per-principal cap.         *)
(* LocalGovernor implements this specification.                            *)
(***************************************************************************)
EXTENDS Naturals, FiniteSets

CONSTANTS Requests, Tools, Agents, ToolOf, AgentOf,
          PerPrincipal         \* permits one principal may hold at a time

VARIABLES holders,             \* the requests that hold a permit
          settled,             \* the requests that have had their answer
          cap                  \* the concurrency limit of each tool in force

poolVars == <<holders, settled, cap>>

OfTool(S, t)  == {r \in S : ToolOf[r] = t}
OfAgent(S, a) == {r \in S : AgentOf[r] = a}

PoolInit ==
    /\ holders = {}
    /\ settled = {}
    /\ cap \in [Tools -> Nat]

(* Room for r once the holders in out have left. *)
Room(r, out) ==
    /\ Cardinality(OfTool(holders \ out, ToolOf[r])) < cap[ToolOf[r]]
    /\ Cardinality(OfAgent(holders \ out, AgentOf[r])) < PerPrincipal

AtMostOneOf(S) == {{}} \cup {{x} : x \in S}

(* One permit may come back, one may go out, and any number of requests    *)
(* that have no answer yet may be refused.                                 *)
Settle(out, in, refused) ==
    /\ \A r \in in : Room(r, out)
    /\ holders' = (holders \ out) \cup in
    /\ settled' = settled \cup in \cup refused
    /\ cap' = cap

Recap ==
    /\ cap' \in [Tools -> Nat]
    /\ UNCHANGED <<holders, settled>>

PoolNext ==
    \/ \E out \in AtMostOneOf(holders), in \in AtMostOneOf(Requests \ settled),
          refused \in SUBSET (Requests \ settled) : Settle(out, in, refused)
    \/ Recap

PoolSpec == PoolInit /\ [][PoolNext]_poolVars
=============================================================================
