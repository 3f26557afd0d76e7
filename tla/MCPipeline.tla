----------------------------- MODULE MCPipeline -----------------------------
(* Requests of one principal for one tool of one backend; r1 and r2 are    *)
(* identical, r3 and r4 differ from them and from each other.              *)
EXTENDS Pipeline, TLC

CONSTANTS r1, r2, r3, r4, t1, a1, b1, k1, k2, k3

MCKeyOf == [r \in Requests |-> CASE r = r3 -> k2
                                 [] r = r4 -> k3
                                 [] OTHER -> k1]
MCSameKey   == [r \in Requests |-> k1]
MCToolOf    == [r \in Requests |-> t1]
MCAgentOf   == [r \in Requests |-> a1]
MCBackendOf == t1 :> b1
MCUnset     == t1 :> 0
MCOne       == t1 :> 1
=============================================================================
