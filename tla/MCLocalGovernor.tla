-------------------------- MODULE MCLocalGovernor --------------------------
(* Three requests of one principal and one of another, over two tools of   *)
(* one backend: the principal limit couples the two tools' queues, and the *)
(* configured limit of t1 differs from the default.                        *)
EXTENDS LocalGovernor, TLC

CONSTANTS r1, r2, r3, r4, t1, t2, a1, a2, b1

MCRequests  == {r1, r2, r3, r4}
MCToolOf    == (r1 :> t1) @@ (r2 :> t1) @@ (r3 :> t2) @@ (r4 :> t1)
MCAgentOf   == (r1 :> a1) @@ (r2 :> a1) @@ (r3 :> a1) @@ (r4 :> a2)
MCBackendOf == [t \in {t1, t2} |-> b1]
MCCfgMax    == (t1 :> 2) @@ (t2 :> 0)
MCCfgWait   == (t1 :> 2) @@ (t2 :> 0)
=============================================================================
