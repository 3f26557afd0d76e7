---------------------------- MODULE MCGrantStore ----------------------------
(* Two grants of one agent, to different ranks; two workers.               *)
EXTENDS GrantStore, TLC

CONSTANTS g1, g2, a1, b1, b2, w1, w2

MCAgentOf == [g \in Grants |-> a1]
MCRankOf == [g \in Grants |-> IF g = g1 THEN 1 ELSE 2]
MCLevelOfAgent == [a \in Agents |-> 0]
MCLevelOf == [b \in Backends |-> IF b = b1 THEN 1 ELSE 2]
=============================================================================
