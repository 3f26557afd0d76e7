--------------------------- MODULE MCProbeHealth ---------------------------
(* Two lists, one with a ttl longer than the interval and one without, and *)
(* answers without a list, with such a ttl and without; an upstream that   *)
(* is either fast or slow.                                                 *)
EXTENDS ProbeHealth, TLC

CONSTANTS l1, l2, blank, blankTtl

MCListTtl == l1 :> 2 @@ blankTtl :> 2
=============================================================================
