--------------------------- MODULE MCHttpSession ---------------------------
(* A client that pipelines requests and one that only connects: it may get *)
(* the other's descriptor.                                                 *)
EXTENDS HttpSession, TLC

CONSTANTS c1, c2, f1, f2

MCMaxRequests == [c \in Conns |-> IF c = c1 THEN 2 ELSE 0]

(* The descriptors differ in name only: f1 is the one that c1 gets.        *)
NameFd == fd'[c1] \in {fd[c1], f1}
=============================================================================
