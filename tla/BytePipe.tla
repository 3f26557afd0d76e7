------------------------------ MODULE BytePipe ------------------------------
(***************************************************************************)
(* What a buffer promises both its ends: the bytes taken out are those put *)
(* in, each once and in their order.                                       *)
(* Buffer implements this specification.                                   *)
(***************************************************************************)
EXTENDS Naturals, Sequences

VARIABLES sent,      \* every byte put in, in order
          taken      \* every byte taken out, in order

pipeVars == <<sent, taken>>

Prefix(s, t) == Len(s) <= Len(t) /\ s = SubSeq(t, 1, Len(s))

PipeInit == sent = <<>> /\ taken = <<>>

Put == Prefix(sent, sent') /\ UNCHANGED taken

Take == Prefix(taken, taken') /\ Prefix(taken', sent) /\ UNCHANGED sent

PipeSpec == PipeInit /\ [][Put \/ Take]_pipeVars
=============================================================================
