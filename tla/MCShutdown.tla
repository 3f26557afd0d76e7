----------------------------- MODULE MCShutdown -----------------------------
(* Three kinds of jobs, one more than worker and queue hold; two signals.  *)
EXTENDS Shutdown, TLC

CONSTANTS m, w1, call, spans, audit

MCUses == call :> "upstream" @@ spans :> "spans" @@ audit :> "nothing"
=============================================================================
