----------------------------- MODULE CircuitUse -----------------------------
(***************************************************************************)
(* One circuit as its two users drive it: business calls, which consult it *)
(* on admission and report a result any time later (also long after the    *)
(* circuit has opened under them), and the probe, which reports successes  *)
(* without consulting it.                                                  *)
(***************************************************************************)
EXTENDS CountCircuit

CONSTANT MaxCalls           \* bound on the business calls in flight

ASSUME CallsAssumption == MaxCalls \in Nat

VARIABLES slot,             \* the slot of the upstream
          calls,            \* business calls in flight
          okSince           \* history: successes reported since it last opened

cvars == <<slot, calls, okSince>>

(* Successes beyond HalfOpenProbes make no difference to the property that *)
(* reads the history, so it stops counting there.                          *)
OneMore(n) == IF n < HalfOpenProbes THEN n + 1 ELSE n

CInit == slot = NewSlot /\ calls = 0 /\ okSince = 0

(* handleCall's isOpen, and the call that follows when it says no.  The    *)
(* consultation alone may turn an open circuit half-open.                  *)
admit ==
    /\ calls < MaxCalls
    /\ slot' = maybeHalfOpen(slot)
    /\ calls' = IF slot'.st = "Open" THEN calls ELSE calls + 1
    /\ UNCHANGED okSince

(* onUpstream's isOpen and onSuccess.                                      *)
callSucceeds ==
    /\ calls > 0
    /\ calls' = calls - 1
    /\ slot' = onSuccess(maybeHalfOpen(slot))
    /\ okSince' = OneMore(okSince)

(* onUpstream's isOpen and onFailure.  A call retried, which takes that    *)
(* isOpen to say no, stays in flight.                                      *)
callFails ==
    /\ calls > 0
    /\ \/ calls' = calls - 1
       \/ maybeHalfOpen(slot).st # "Open" /\ calls' = calls
    /\ slot' = onFailure(maybeHalfOpen(slot))
    /\ okSince' = IF slot'.st = "Open" THEN 0 ELSE okSince

(* onUpstream of a cancelled call does not report.                         *)
callAbandoned ==
    /\ calls > 0
    /\ calls' = calls - 1
    /\ UNCHANGED <<slot, okSince>>

probeSucceeds ==
    /\ slot' = onProbeSuccess(slot)
    /\ okSince' = OneMore(okSince)
    /\ UNCHANGED calls

cool ==
    /\ slot.cool > 0
    /\ slot' = Cooler(slot)
    /\ UNCHANGED <<calls, okSince>>

callReturns == callSucceeds \/ callFails \/ callAbandoned

CNext == admit \/ callReturns \/ probeSucceeds \/ cool

(* Time passes and a call comes back; nobody need call, and no probe need  *)
(* succeed.                                                                *)
CSpec == CInit /\ [][CNext]_cvars /\ WF_cvars(cool) /\ WF_cvars(callReturns)
-----------------------------------------------------------------------------
(* The type invariant of the slot and its users.                           *)
CTypeOK ==
    /\ slot \in Slot /\ slot.cool <= Cooldown
    /\ calls \in 0..MaxCalls
    /\ okSince \in 0..HalfOpenProbes

(* A closed circuit has fewer failures on its count than open it, although *)
(* the count goes on rising while the circuit is open: every way back to   *)
(* closed clears it, so one failure after a recovery never reopens it.     *)
ClosedBelowThreshold == slot.st = "Closed" => slot.fails < OpenAfter

(* The half-open period's success count is never larger than the number of *)
(* successes reported since the circuit last opened: successes of an       *)
(* earlier half-open period are not counted towards closing it.            *)
CloseNeedsProbes == slot.st = "HalfOpen" => slot.halfOk <= okSince

(* A circuit whose calls succeed closes for good, while calls go on being  *)
(* made: whatever results of earlier periods arrive, the half-open one     *)
(* ends.                                                                   *)
CircuitRecovers ==
    <>[][~callFails /\ ~callAbandoned]_cvars /\ []<><<admit>>_cvars
        => <>[](slot.st = "Closed")

(* CountCircuit.cpp's comment: an open circuit leaves that state only by   *)
(* its cooldown, through half-open.                                        *)
OpenLeavesByCooldown ==
    [][slot.st = "Open" /\ slot.cool > 0 => slot'.st = "Open"]_cvars
=============================================================================
