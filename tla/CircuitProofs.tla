--------------------------- MODULE CircuitProofs ---------------------------
(***************************************************************************)
(* The circuit's counts, for every threshold, cooldown and number of calls *)
(* in flight.                                                              *)
(***************************************************************************)
EXTENDS CircuitUse, TLAPS

CInv == CTypeOK /\ ClosedBelowThreshold /\ CloseNeedsProbes

(* The invariant of a slot s on its own, with n successes reported since   *)
(* it last opened.                                                         *)
SlotOK(s, n) ==
    /\ s \in Slot /\ s.cool <= Cooldown
    /\ s.st = "Closed" => s.fails < OpenAfter
    /\ s.st = "HalfOpen" => s.halfOk <= n

LEMMA SlotInv ==
    CInv <=> SlotOK(slot, okSince) /\ calls \in 0..MaxCalls /\ okSince \in 0..HalfOpenProbes
BY DEF CInv, CTypeOK, ClosedBelowThreshold, CloseNeedsProbes, SlotOK

LEMMA OneMoreBounded ==
    ASSUME NEW n \in 0..HalfOpenProbes
    PROVE  /\ OneMore(n) \in 0..HalfOpenProbes
           /\ \A k \in Nat : k <= n /\ k < HalfOpenProbes => k + 1 <= OneMore(n)
           /\ n <= OneMore(n)
BY CircuitAssumption DEF OneMore

(* Turning half-open forgets the successes of the last half-open period.   *)
LEMMA HalfOpenKeeps ==
    ASSUME NEW s, NEW n \in 0..HalfOpenProbes, SlotOK(s, n)
    PROVE  SlotOK(maybeHalfOpen(s), n)
<1>1. CASE s.st = "Open" /\ s.cool = 0
  <2>1. maybeHalfOpen(s) = [st |-> "HalfOpen", fails |-> s.fails, halfOk |-> 0, cool |-> s.cool]
    BY <1>1 DEF maybeHalfOpen, SlotOK, Slot
  <2> QED BY <2>1 DEF SlotOK, Slot, CState
<1>2. CASE ~(s.st = "Open" /\ s.cool = 0)
  BY <1>2 DEF maybeHalfOpen
<1> QED BY <1>1, <1>2

LEMMA SuccessKeeps ==
    ASSUME NEW s, NEW n \in 0..HalfOpenProbes, SlotOK(s, n)
    PROVE  SlotOK(onSuccess(s), OneMore(n))
<1>1. s \in Slot /\ s.st \in CState /\ s.halfOk \in Nat /\ s.cool <= Cooldown
  BY DEF SlotOK, Slot
<1>2. CASE s.st = "HalfOpen" /\ s.halfOk + 1 >= HalfOpenProbes
  <2>1. onSuccess(s) = [s EXCEPT !.st = "Closed", !.halfOk = @ + 1, !.fails = 0]
    BY <1>1, <1>2, CircuitAssumption DEF onSuccess
  <2>2. onSuccess(s) = [st |-> "Closed", fails |-> 0, halfOk |-> s.halfOk + 1, cool |-> s.cool]
    BY <1>1, <2>1 DEF Slot
  <2> QED BY <1>1, <2>2, CircuitAssumption DEF SlotOK, Slot, CState
<1>3. CASE s.st = "HalfOpen" /\ s.halfOk + 1 < HalfOpenProbes
  <2>1. onSuccess(s) = [s EXCEPT !.halfOk = @ + 1]
    BY <1>1, <1>3, CircuitAssumption DEF onSuccess
  <2>2. s.halfOk + 1 <= OneMore(n) BY <1>1, <1>3, OneMoreBounded, CircuitAssumption DEF SlotOK
  <2> QED BY <1>1, <1>3, <2>1, <2>2 DEF SlotOK, Slot, CState
<1>4. CASE s.st # "HalfOpen"
  <2>1. onSuccess(s) = [s EXCEPT !.st = "Closed", !.fails = 0] BY <1>4 DEF onSuccess
  <2>2. onSuccess(s) = [st |-> "Closed", fails |-> 0, halfOk |-> s.halfOk, cool |-> s.cool]
    BY <1>1, <2>1 DEF Slot
  <2> QED BY <1>1, <2>2, CircuitAssumption DEF SlotOK, Slot, CState
<1> QED BY <1>1, <1>2, <1>3, <1>4, CircuitAssumption

LEMMA ProbeKeeps ==
    ASSUME NEW s, NEW n \in 0..HalfOpenProbes, SlotOK(s, n)
    PROVE  SlotOK(onProbeSuccess(s), OneMore(n))
<1>1. s \in Slot /\ s.st \in CState /\ s.halfOk \in Nat /\ s.cool <= Cooldown
  BY DEF SlotOK, Slot
<1>2. CASE s.st = "HalfOpen" /\ s.halfOk + 1 >= HalfOpenProbes
  <2>1. onProbeSuccess(s) = [s EXCEPT !.st = "Closed", !.halfOk = 0, !.fails = 0]
    BY <1>1, <1>2, CircuitAssumption DEF onProbeSuccess
  <2>2. onProbeSuccess(s) = [st |-> "Closed", fails |-> 0, halfOk |-> 0, cool |-> s.cool]
    BY <1>1, <2>1 DEF Slot
  <2> QED BY <1>1, <2>2, CircuitAssumption DEF SlotOK, Slot, CState
<1>3. CASE s.st = "HalfOpen" /\ s.halfOk + 1 < HalfOpenProbes
  <2>1. onProbeSuccess(s) = [s EXCEPT !.halfOk = @ + 1]
    BY <1>1, <1>3, CircuitAssumption DEF onProbeSuccess
  <2>2. s.halfOk + 1 <= OneMore(n) BY <1>1, <1>3, OneMoreBounded, CircuitAssumption DEF SlotOK
  <2> QED BY <1>1, <1>3, <2>1, <2>2 DEF SlotOK, Slot, CState
<1>4. CASE s.st = "Closed"
  <2>1. onProbeSuccess(s) = [s EXCEPT !.fails = 0] BY <1>4 DEF onProbeSuccess
  <2> QED BY <1>1, <1>4, <2>1, CircuitAssumption DEF SlotOK, Slot, CState
<1>5. CASE s.st = "Open"
  <2>1. onProbeSuccess(s) = s BY <1>5 DEF onProbeSuccess
  <2> QED BY <1>1, <1>5, <2>1 DEF SlotOK
<1> QED BY <1>1, <1>2, <1>3, <1>4, <1>5, CircuitAssumption DEF CState

(* A failure opens the circuit or leaves it as it is; it never leaves it   *)
(* half-open, so the history may be cleared exactly when it opens.         *)
LEMMA FailureKeeps ==
    ASSUME NEW s, NEW n \in 0..HalfOpenProbes, SlotOK(s, n)
    PROVE  SlotOK(onFailure(s), IF onFailure(s).st = "Open" THEN 0 ELSE n)
<1> DEFINE t == maybeHalfOpen(s)
<1>1. SlotOK(t, n) BY HalfOpenKeeps
<1>2. t \in Slot /\ t.st \in CState /\ t.fails \in Nat /\ t.cool <= Cooldown
  BY <1>1 DEF SlotOK, Slot
<1>3. CASE t.st = "HalfOpen"
  <2>1. onFailure(s) = [t EXCEPT !.st = "Open", !.cool = Cooldown, !.fails = 0]
    BY <1>3 DEF onFailure
  <2> HIDE DEF t
  <2>2. onFailure(s) = [st |-> "Open", fails |-> 0, halfOk |-> t.halfOk, cool |-> Cooldown]
    BY <1>2, <2>1 DEF Slot
  <2> QED BY <1>2, <2>2, CircuitAssumption DEF SlotOK, Slot, CState
<1>4. CASE t.st = "Closed" /\ t.fails + 1 >= OpenAfter
  <2>1. onFailure(s) = [t EXCEPT !.st = "Open", !.cool = Cooldown, !.fails = @ + 1]
    BY <1>4 DEF onFailure
  <2> HIDE DEF t
  <2>2. onFailure(s) = [st |-> "Open", fails |-> t.fails + 1, halfOk |-> t.halfOk, cool |-> Cooldown]
    BY <1>2, <2>1 DEF Slot
  <2> QED BY <1>2, <2>2, CircuitAssumption DEF SlotOK, Slot, CState
<1>5. CASE t.st = "Closed" /\ t.fails + 1 < OpenAfter
  <2>1. onFailure(s) = [t EXCEPT !.fails = @ + 1]
    BY <1>2, <1>5, CircuitAssumption DEF onFailure
  <2> HIDE DEF t
  <2> QED BY <1>2, <1>5, <2>1, CircuitAssumption DEF SlotOK, Slot, CState
<1>6. CASE t.st = "Open"
  <2>1. onFailure(s) = [t EXCEPT !.fails = @ + 1] BY <1>6 DEF onFailure
  <2> HIDE DEF t
  <2> QED BY <1>2, <1>6, <2>1, CircuitAssumption DEF SlotOK, Slot, CState
<1> QED BY <1>2, <1>3, <1>4, <1>5, <1>6, CircuitAssumption DEF CState

LEMMA CInvInit == CInit => CInv
<1> SUFFICES ASSUME CInit PROVE CInv OBVIOUS
<1>1. SlotOK(slot, okSince)
  BY CircuitAssumption DEF CInit, NewSlot, SlotOK, Slot, CState
<1> QED BY <1>1, SlotInv, CircuitAssumption, CallsAssumption DEF CInit

LEMMA CInvStep == CInv /\ [CNext]_cvars => CInv'
<1> SUFFICES ASSUME CInv, [CNext]_cvars PROVE CInv' OBVIOUS
<1>0. /\ SlotOK(slot, okSince) /\ calls \in 0..MaxCalls /\ okSince \in 0..HalfOpenProbes
      /\ SlotOK(maybeHalfOpen(slot), okSince)
  BY SlotInv, HalfOpenKeeps
<1> SUFFICES SlotOK(slot', okSince') /\ calls' \in 0..MaxCalls /\ okSince' \in 0..HalfOpenProbes
  BY DEF CInv, CTypeOK, ClosedBelowThreshold, CloseNeedsProbes, SlotOK
<1>1. CASE admit
  <2>1. calls' \in 0..MaxCalls BY <1>0, <1>1, CallsAssumption DEF admit
  <2> QED BY <1>0, <1>1, <2>1 DEF admit
<1>2. CASE callSucceeds
  <2>1. SlotOK(slot', okSince') BY <1>0, <1>2, SuccessKeeps DEF callSucceeds
  <2> QED BY <1>0, <1>2, <2>1, OneMoreBounded, CallsAssumption DEF callSucceeds
<1>3. CASE callFails
  <2>1. SlotOK(slot', okSince') BY <1>0, <1>3, FailureKeeps DEF callFails
  <2>2. okSince' \in 0..HalfOpenProbes BY <1>0, <1>3, CircuitAssumption DEF callFails
  <2>3. calls' \in 0..MaxCalls BY <1>0, <1>3, CallsAssumption DEF callFails
  <2> QED BY <2>1, <2>2, <2>3
<1>4. CASE callAbandoned BY <1>0, <1>4, CallsAssumption DEF callAbandoned
<1>5. CASE probeSucceeds
  <2>1. SlotOK(slot', okSince') BY <1>0, <1>5, ProbeKeeps DEF probeSucceeds
  <2> QED BY <1>0, <1>5, <2>1, OneMoreBounded DEF probeSucceeds
<1>6. CASE cool
  <2>1. slot.cool \in Nat /\ slot.cool > 0 BY <1>0, <1>6 DEF SlotOK, Slot, cool
  <2>2. slot' = [slot EXCEPT !.cool = slot.cool - 1] BY <1>6, <2>1 DEF cool, Cooler
  <2>3. SlotOK(slot', okSince) BY <1>0, <2>1, <2>2, CircuitAssumption DEF SlotOK, Slot
  <2> QED BY <1>0, <1>6, <2>3 DEF cool
<1>7. CASE UNCHANGED cvars BY <1>0, <1>7 DEF cvars
<1> QED BY <1>1, <1>2, <1>3, <1>4, <1>5, <1>6, <1>7 DEF CNext, callReturns

(* The slot of a circuit and the successes since it last opened stay       *)
(* as each operation of CountCircuit needs them.                           *)
THEOREM CInvHolds == CSpec => []CInv
BY CInvInit, CInvStep, PTL DEF CSpec

(* CountCircuit's slot keeps its types under any number of calls.          *)
THEOREM CircuitTypes == CSpec => []CTypeOK
<1>1. CInv => CTypeOK BY DEF CInv
<1> QED BY <1>1, CInvHolds, PTL

(* Whatever results arrive, and however long after the circuit opened      *)
(* under them: onSuccess, onFailure and onProbeSuccess never leave it      *)
(* closed with the failures that open it already on its count.             *)
THEOREM ClosedIsFresh == CSpec => []ClosedBelowThreshold
<1>1. CInv => ClosedBelowThreshold BY DEF CInv
<1> QED BY <1>1, CInvHolds, PTL

(* The successes counted towards closing a half-open circuit were all      *)
(* reported since it last opened.                                          *)
THEOREM ClosingIsEarned == CSpec => []CloseNeedsProbes
<1>1. CInv => CloseNeedsProbes BY DEF CInv
<1> QED BY <1>1, CInvHolds, PTL
=============================================================================
