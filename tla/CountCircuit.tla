---------------------------- MODULE CountCircuit ----------------------------
(***************************************************************************)
(* The circuit breaker of one upstream (health/CountCircuit), as functions *)
(* on its slot.  The slot's openUntilMs is kept as the time left until it, *)
(* cool: "now >= openUntilMs" is "cool = 0", and time passing lowers cool. *)
(***************************************************************************)
EXTENDS Naturals

CONSTANTS OpenAfter,        \* consecutive failures that open the circuit
          Cooldown,         \* cooldown_ms, in ticks
          HalfOpenProbes    \* successes that close a half-open circuit

ASSUME CircuitAssumption ==
    /\ OpenAfter \in Nat \ {0}
    /\ Cooldown \in Nat
    /\ HalfOpenProbes \in Nat \ {0}

CState == {"Closed", "Open", "HalfOpen"}

Slot == [st : CState, fails : Nat, halfOk : Nat, cool : Nat]

NewSlot == [st |-> "Closed", fails |-> 0, halfOk |-> 0, cool |-> 0]

\* Mutant: successes of an earlier half-open period are not forgotten.
maybeHalfOpen_KeepsOk(s) ==
    IF s.st = "Open" /\ s.cool = 0 THEN [s EXCEPT !.st = "HalfOpen"] ELSE s

\* Mutant: every consultation begins the half-open period anew.
maybeHalfOpen_Restarts(s) ==
    IF s.st # "Closed" /\ s.cool = 0
    THEN [s EXCEPT !.st = "HalfOpen", !.halfOk = 0] ELSE s

maybeHalfOpen(s) ==
    IF s.st = "Open" /\ s.cool = 0
    THEN [s EXCEPT !.st = "HalfOpen", !.halfOk = 0] ELSE s

\* Mutant: the failures counted while open survive the closing.
onSuccess_KeepsFails(s) ==
    CASE s.st = "HalfOpen" /\ s.halfOk + 1 >= HalfOpenProbes ->
            [s EXCEPT !.st = "Closed", !.halfOk = @ + 1]
      [] s.st = "HalfOpen" /\ s.halfOk + 1 < HalfOpenProbes ->
            [s EXCEPT !.halfOk = @ + 1]
      [] OTHER -> [s EXCEPT !.st = "Closed", !.fails = 0]

(* A business call succeeded.  Not half-open means closed, open included.  *)
onSuccess(s) ==
    CASE s.st = "HalfOpen" /\ s.halfOk + 1 >= HalfOpenProbes ->
            [s EXCEPT !.st = "Closed", !.halfOk = @ + 1, !.fails = 0]
      [] s.st = "HalfOpen" /\ s.halfOk + 1 < HalfOpenProbes ->
            [s EXCEPT !.halfOk = @ + 1]
      [] OTHER -> [s EXCEPT !.st = "Closed", !.fails = 0]

(* A business call failed.  A slot that is already open only counts.       *)
onFailure(slot) ==
    LET s == maybeHalfOpen(slot)
    IN  CASE s.st = "HalfOpen" ->
                [s EXCEPT !.st = "Open", !.cool = Cooldown, !.fails = 0]
          [] s.st = "Closed" /\ s.fails + 1 >= OpenAfter ->
                [s EXCEPT !.st = "Open", !.cool = Cooldown, !.fails = @ + 1]
          [] OTHER -> [s EXCEPT !.fails = @ + 1]

(* A probe succeeded.                                                      *)
onProbeSuccess(s) ==
    CASE s.st = "HalfOpen" /\ s.halfOk + 1 >= HalfOpenProbes ->
            [s EXCEPT !.st = "Closed", !.halfOk = 0, !.fails = 0]
      [] s.st = "HalfOpen" /\ s.halfOk + 1 < HalfOpenProbes ->
            [s EXCEPT !.halfOk = @ + 1]
      [] s.st = "Closed" -> [s EXCEPT !.fails = 0]
      [] OTHER -> s

Cooler(s) == [s EXCEPT !.cool = IF @ > 0 THEN @ - 1 ELSE 0]
=============================================================================
