---------------------------- MODULE RetryPolicy ----------------------------
(***************************************************************************)
(* The retry decision (health/RetryPolicy) over the failure classes of     *)
(* ir/classify.h.                                                          *)
(***************************************************************************)
EXTENDS Naturals

CONSTANTS MaxAttempts,      \* retry.max_attempts
          Retryable,        \* retry.retryable
          Never             \* retry.never

FailureClass == {"Ok", "Cancelled", "Timeout", "Unavailable", "Throttled",
                 "Protocol", "Capability", "Upstream", "Authz", "Internal"}

ASSUME RetryAssumption ==
    /\ MaxAttempts \in Nat \ {0}
    /\ Retryable \subseteq FailureClass
    /\ Never \subseteq FailureClass

\* Mutant: one attempt too many.
shouldRetry_OneMore(klass, idempotent, attempt, late, circuitOpen, outstanding) ==
    /\ attempt <= MaxAttempts
    /\ ~circuitOpen
    /\ ~late
    /\ klass \in Retryable \ Never
    /\ klass = "Timeout" => ~outstanding /\ idempotent

shouldRetry(klass, idempotent, attempt, late, circuitOpen, outstanding) ==
    /\ attempt < MaxAttempts
    /\ ~circuitOpen
    /\ ~late
    /\ klass \in Retryable \ Never
    /\ klass = "Timeout" => ~outstanding /\ idempotent
=============================================================================
