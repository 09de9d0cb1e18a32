----------------------------- MODULE BreakerOps -----------------------------
(***************************************************************************)
(* The methods of CircuitBreaker                                           *)
(* (services/api-gateway/src/core/circuit_breaker.py) as operators on the  *)
(* breaker's state, so that the breaker can be checked on its own          *)
(* (CircuitBreaker) and inside the gateway's client (ServiceClient).       *)
(*                                                                         *)
(* No method awaits while it holds the breaker's asyncio.Lock, so the lock *)
(* is never contended and each method runs without interleaving: one       *)
(* operator is one step.                                                   *)
(*                                                                         *)
(* Two abstractions of data, both exact for every test the code makes:     *)
(*  - _failure_count is only compared with failure_threshold, so it is     *)
(*    counted up to FailureCountCap >= FailureThreshold;                   *)
(*  - _last_failure_time is only used as "time since", so it is kept as    *)
(*    the age of the last failure, counted up to RecoveryTimeout, and      *)
(*    NoFailure where the code has None.                                   *)
(***************************************************************************)
EXTENDS Integers

CONSTANTS FailureThreshold,  \* failures before the breaker opens
          SuccessThreshold,  \* successes needed to close from half-open
          RecoveryTimeout,   \* time to wait before trying half-open
          FailureCountCap    \* bound on the failure count that is told apart

ASSUME ThresholdsAssumption ==
  /\ FailureThreshold \in Nat \ {0}
  /\ SuccessThreshold \in Nat \ {0}
  /\ RecoveryTimeout \in Nat \ {0}
  /\ FailureCountCap \in Nat /\ FailureCountCap >= FailureThreshold

\* _last_failure_time is None
NoFailure == -1

CircuitState == {"CLOSED", "OPEN", "HALF_OPEN"}

Breaker == [state        : CircuitState,
            failureCount : 0..FailureCountCap,
            successCount : 0..SuccessThreshold,
            lastFailure  : NoFailure..RecoveryTimeout]

NewBreaker == [state |-> "CLOSED", failureCount |-> 0,
               successCount |-> 0, lastFailure |-> NoFailure]

(***************************************************************************)
(* Variants with a plausible slip, used to show that the properties can    *)
(* tell the code from its near misses.                                     *)
(***************************************************************************)
SuccessKeepsFailures(b) ==
  LET probing == b.state = "HALF_OPEN"
      s == IF probing THEN b.successCount + 1 ELSE b.successCount
  IN  [state        |-> IF probing /\ s >= SuccessThreshold THEN "CLOSED" ELSE b.state,
       failureCount |-> IF probing THEN 0 ELSE b.failureCount,
       successCount |-> s,
       lastFailure  |-> b.lastFailure]

SuccessClosesLate(b) ==
  LET probing == b.state = "HALF_OPEN"
      s == IF probing THEN b.successCount + 1 ELSE b.successCount
  IN  [state        |-> IF probing /\ s > SuccessThreshold THEN "CLOSED" ELSE b.state,
       failureCount |-> 0,
       successCount |-> s,
       lastFailure  |-> b.lastFailure]

CountFailure(n) == IF n < FailureCountCap THEN n + 1 ELSE n

FailureOpensLate(b) ==
  LET n == CountFailure(b.failureCount) IN
  [state        |-> IF n > FailureThreshold THEN "OPEN" ELSE b.state,
   failureCount |-> n,
   successCount |-> IF b.state = "HALF_OPEN" THEN 0 ELSE b.successCount,
   lastFailure  |-> 0]

FailureForgetsTime(b) ==
  LET n == CountFailure(b.failureCount) IN
  [state        |-> IF n >= FailureThreshold THEN "OPEN" ELSE b.state,
   failureCount |-> n,
   successCount |-> IF b.state = "HALF_OPEN" THEN 0 ELSE b.successCount,
   lastFailure  |-> IF b.state = "CLOSED" THEN b.lastFailure ELSE 0]

-----------------------------------------------------------------------------
\* elapsed since the last failure >= recovery_timeout; never without a failure
ShouldAttemptReset(b) ==
  b.lastFailure # NoFailure /\ b.lastFailure >= RecoveryTimeout

\* The locked block at the start of call(): an open breaker that has waited
\* long enough goes half-open; anything else is left as it is.
OnCall(b) ==
  IF b.state = "OPEN" /\ ShouldAttemptReset(b)
    THEN [state        |-> "HALF_OPEN",
          failureCount |-> b.failureCount,
          successCount |-> 0,
          lastFailure  |-> b.lastFailure]
    ELSE b

RecordSuccess(b) ==
  LET probing == b.state = "HALF_OPEN"
      s == IF probing THEN b.successCount + 1 ELSE b.successCount
  IN  [state        |-> IF probing /\ s >= SuccessThreshold THEN "CLOSED" ELSE b.state,
       failureCount |-> 0,
       successCount |-> s,
       lastFailure  |-> b.lastFailure]

RecordFailure(b) ==
  LET n == CountFailure(b.failureCount) IN
  [state        |-> IF n >= FailureThreshold THEN "OPEN" ELSE b.state,
   failureCount |-> n,
   successCount |-> IF b.state = "HALF_OPEN" THEN 0 ELSE b.successCount,
   lastFailure  |-> 0]

\* reset(): back to the initial state, whatever calls are still in flight.
ResetBreaker(b) == NewBreaker

\* One unit of time passes.
AgeBreaker(b) ==
  IF b.lastFailure = NoFailure \/ b.lastFailure = RecoveryTimeout
    THEN b
    ELSE [state        |-> b.state,
          failureCount |-> b.failureCount,
          successCount |-> b.successCount,
          lastFailure  |-> b.lastFailure + 1]

\* What every method keeps of a breaker: it is short of the threshold that would
\* change its mode, and an open one has the time it waits from.
BreakerConsistent(b) ==
  /\ b.state = "CLOSED"    => b.failureCount < FailureThreshold
  /\ b.state = "OPEN"      => b.lastFailure # NoFailure
  /\ b.state = "HALF_OPEN" => b.successCount < SuccessThreshold
=============================================================================
