--------------------------- MODULE BreakerContract ---------------------------
(***************************************************************************)
(* What a circuit breaker promises to the service it protects, stated over *)
(* the outcomes that were reported to it and the time it has been open,    *)
(* without its counters:                                                   *)
(*  - it opens exactly when FailureThreshold failures were reported in a   *)
(*    row, with no success between them;                                   *)
(*  - it stops refusing no sooner than RecoveryTimeout after it opened;    *)
(*  - it closes exactly when SuccessThreshold successes were reported in a *)
(*    row after it went half-open.                                         *)
(* Outcomes may be reported in every mode: calls outlive mode changes.     *)
(*                                                                         *)
(* This is what the code promises, and it is less than what its guide      *)
(* says: docs/request-routing.md sends a half-open breaker to OPEN on any  *)
(* failure and to CLOSED on a success.  Here a half-open breaker counts    *)
(* the runs like any other, so that a failure after a success leaves it    *)
(* half-open (HalfOpenReopens of CircuitBreakerHistory, a finding).        *)
(***************************************************************************)
EXTENDS Integers

CONSTANTS FailureThreshold, SuccessThreshold, RecoveryTimeout,
          RunCap   \* runs and times are told apart up to this bound

VARIABLES mode,     \* CLOSED, OPEN or HALF_OPEN
          failRun,  \* failures reported since the last success or reset
          okRun,    \* successes since the last failure, half-opening or reset
          openFor   \* time spent open since the breaker last opened

vars == <<mode, failRun, okRun, openFor>>

UpTo(n) == IF n < RunCap THEN n + 1 ELSE n

Init == mode = "CLOSED" /\ failRun = 0 /\ okRun = 0 /\ openFor = 0

Success ==
  /\ failRun' = 0
  /\ okRun' = UpTo(okRun)
  /\ mode' = IF mode = "HALF_OPEN" /\ okRun' >= SuccessThreshold THEN "CLOSED" ELSE mode
  /\ UNCHANGED openFor

Failure ==
  /\ failRun' = UpTo(failRun)
  /\ okRun' = 0
  /\ mode' = IF failRun' >= FailureThreshold THEN "OPEN" ELSE mode
  /\ openFor' = IF mode' = "OPEN" /\ mode # "OPEN" THEN 0 ELSE openFor

HalfOpen ==
  /\ mode = "OPEN" /\ openFor >= RecoveryTimeout
  /\ mode' = "HALF_OPEN" /\ okRun' = 0
  /\ UNCHANGED <<failRun, openFor>>

\* A probe that half-opens the breaker and fails at once.
ProbeFails ==
  /\ mode = "OPEN" /\ openFor >= RecoveryTimeout
  /\ failRun' = UpTo(failRun)
  /\ okRun' = 0
  /\ mode' = IF failRun' >= FailureThreshold THEN "OPEN" ELSE "HALF_OPEN"
  /\ openFor' = IF mode' = "OPEN" THEN 0 ELSE openFor

Reset == mode' = "CLOSED" /\ failRun' = 0 /\ okRun' = 0 /\ UNCHANGED openFor

Elapse ==
  /\ mode = "OPEN"
  /\ openFor' = UpTo(openFor)
  /\ UNCHANGED <<mode, failRun, okRun>>

Next == Success \/ Failure \/ HalfOpen \/ ProbeFails \/ Reset \/ Elapse

Spec == Init /\ [][Next]_vars
==============================================================================
