------------------------ MODULE CircuitBreakerHistory ------------------------
(***************************************************************************)
(* CircuitBreaker with the history its contract speaks of: the runs of     *)
(* outcomes reported and the time the breaker has been open.  The history  *)
(* follows the actions and never constrains them.                          *)
(***************************************************************************)
EXTENDS CircuitBreaker

CONSTANT RunCap  \* runs and times are told apart up to this bound

ASSUME HistoryAssumption ==
  /\ RunCap \in Nat
  /\ FailureThreshold <= RunCap
  /\ SuccessThreshold <= RunCap
  /\ RecoveryTimeout <= RunCap

VARIABLES failRun, okRun, openFor

history == <<failRun, okRun, openFor>>

Seen(n) == IF n < RunCap THEN n + 1 ELSE n

HInit == Init /\ failRun = 0 /\ okRun = 0 /\ openFor = 0

HCall(c) ==
  /\ Call(c)
  /\ okRun' = IF breaker.state = "OPEN" /\ breaker'.state = "HALF_OPEN" THEN 0 ELSE okRun
  /\ UNCHANGED <<failRun, openFor>>

HSucceed(c) ==
  /\ Succeed(c)
  /\ failRun' = 0
  /\ okRun' = Seen(okRun)
  /\ UNCHANGED openFor

FailureSeen ==
  /\ failRun' = Seen(failRun)
  /\ okRun' = 0
  /\ openFor' = IF breaker.state # "OPEN" /\ breaker'.state = "OPEN" THEN 0 ELSE openFor

HFail(c) == Fail(c) /\ FailureSeen

HCallFails(c) ==
  /\ CallFails(c)
  /\ IF OnCall(breaker).state = "OPEN" THEN UNCHANGED history
     ELSE /\ failRun' = Seen(failRun)
          /\ okRun' = 0
          /\ openFor' = IF OnCall(breaker).state # breaker'.state THEN 0 ELSE openFor

HCancel(c) == Cancel(c) /\ UNCHANGED history

HHealthFailure == HealthFailure /\ FailureSeen

HReset == Reset /\ failRun' = 0 /\ okRun' = 0 /\ UNCHANGED openFor

HTick ==
  /\ Tick
  /\ openFor' = IF breaker.state = "OPEN" THEN Seen(openFor) ELSE openFor
  /\ UNCHANGED <<failRun, okRun>>

HNext ==
  \/ \E c \in Calls : HCall(c) \/ HCallFails(c) \/ HSucceed(c) \/ HFail(c) \/ HCancel(c)
  \/ HHealthFailure
  \/ HReset
  \/ HTick

HSpec == HInit /\ [][HNext]_<<vars, history>>

HFairSpec == HSpec /\ Fairness

Contract == INSTANCE BreakerContract WITH mode <- breaker.state

\* The breaker keeps its contract although outcomes of calls admitted in an
\* earlier mode, and failures of health checks, are reported in any mode
\* (circuit_breaker.py call, _record_success, _record_failure, reset).
KeepsContract == Contract!Spec

\* docs/request-routing.md: a half-open breaker goes to OPEN on a failure.  The
\* code counts on: after a success the run of failures starts again, and one that is
\* short of failure_threshold leaves the breaker half-open: violated.
FailureReported == HHealthFailure \/ \E c \in Calls : HFail(c) \/ HCallFails(c)
HalfOpenReopens ==
  [][breaker.state = "HALF_OPEN" /\ FailureReported => breaker'.state = "OPEN"]_vars
==============================================================================
