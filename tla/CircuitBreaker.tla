--------------------------- MODULE CircuitBreaker ---------------------------
(***************************************************************************)
(* One circuit breaker of the API gateway and the tasks that call through  *)
(* it.  A task that enters call() is either refused at once or awaits the  *)
(* protected function; the breaker may open, half-open, close or be reset  *)
(* by others before the function's outcome comes back.                     *)
(***************************************************************************)
EXTENDS BreakerOps

CONSTANT Calls  \* the tasks that use the breaker

VARIABLES breaker,  \* the breaker's state
          running   \* the tasks that await the protected function

vars == <<breaker, running>>

TypeOK == breaker \in Breaker /\ running \in SUBSET Calls

Init == breaker = NewBreaker /\ running = {}

\* call(), up to the await: half-open the breaker when it is due, then refuse
\* the task or let it await the function.
Call(c) ==
  /\ c \notin running
  /\ breaker' = OnCall(breaker)
  /\ running' = IF breaker'.state = "OPEN" THEN running ELSE running \cup {c}

\* The function raises before it awaits anything, as _make_request does when
\* no instance of the service is available: entry and failure are one step.
CallFails(c) ==
  /\ c \notin running
  /\ breaker' = IF OnCall(breaker).state = "OPEN"
                  THEN OnCall(breaker) ELSE RecordFailure(OnCall(breaker))
  /\ UNCHANGED running

\* The function returned.
Succeed(c) ==
  /\ c \in running
  /\ breaker' = RecordSuccess(breaker)
  /\ running' = running \ {c}

\* The function raised an Exception.
Fail(c) ==
  /\ c \in running
  /\ breaker' = RecordFailure(breaker)
  /\ running' = running \ {c}

\* The task was cancelled: CancelledError is not an Exception, so call()
\* records neither a success nor a failure.
Cancel(c) ==
  /\ c \in running
  /\ running' = running \ {c}
  /\ UNCHANGED breaker

\* The health check task saw an instance of the service become unhealthy and
\* records a failure that no call made.
HealthFailure ==
  /\ breaker' = RecordFailure(breaker)
  /\ UNCHANGED running

Reset ==
  /\ breaker' = ResetBreaker(breaker)
  /\ UNCHANGED running

Tick ==
  /\ breaker' = AgeBreaker(breaker)
  /\ UNCHANGED running

Next ==
  \/ \E c \in Calls : Call(c) \/ CallFails(c) \/ Succeed(c) \/ Fail(c) \/ Cancel(c)
  \/ HealthFailure
  \/ Reset
  \/ Tick

Spec == Init /\ [][Next]_vars

\* Requests keep coming, every await ends (the HTTP client has a timeout), and
\* time passes.
Fairness ==
  /\ WF_vars(\E c \in Calls : Call(c))
  /\ \A c \in Calls : WF_vars(Succeed(c) \/ Fail(c) \/ Cancel(c))
  /\ WF_vars(Tick)

FairSpec == Spec /\ Fairness

-----------------------------------------------------------------------------
\* A closed breaker has fewer failures than would open it, an open one knows
\* when it last failed (without that time _should_attempt_reset could never
\* hold again), and a half-open one has fewer successes than would close it;
\* whatever the order in which outcomes of older calls arrive.
Consistent ==
  /\ breaker.state = "CLOSED"    => breaker.failureCount < FailureThreshold
  /\ breaker.state = "OPEN"      => breaker.lastFailure # NoFailure
  /\ breaker.state = "HALF_OPEN" => breaker.successCount < SuccessThreshold

\* If failures and cancellations stop, a breaker that is not closed is closed
\* again: the outcomes of older calls cannot strand it open or half-open.
FailuresStop ==
  <>[][~HealthFailure /\ \A c \in Calls : ~CallFails(c) /\ ~Fail(c) /\ ~Cancel(c)]_vars

Recovers == FailuresStop => (breaker.state # "CLOSED" ~> breaker.state = "CLOSED")
=============================================================================
