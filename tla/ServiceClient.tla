---------------------------- MODULE ServiceClient ----------------------------
(***************************************************************************)
(* The API gateway's path to one downstream service: ServiceClient.request *)
(* (service_discovery.py) with its retry loop (retry.py), the service's    *)
(* circuit breaker, the registry of its instances, the health check task   *)
(* and the management API, all tasks of one event loop.                    *)
(*                                                                         *)
(* A step runs from one await that really suspends (the HTTP exchange, the *)
(* backoff sleep, the health probe) to the next.  Choosing an instance and *)
(* the breaker's methods never suspend.                                    *)
(*                                                                         *)
(* Which of the healthy instances is chosen is left open here: it depends  *)
(* on the service's strategy (see RoundRobin for the default one).         *)
(***************************************************************************)
EXTENDS BreakerOps, FiniteSets

CONSTANTS Requests,    \* the tasks that serve client requests
          Instances,   \* ServiceInstance objects
          MaxAttempts, \* RetryConfig.max_attempts
          NoInstance

ASSUME ClientAssumption ==
  /\ MaxAttempts \in Nat \ {0}
  /\ NoInstance \notin Instances
  /\ IsFiniteSet(Requests)

VARIABLES breaker,
          registered,  \* the instances in _service_registry[service]
          healthy,     \* ServiceInstance.healthy
          active,      \* ServiceInstance.active_connections
          checking,    \* the instance the health check task awaits
          req          \* what each request task is doing

vars == <<breaker, registered, healthy, active, checking, req>>

\* The causes request() retries: an attempt that found no instance, a timeout,
\* a connection error, a response of 500 or above.
Retryable == {"unavailable", "timeout", "connect", "server_error"}

Request == [pc      : {"idle", "awaiting", "backoff"},
            attempt : 0..MaxAttempts - 1,
            inst    : Instances \cup {NoInstance}]

TypeOK ==
  /\ breaker \in Breaker
  /\ registered \in SUBSET Instances
  /\ healthy \in [Instances -> BOOLEAN]
  /\ active \in [Instances -> Int]
  /\ checking \in Instances \cup {NoInstance}
  /\ req \in [Requests -> Request]

Ended == [pc |-> "idle", attempt |-> 0, inst |-> NoInstance]

BackingOff(n) == [pc |-> "backoff", attempt |-> n, inst |-> NoInstance]

Init ==
  /\ breaker = NewBreaker
  /\ \E i \in Instances : registered = {i}
  /\ healthy = [i \in Instances |-> TRUE]
  /\ active = [i \in Instances |-> 0]
  /\ checking = NoInstance
  /\ req = [r \in Requests |-> Ended]

-----------------------------------------------------------------------------
\* Near misses for the mutation runs.
RetryOnceMore(r, n) ==
  req' = [req EXCEPT ![r] =
            IF n >= MaxAttempts THEN Ended ELSE BackingOff(n)]

RetryForever(r, n) ==
  req' = [req EXCEPT ![r] = BackingOff(0)]

AnyRegistered == registered

ReleaseIfRegistered(i) ==
  active' = IF i \in registered THEN [active EXCEPT ![i] = @ - 1] ELSE active

CheckRecordsSuccess(ok) ==
  /\ checking # NoInstance
  /\ healthy' = [healthy EXCEPT ![checking] = ok]
  /\ breaker' = IF ok THEN RecordSuccess(breaker) ELSE RecordFailure(breaker)
  /\ checking' = NoInstance
  /\ UNCHANGED <<registered, active, req>>

-----------------------------------------------------------------------------
\* The balancer's candidates.
Candidates == {i \in registered : healthy[i]}

\* An attempt failed with a retryable exception: back off, or give up when it
\* was the last one (RetryError, from which request() re-raises the cause).
RetryOrGiveUp(r, n) ==
  req' = [req EXCEPT ![r] =
            IF n >= MaxAttempts - 1 THEN Ended ELSE BackingOff(n)]

\* The finally block of _make_request.
Release(i) == active' = [active EXCEPT ![i] = @ - 1]

\* Attempt n of request r, up to its first suspension.
Attempt(r, n) ==
  LET b == OnCall(breaker) IN
  /\ \/ /\ b.state = "OPEN"        \* CircuitBreakerError is not retried
        /\ breaker' = b
        /\ req' = [req EXCEPT ![r] = Ended]
        /\ UNCHANGED active
     \/ /\ b.state # "OPEN" /\ Candidates = {}
        /\ breaker' = RecordFailure(b)
        /\ RetryOrGiveUp(r, n)
        /\ UNCHANGED active
     \/ /\ b.state # "OPEN"
        /\ breaker' = b
        /\ \E i \in Candidates :
             /\ active' = [active EXCEPT ![i] = @ + 1]
             /\ req' = [req EXCEPT ![r] = [pc |-> "awaiting", attempt |-> n, inst |-> i]]
  /\ UNCHANGED <<registered, healthy, checking>>

Start(r) == req[r].pc = "idle" /\ Attempt(r, 0)

WakeUp(r) == req[r].pc = "backoff" /\ Attempt(r, req[r].attempt + 1)

\* A response with a status below 500.
Respond(r) ==
  /\ req[r].pc = "awaiting"
  /\ Release(req[r].inst)
  /\ breaker' = RecordSuccess(breaker)
  /\ req' = [req EXCEPT ![r] = Ended]
  /\ UNCHANGED <<registered, healthy, checking>>

\* A timeout, a connection error or a 5xx response: retried.
FailAttempt(r, cause) ==
  /\ req[r].pc = "awaiting"
  /\ Release(req[r].inst)
  /\ breaker' = RecordFailure(breaker)
  /\ RetryOrGiveUp(r, req[r].attempt)
  /\ UNCHANGED <<registered, healthy, checking>>

\* Any other exception of the HTTP client (a broken read, a protocol error):
\* the breaker counts it, the retry loop lets it through.
Break(r) ==
  /\ req[r].pc = "awaiting"
  /\ Release(req[r].inst)
  /\ breaker' = RecordFailure(breaker)
  /\ req' = [req EXCEPT ![r] = Ended]
  /\ UNCHANGED <<registered, healthy, checking>>

\* The client went away: the finally block runs, the breaker hears nothing.
Cancel(r) ==
  /\ \/ req[r].pc = "awaiting" /\ Release(req[r].inst)
     \/ req[r].pc = "backoff" /\ UNCHANGED active
  /\ req' = [req EXCEPT ![r] = Ended]
  /\ UNCHANGED <<breaker, registered, healthy, checking>>

-----------------------------------------------------------------------------
\* The health check task probes a registered instance ...
BeginCheck(i) ==
  /\ checking = NoInstance
  /\ i \in registered
  /\ checking' = i
  /\ UNCHANGED <<breaker, registered, healthy, active, req>>

\* ... and applies the answer, to whatever the instance has become meanwhile.
EndCheck(ok) ==
  /\ checking # NoInstance
  /\ healthy' = [healthy EXCEPT ![checking] = ok]
  /\ breaker' = IF healthy[checking] /\ ~ok THEN RecordFailure(breaker) ELSE breaker
  /\ checking' = NoInstance
  /\ UNCHANGED <<registered, active, req>>

\* A new ServiceInstance object: one that no task still refers to.
Register(i) ==
  /\ i \notin registered /\ checking # i
  /\ \A r \in Requests : req[r].inst # i
  /\ registered' = registered \cup {i}
  /\ healthy' = [healthy EXCEPT ![i] = TRUE]
  /\ active' = [active EXCEPT ![i] = 0]
  /\ UNCHANGED <<breaker, checking, req>>

Deregister(i) ==
  /\ i \in registered
  /\ registered' = registered \ {i}
  /\ UNCHANGED <<breaker, healthy, active, checking, req>>

ResetCircuit ==
  /\ breaker' = ResetBreaker(breaker)
  /\ UNCHANGED <<registered, healthy, active, checking, req>>

Tick ==
  /\ breaker' = AgeBreaker(breaker)
  /\ UNCHANGED <<registered, healthy, active, checking, req>>

Next ==
  \/ \E r \in Requests :
       \/ Start(r) \/ WakeUp(r) \/ Respond(r) \/ Break(r) \/ Cancel(r)
       \/ \E cause \in Retryable \ {"unavailable"} : FailAttempt(r, cause)
  \/ \E i \in Instances : BeginCheck(i) \/ Register(i) \/ Deregister(i)
  \/ \E ok \in BOOLEAN : EndCheck(ok)
  \/ ResetCircuit
  \/ Tick

Spec == Init /\ [][Next]_vars

Answered(r) ==
  \/ Respond(r) \/ Break(r) \/ Cancel(r)
  \/ \E cause \in Retryable \ {"unavailable"} : FailAttempt(r, cause)

\* The HTTP client's timeout ends every exchange, sleeps end, each pass of the
\* health check task comes to every instance that stays registered (strong
\* fairness: the task is at another instance in between), time passes, and
\* clients keep sending requests.
Fairness ==
  /\ \A r \in Requests : WF_vars(Answered(r)) /\ WF_vars(WakeUp(r)) /\ WF_vars(Start(r))
  /\ \A i \in Instances : SF_vars(BeginCheck(i))
  /\ WF_vars(\E ok \in BOOLEAN : EndCheck(ok))
  /\ WF_vars(Tick)

FairSpec == Spec /\ Fairness

-----------------------------------------------------------------------------
\* active_connections counts exactly the exchanges in flight to the instance,
\* however they end and whether or not the instance is still registered: the
\* least-connections strategies divide by nothing else.
ConnectionsMatch ==
  \A i \in Instances :
    active[i] = Cardinality({r \in Requests : req[r].pc = "awaiting" /\ req[r].inst = i})

\* A request is sent only while the breaker lets requests pass, and only to an
\* instance that is registered and healthy when it is sent, also on a retry
\* that slept while the registry, the health or the breaker changed.
SentWhereAllowed ==
  [][\A r \in Requests :
       req'[r].pc = "awaiting" /\ req[r].pc # "awaiting" =>
         /\ breaker'.state # "OPEN"
         /\ req'[r].inst \in registered
         /\ healthy[req'[r].inst]]_vars

\* Every request comes to an end: no retry loop runs forever.
RequestEnds ==
  \A r \in Requests : req[r].pc # "idle" ~> req[r].pc = "idle"

\* When attempts, requests and health checks stop failing and the service keeps
\* an instance, requests are answered again and again: neither the breaker nor
\* a stale health flag keeps the service out of reach.
FailuresStop ==
  <>[][/\ \A r \in Requests :
           /\ ~Break(r) /\ ~Cancel(r)
           /\ \A cause \in Retryable : ~FailAttempt(r, cause)
       /\ ~EndCheck(FALSE)]_vars

ServedAgain ==
  FailuresStop /\ <>[](registered # {}) => []<><<\E r \in Requests : Respond(r)>>_vars

\* The client's use of the breaker is that of CircuitBreaker's tasks, so what
\* holds of the breaker there holds of it here.
Circuit == INSTANCE CircuitBreaker
             WITH Calls <- Requests,
                  running <- {r \in Requests : req[r].pc = "awaiting"}

ImplementsBreaker == Circuit!Spec

=============================================================================
