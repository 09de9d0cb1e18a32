---------------------------- MODULE GatewayProofs ----------------------------
(***************************************************************************)
(* The gateway's service discovery (core/service_discovery.py,             *)
(* load_balancer.py), for every number of requests, instances, attempts    *)
(* and services: the client counts connections exactly, sends only where   *)
(* it may and uses its breaker as CircuitBreaker describes; the registry's *)
(* index holds no instance that is gone; and the balancer takes turns.     *)
(***************************************************************************)
EXTENDS ServiceClient, Selection, FiniteSetTheorems, SequenceTheorems, TLAPS

-----------------------------------------------------------------------------
\* The client.

\* A request that awaits an answer has an instance, and one that backs off has
\* an attempt left.
AwaitsInstance(q) == q.pc = "awaiting" => q.inst \in Instances
HasAttempt(q) == q.pc = "backoff" => q.attempt < MaxAttempts - 1

Wellformed == \A r \in Requests : AwaitsInstance(req[r]) /\ HasAttempt(req[r])

InFlight(i) == {r \in Requests : req[r].pc = "awaiting" /\ req[r].inst = i}

Running == {r \in Requests : req[r].pc = "awaiting"}

TypeInv == TypeOK /\ BreakerConsistent(breaker) /\ Wellformed

-----------------------------------------------------------------------------
LEMMA NewBreakerType == NewBreaker \in Breaker
BY ThresholdsAssumption DEF NewBreaker, Breaker, CircuitState, NoFailure

\* Each method keeps a breaker well typed and consistent; the two facts need each
\* other.
LEMMA OnCallKeeps ==
  ASSUME NEW b \in Breaker, BreakerConsistent(b)
  PROVE  OnCall(b) \in Breaker /\ BreakerConsistent(OnCall(b))
BY ThresholdsAssumption
   DEF OnCall, ShouldAttemptReset, Breaker, CircuitState, NoFailure, BreakerConsistent

LEMMA RecordSuccessKeeps ==
  ASSUME NEW b \in Breaker, BreakerConsistent(b)
  PROVE  RecordSuccess(b) \in Breaker /\ BreakerConsistent(RecordSuccess(b))
BY ThresholdsAssumption
   DEF RecordSuccess, Breaker, CircuitState, NoFailure, BreakerConsistent

LEMMA RecordFailureKeeps ==
  ASSUME NEW b \in Breaker, BreakerConsistent(b)
  PROVE  RecordFailure(b) \in Breaker /\ BreakerConsistent(RecordFailure(b))
BY ThresholdsAssumption
   DEF RecordFailure, CountFailure, Breaker, CircuitState, NoFailure, BreakerConsistent

LEMMA ResetBreakerKeeps ==
  ASSUME NEW b \in Breaker
  PROVE  ResetBreaker(b) \in Breaker /\ BreakerConsistent(ResetBreaker(b))
BY ThresholdsAssumption
   DEF ResetBreaker, NewBreaker, Breaker, CircuitState, NoFailure, BreakerConsistent

LEMMA AgeBreakerKeeps ==
  ASSUME NEW b \in Breaker, BreakerConsistent(b)
  PROVE  AgeBreaker(b) \in Breaker /\ BreakerConsistent(AgeBreaker(b))
BY ThresholdsAssumption
   DEF AgeBreaker, Breaker, CircuitState, NoFailure, BreakerConsistent

-----------------------------------------------------------------------------
\* The states a request can be put in.
LEMMA EndedType ==
  Ended \in Request /\ AwaitsInstance(Ended) /\ HasAttempt(Ended)
BY ClientAssumption DEF Ended, Request, AwaitsInstance, HasAttempt

LEMMA RetryType ==
  ASSUME NEW r \in Requests, NEW n \in 0..MaxAttempts - 1, req \in [Requests -> Request],
         RetryOrGiveUp(r, n)
  PROVE  \E q \in Request : /\ req' = [req EXCEPT ![r] = q]
                            /\ q.pc # "awaiting"
                            /\ AwaitsInstance(q) /\ HasAttempt(q)
<1>1. CASE n >= MaxAttempts - 1
    <2>1. req' = [req EXCEPT ![r] = Ended] /\ Ended.pc # "awaiting"
        BY <1>1 DEF RetryOrGiveUp, Ended
    <2>2. QED
        BY <2>1, EndedType
<1>2. CASE ~(n >= MaxAttempts - 1)
    <2>1. req' = [req EXCEPT ![r] = BackingOff(n)]
        BY <1>2 DEF RetryOrGiveUp
    <2>2. BackingOff(n) \in Request
        BY DEF BackingOff, Request
    <2>3. /\ BackingOff(n).pc # "awaiting"
          /\ AwaitsInstance(BackingOff(n)) /\ HasAttempt(BackingOff(n))
        BY <1>2, ClientAssumption DEF BackingOff, AwaitsInstance, HasAttempt
    <2>4. QED
        BY <2>1, <2>2, <2>3
<1>3. QED
    BY <1>1, <1>2

\* The three ways an attempt can go on.
Refused(r) ==
  /\ OnCall(breaker).state = "OPEN"
  /\ breaker' = OnCall(breaker)
  /\ req' = [req EXCEPT ![r] = Ended]
  /\ UNCHANGED active

NotFound(r, n) ==
  /\ OnCall(breaker).state # "OPEN"
  /\ breaker' = RecordFailure(OnCall(breaker))
  /\ RetryOrGiveUp(r, n)
  /\ UNCHANGED active

Sent(r, n, i) ==
  /\ OnCall(breaker).state # "OPEN"
  /\ breaker' = OnCall(breaker)
  /\ active' = [active EXCEPT ![i] = @ + 1]
  /\ req' = [req EXCEPT ![r] = [pc |-> "awaiting", attempt |-> n, inst |-> i]]

LEMMA AttemptCases ==
  ASSUME TypeInv, NEW r \in Requests, Start(r) \/ WakeUp(r)
  PROVE  \E n \in 0..MaxAttempts - 1 :
           /\ req[r].pc # "awaiting"
           /\ UNCHANGED <<registered, healthy, checking>>
           /\ Refused(r) \/ NotFound(r, n) \/ \E i \in Candidates : Sent(r, n, i)
<1>1. CASE Start(r)
    <2>1. 0 \in 0..MaxAttempts - 1 /\ req[r].pc # "awaiting"
        BY <1>1, ClientAssumption DEF Start
    <2>2. QED
        BY <1>1, <2>1 DEF Start, Attempt, Refused, NotFound, Sent
<1>2. CASE WakeUp(r)
    <2>1. req[r].attempt + 1 \in 0..MaxAttempts - 1 /\ req[r].pc # "awaiting"
        BY <1>2, ClientAssumption
        DEF WakeUp, TypeInv, TypeOK, Request, Wellformed, HasAttempt
    <2>2. QED
        BY <1>2, <2>1 DEF WakeUp, Attempt, Refused, NotFound, Sent
<1>3. QED
    BY <1>1, <1>2

LEMMA SentType ==
  ASSUME NEW n \in 0..MaxAttempts - 1, NEW i \in Instances
  PROVE  LET q == [pc |-> "awaiting", attempt |-> n, inst |-> i]
         IN  q \in Request /\ AwaitsInstance(q) /\ HasAttempt(q)
BY DEF Request, AwaitsInstance, HasAttempt

LEMMA RequestChanges ==
  ASSUME TypeInv, NEW r \in Requests, NEW q \in Request, AwaitsInstance(q), HasAttempt(q),
         req' = [req EXCEPT ![r] = q]
  PROVE  req' \in [Requests -> Request] /\ Wellformed'
<1>1. req' \in [Requests -> Request]
    BY DEF TypeInv, TypeOK
<1>2. \A s \in Requests : req'[s] = IF s = r THEN q ELSE req[s]
    BY DEF TypeInv, TypeOK
<1>3. ASSUME NEW s \in Requests PROVE AwaitsInstance(req'[s]) /\ HasAttempt(req'[s])
    <2>1. CASE s = r
        BY <1>2, <2>1
    <2>2. CASE s # r
        BY <1>2, <2>2 DEF TypeInv, Wellformed
    <2>3. QED
        BY <2>1, <2>2
<1>4. QED
    BY <1>1, <1>3 DEF Wellformed

LEMMA ReleaseType ==
  ASSUME TypeInv, NEW i \in Instances, Release(i)
  PROVE  active' \in [Instances -> Int]
BY DEF TypeInv, TypeOK, Release

\* What the end of an exchange does, apart from the breaker.
LEMMA AwaitedInstance ==
  ASSUME TypeInv, NEW r \in Requests, req[r].pc = "awaiting"
  PROVE  req[r].inst \in Instances /\ req[r].attempt \in 0..MaxAttempts - 1
BY DEF TypeInv, TypeOK, Wellformed, AwaitsInstance, Request

LEMMA TypeNext == TypeInv /\ [Next]_vars => TypeInv'
<1> SUFFICES ASSUME TypeInv, [Next]_vars PROVE TypeInv'
    OBVIOUS
<1> DEFINE BreakerStep == breaker' \in Breaker /\ BreakerConsistent(breaker')
           RequestStep == req' \in [Requests -> Request] /\ Wellformed'
           RestStep == /\ registered' \in SUBSET Instances
                       /\ healthy' \in [Instances -> BOOLEAN]
                       /\ active' \in [Instances -> Int]
                       /\ checking' \in Instances \cup {NoInstance}
<1>b. breaker \in Breaker /\ BreakerConsistent(breaker)
    BY DEF TypeInv, TypeOK
<1>f. RecordFailure(breaker) \in Breaker /\ BreakerConsistent(RecordFailure(breaker))
    BY <1>b, RecordFailureKeeps
<1>o. OnCall(breaker) \in Breaker /\ BreakerConsistent(OnCall(breaker))
    BY <1>b, OnCallKeeps
<1>q. SUFFICES BreakerStep /\ RequestStep /\ RestStep
    BY DEF TypeInv, TypeOK
<1>e. ASSUME NEW r \in Requests, req' = [req EXCEPT ![r] = Ended] PROVE RequestStep
    BY <1>e, EndedType, RequestChanges
<1>1. ASSUME NEW r \in Requests, Start(r) \/ WakeUp(r)
      PROVE  BreakerStep /\ RequestStep /\ RestStep
    <2>1. PICK n \in 0..MaxAttempts - 1 :
             /\ UNCHANGED <<registered, healthy, checking>>
             /\ Refused(r) \/ NotFound(r, n) \/ \E i \in Candidates : Sent(r, n, i)
        BY <1>1, AttemptCases
    <2>2. CASE Refused(r)
        BY <1>e, <1>o, <2>1, <2>2 DEF Refused, TypeInv, TypeOK
    <2>3. CASE NotFound(r, n)
        <3>1. BreakerStep
            BY <1>o, <2>3, RecordFailureKeeps DEF NotFound
        <3>2. RequestStep
            <4>1. PICK q \in Request : /\ req' = [req EXCEPT ![r] = q]
                                       /\ AwaitsInstance(q) /\ HasAttempt(q)
                BY <2>3, RetryType DEF NotFound, TypeInv, TypeOK
            <4>2. QED
                BY <4>1, RequestChanges
        <3>3. RestStep
            BY <2>1, <2>3 DEF NotFound, TypeInv, TypeOK
        <3>4. QED
            BY <3>1, <3>2, <3>3
    <2>4. ASSUME NEW i \in Candidates, Sent(r, n, i)
          PROVE  BreakerStep /\ RequestStep /\ RestStep
        <3>1. i \in Instances
            BY DEF Candidates, TypeInv, TypeOK
        <3>2. BreakerStep
            BY <1>o, <2>4 DEF Sent
        <3>3. RequestStep
            BY <2>4, <3>1, SentType, RequestChanges DEF Sent
        <3>4. RestStep
            BY <2>1, <2>4, <3>1 DEF Sent, TypeInv, TypeOK
        <3>5. QED
            BY <3>2, <3>3, <3>4
    <2>5. QED
        BY <2>1, <2>2, <2>3, <2>4
<1>2. ASSUME NEW r \in Requests, Respond(r)
      PROVE  BreakerStep /\ RequestStep /\ RestStep
    <2>1. BreakerStep
        BY <1>2, <1>b, RecordSuccessKeeps DEF Respond
    <2>2. RestStep
        BY <1>2, AwaitedInstance, ReleaseType DEF Respond, TypeInv, TypeOK
    <2>3. QED
        BY <1>2, <1>e, <2>1, <2>2 DEF Respond
<1>3. ASSUME NEW r \in Requests, Break(r)
      PROVE  BreakerStep /\ RequestStep /\ RestStep
    <2>1. RestStep
        BY <1>3, AwaitedInstance, ReleaseType DEF Break, TypeInv, TypeOK
    <2>2. QED
        BY <1>3, <1>e, <1>f, <2>1 DEF Break
<1>4. ASSUME NEW r \in Requests, Cancel(r)
      PROVE  BreakerStep /\ RequestStep /\ RestStep
    <2>1. active' \in [Instances -> Int]
        BY <1>4, AwaitedInstance, ReleaseType DEF Cancel, TypeInv, TypeOK
    <2>2. QED
        BY <1>4, <1>e, <1>b, <2>1 DEF Cancel, TypeInv, TypeOK
<1>5. ASSUME NEW r \in Requests, NEW cause \in Retryable, FailAttempt(r, cause)
      PROVE  BreakerStep /\ RequestStep /\ RestStep
    <2>1. RestStep
        BY <1>5, AwaitedInstance, ReleaseType DEF FailAttempt, TypeInv, TypeOK
    <2>2. PICK q \in Request : /\ req' = [req EXCEPT ![r] = q]
                               /\ AwaitsInstance(q) /\ HasAttempt(q)
        BY <1>5, AwaitedInstance, RetryType DEF FailAttempt, TypeInv, TypeOK
    <2>3. RequestStep
        BY <2>2, RequestChanges
    <2>4. QED
        BY <1>5, <1>f, <2>1, <2>3 DEF FailAttempt
<1> USE DEF Wellformed, TypeInv, TypeOK
<1>6. ASSUME NEW i \in Instances, BeginCheck(i)
      PROVE  BreakerStep /\ RequestStep /\ RestStep
    BY <1>6 DEF BeginCheck
<1>7. ASSUME NEW i \in Instances, Register(i)
      PROVE  BreakerStep /\ RequestStep /\ RestStep
    BY <1>7 DEF Register
<1>8. ASSUME NEW i \in Instances, Deregister(i)
      PROVE  BreakerStep /\ RequestStep /\ RestStep
    BY <1>8 DEF Deregister
<1>9. ASSUME NEW ok \in BOOLEAN, EndCheck(ok)
      PROVE  BreakerStep /\ RequestStep /\ RestStep
    BY <1>9, <1>b, <1>f DEF EndCheck
<1>10. CASE ResetCircuit
    BY <1>10, <1>b, ResetBreakerKeeps DEF ResetCircuit
<1>11. CASE Tick
    BY <1>11, <1>b, AgeBreakerKeeps DEF Tick
<1>12. CASE UNCHANGED vars
    BY <1>12 DEF vars
<1>13. QED
    BY <1>1, <1>2, <1>3, <1>4, <1>5, <1>6, <1>7, <1>8, <1>9, <1>10, <1>11, <1>12 DEF Next

LEMMA InitTypeInv == Init => TypeInv
<1> SUFFICES ASSUME Init PROVE TypeInv
    OBVIOUS
<1>1. breaker \in Breaker /\ BreakerConsistent(breaker)
    BY NewBreakerType, ThresholdsAssumption DEF Init, BreakerConsistent, NewBreaker, NoFailure
<1>2. QED
    BY <1>1, EndedType DEF Init, TypeInv, TypeOK, Wellformed

-----------------------------------------------------------------------------
LEMMA InFlightFinite ==
  ASSUME NEW i
  PROVE  IsFiniteSet(InFlight(i)) /\ Cardinality(InFlight(i)) \in Nat
BY ClientAssumption, FS_Subset, FS_CardinalityType DEF InFlight

LEMMA InFlightChanges ==
  ASSUME TypeInv, NEW r \in Requests, NEW q, req' = [req EXCEPT ![r] = q], NEW i
  PROVE  InFlight(i)' = IF q.pc = "awaiting" /\ q.inst = i
                          THEN InFlight(i) \cup {r} ELSE InFlight(i) \ {r}
BY DEF InFlight, TypeInv, TypeOK

\* A request that awaited nothing ends or backs off, and no count changes.
LEMMA IdleKeepsMatch ==
  ASSUME TypeInv, ConnectionsMatch, NEW r \in Requests, req[r].pc # "awaiting",
         NEW q, q.pc # "awaiting", req' = [req EXCEPT ![r] = q], UNCHANGED active
  PROVE  ConnectionsMatch'
<1>1. \A i \in Instances : InFlight(i)' = InFlight(i)
    BY InFlightChanges DEF InFlight
<1>2. QED
    BY <1>1 DEF ConnectionsMatch, InFlight

\* A request leaves the instance it awaited, and the instance is released.
LEMMA ReleaseKeepsMatch ==
  ASSUME TypeInv, ConnectionsMatch, NEW r \in Requests, req[r].pc = "awaiting",
         NEW q, q.pc # "awaiting", req' = [req EXCEPT ![r] = q], Release(req[r].inst)
  PROVE  ConnectionsMatch'
<1>1. req[r].inst \in Instances
    BY AwaitedInstance
<1>2. \A i \in Instances : InFlight(i)' = InFlight(i) \ {r}
    BY InFlightChanges
<1>3. SUFFICES ASSUME NEW i \in Instances
               PROVE  active'[i] = Cardinality(InFlight(i)')
    BY DEF ConnectionsMatch, InFlight
<1>4. active[i] = Cardinality(InFlight(i))
    BY DEF ConnectionsMatch, InFlight
<1>5. CASE i = req[r].inst
    <2>1. r \in InFlight(i)
        BY <1>5 DEF InFlight
    <2>2. Cardinality(InFlight(i) \ {r}) = Cardinality(InFlight(i)) - 1
        BY <2>1, InFlightFinite, FS_RemoveElement
    <2>3. active'[i] = active[i] - 1
        BY <1>5 DEF Release, TypeInv, TypeOK
    <2>4. QED
        BY <1>2, <1>4, <2>2, <2>3
<1>6. CASE i # req[r].inst
    <2>1. InFlight(i) \ {r} = InFlight(i)
        BY <1>6 DEF InFlight
    <2>2. active'[i] = active[i]
        BY <1>6 DEF Release, TypeInv, TypeOK
    <2>3. QED
        BY <1>2, <1>4, <2>1, <2>2
<1>7. QED
    BY <1>5, <1>6

\* A request is sent to an instance, which counts it.
LEMMA SendKeepsMatch ==
  ASSUME TypeInv, ConnectionsMatch, NEW r \in Requests, req[r].pc # "awaiting",
         NEW n, NEW j \in Instances, Sent(r, n, j)
  PROVE  ConnectionsMatch'
<1> DEFINE q == [pc |-> "awaiting", attempt |-> n, inst |-> j]
<1>1. req' = [req EXCEPT ![r] = q] /\ q.pc = "awaiting" /\ q.inst = j
    BY DEF Sent
<1>2. SUFFICES ASSUME NEW i \in Instances
               PROVE  active'[i] = Cardinality(InFlight(i)')
    BY DEF ConnectionsMatch, InFlight
<1>3. active[i] = Cardinality(InFlight(i)) /\ r \notin InFlight(i)
    BY DEF ConnectionsMatch, InFlight
<1>4. InFlight(i)' = IF j = i THEN InFlight(i) \cup {r} ELSE InFlight(i) \ {r}
    <2> HIDE DEF q
    <2>1. QED
        BY <1>1, InFlightChanges
<1>5. CASE i = j
    <2>1. Cardinality(InFlight(i) \cup {r}) = Cardinality(InFlight(i)) + 1
        BY <1>3, InFlightFinite, FS_AddElement
    <2>2. active'[i] = active[i] + 1
        BY <1>5 DEF Sent, TypeInv, TypeOK
    <2>3. QED
        BY <1>3, <1>4, <1>5, <2>1, <2>2
<1>6. CASE i # j
    <2>1. InFlight(i) \ {r} = InFlight(i)
        BY <1>3
    <2>2. active'[i] = active[i]
        BY <1>6 DEF Sent, TypeInv, TypeOK
    <2>3. QED
        BY <1>3, <1>4, <1>6, <2>1, <2>2
<1>7. QED
    BY <1>5, <1>6

LEMMA MatchNext == TypeInv /\ ConnectionsMatch /\ [Next]_vars => ConnectionsMatch'
<1> SUFFICES ASSUME TypeInv, ConnectionsMatch, [Next]_vars PROVE ConnectionsMatch'
    OBVIOUS
<1>e. Ended.pc # "awaiting"
    BY DEF Ended
<1>1. ASSUME NEW r \in Requests, Start(r) \/ WakeUp(r) PROVE ConnectionsMatch'
    <2>1. PICK n \in 0..MaxAttempts - 1 :
             /\ req[r].pc # "awaiting"
             /\ Refused(r) \/ NotFound(r, n) \/ \E i \in Candidates : Sent(r, n, i)
        BY <1>1, AttemptCases
    <2>2. CASE Refused(r)
        BY <1>e, <2>1, <2>2, IdleKeepsMatch DEF Refused
    <2>3. CASE NotFound(r, n)
        <3>1. PICK q \in Request : req' = [req EXCEPT ![r] = q] /\ q.pc # "awaiting"
            BY <2>3, RetryType DEF NotFound, TypeInv, TypeOK
        <3>2. QED
            BY <2>1, <2>3, <3>1, IdleKeepsMatch DEF NotFound
    <2>4. ASSUME NEW i \in Candidates, Sent(r, n, i) PROVE ConnectionsMatch'
        <3>1. i \in Instances
            BY DEF Candidates, TypeInv, TypeOK
        <3>2. QED
            BY <2>1, <2>4, <3>1, SendKeepsMatch
    <2>5. QED
        BY <2>1, <2>2, <2>3, <2>4
<1>2. ASSUME NEW r \in Requests, Respond(r) PROVE ConnectionsMatch'
    BY <1>2, <1>e, ReleaseKeepsMatch DEF Respond
<1>3. ASSUME NEW r \in Requests, Break(r) PROVE ConnectionsMatch'
    BY <1>3, <1>e, ReleaseKeepsMatch DEF Break
<1>4. ASSUME NEW r \in Requests, Cancel(r) PROVE ConnectionsMatch'
    <2>1. CASE req[r].pc = "awaiting" /\ Release(req[r].inst)
        BY <1>4, <1>e, <2>1, ReleaseKeepsMatch DEF Cancel
    <2>2. CASE req[r].pc = "backoff" /\ UNCHANGED active
        BY <1>4, <1>e, <2>2, IdleKeepsMatch DEF Cancel
    <2>3. QED
        BY <1>4, <2>1, <2>2 DEF Cancel
<1>5. ASSUME NEW r \in Requests, NEW cause \in Retryable, FailAttempt(r, cause)
      PROVE  ConnectionsMatch'
    <2>1. PICK q \in Request : req' = [req EXCEPT ![r] = q] /\ q.pc # "awaiting"
        BY <1>5, AwaitedInstance, RetryType DEF FailAttempt, TypeInv, TypeOK
    <2>2. QED
        BY <1>5, <2>1, ReleaseKeepsMatch DEF FailAttempt
<1> USE DEF ConnectionsMatch
<1>6. ASSUME NEW i \in Instances, BeginCheck(i) PROVE ConnectionsMatch'
    BY <1>6 DEF BeginCheck
<1>7. ASSUME NEW i \in Instances, Register(i) PROVE ConnectionsMatch'
    <2>1. {r \in Requests : req[r].pc = "awaiting" /\ req[r].inst = i} = {}
        BY <1>7 DEF Register
    <2>2. active'[i] = 0 /\ \A j \in Instances \ {i} : active'[j] = active[j]
        BY <1>7 DEF Register, TypeInv, TypeOK
    <2>3. QED
        BY <1>7, <2>1, <2>2, FS_EmptySet DEF Register
<1>8. ASSUME NEW i \in Instances, Deregister(i) PROVE ConnectionsMatch'
    BY <1>8 DEF Deregister
<1>9. ASSUME NEW ok \in BOOLEAN, EndCheck(ok) PROVE ConnectionsMatch'
    BY <1>9 DEF EndCheck
<1>10. CASE ResetCircuit
    BY <1>10 DEF ResetCircuit
<1>11. CASE Tick
    BY <1>11 DEF Tick
<1>12. CASE UNCHANGED vars
    BY <1>12 DEF vars
<1>13. QED
    BY <1>1, <1>2, <1>3, <1>4, <1>5, <1>6, <1>7, <1>8, <1>9, <1>10, <1>11, <1>12 DEF Next

LEMMA InitMatch == Init => ConnectionsMatch
<1> SUFFICES ASSUME Init, NEW i \in Instances
             PROVE  active[i] = Cardinality(InFlight(i))
    BY DEF ConnectionsMatch, InFlight
<1>1. InFlight(i) = {}
    BY DEF Init, InFlight, Ended
<1>2. QED
    BY <1>1, FS_EmptySet DEF Init

\* Requests, instances and the breaker stay well-formed: no attempt is beyond the last
\* one, and the breaker's counters stay in range.
THEOREM ClientTyped == Spec => []TypeOK
<1>1. TypeInv => TypeOK
    BY DEF TypeInv
<1>2. QED
    BY <1>1, InitTypeInv, TypeNext, PTL DEF Spec

\* active_connections is the number of exchanges in flight to the instance,
\* through failures, cancellations, deregistrations and registrations: no path
\* through _make_request leaks a connection or releases one twice.
THEOREM ClientSafety == Spec => []ConnectionsMatch
<1>1. QED
    BY InitTypeInv, TypeNext, InitMatch, MatchNext, PTL DEF Spec

-----------------------------------------------------------------------------
\* Only an attempt lets a request await.
LEMMA OnlySendingAwaits ==
  ASSUME TypeInv, Next, NEW r \in Requests, req'[r].pc = "awaiting", req[r].pc # "awaiting"
  PROVE  /\ breaker'.state # "OPEN"
         /\ req'[r].inst \in registered
         /\ healthy[req'[r].inst]
<1>e. ASSUME NEW s \in Requests, NEW q, req' = [req EXCEPT ![s] = q], q.pc # "awaiting"
      PROVE  FALSE
    BY <1>e DEF TypeInv, TypeOK
<1>f. Ended.pc # "awaiting"
    BY DEF Ended
<1>1. ASSUME NEW s \in Requests, Start(s) \/ WakeUp(s)
      PROVE  breaker'.state # "OPEN" /\ req'[r].inst \in registered /\ healthy[req'[r].inst]
    <2>1. PICK n \in 0..MaxAttempts - 1 :
             Refused(s) \/ NotFound(s, n) \/ \E i \in Candidates : Sent(s, n, i)
        BY <1>1, AttemptCases
    <2>2. CASE Refused(s)
        BY <1>e, <1>f, <2>2 DEF Refused
    <2>3. CASE NotFound(s, n)
        BY <1>e, <2>3, RetryType DEF NotFound, TypeInv, TypeOK
    <2>4. ASSUME NEW i \in Candidates, Sent(s, n, i)
          PROVE  /\ breaker'.state # "OPEN" /\ req'[r].inst \in registered
                 /\ healthy[req'[r].inst]
        <3>1. s = r /\ req'[r].inst = i
            BY <2>4 DEF Sent, TypeInv, TypeOK
        <3>2. QED
            BY <2>4, <3>1 DEF Sent, Candidates
    <2>5. QED
        BY <2>1, <2>2, <2>3, <2>4
<1>2. ASSUME NEW s \in Requests, Respond(s) \/ Break(s) \/ Cancel(s) PROVE FALSE
    BY <1>2, <1>e, <1>f DEF Respond, Break, Cancel
<1>3. ASSUME NEW s \in Requests, NEW cause \in Retryable, FailAttempt(s, cause) PROVE FALSE
    <2>1. PICK q \in Request : req' = [req EXCEPT ![s] = q] /\ q.pc # "awaiting"
        BY <1>3, AwaitedInstance, RetryType DEF FailAttempt, TypeInv, TypeOK
    <2>2. QED
        BY <1>e, <2>1
<1>4. ASSUME req' = req PROVE FALSE
    BY <1>4
<1>5. QED
    BY <1>1, <1>2, <1>3, <1>4
    DEF Next, BeginCheck, EndCheck, Register, Deregister, ResetCircuit, Tick

\* First attempts and retries alike are sent only through a breaker that lets
\* them pass, to an instance that is registered and healthy at that moment.
THEOREM ClientSendsWhereAllowed == Spec => SentWhereAllowed
<1>1. TypeInv /\ [Next]_vars
        => [\A r \in Requests :
              req'[r].pc = "awaiting" /\ req[r].pc # "awaiting" =>
                /\ breaker'.state # "OPEN"
                /\ req'[r].inst \in registered
                /\ healthy[req'[r].inst]]_vars
    BY OnlySendingAwaits
<1>2. QED
    BY <1>1, InitTypeInv, TypeNext, PTL DEF Spec, SentWhereAllowed

-----------------------------------------------------------------------------
\* What a step of a request does to the set of requests that await an answer.
LEMMA RunningChanges ==
  ASSUME TypeInv, NEW r \in Requests, NEW q, req' = [req EXCEPT ![r] = q]
  PROVE  Running' = IF q.pc = "awaiting" THEN Running \cup {r} ELSE Running \ {r}
BY DEF Running, TypeInv, TypeOK

\* The breaker's methods are the same in both specifications.
LEMMA SameMethods ==
  /\ Circuit!NewBreaker = NewBreaker
  /\ \A b : /\ Circuit!OnCall(b) = OnCall(b)
            /\ Circuit!RecordSuccess(b) = RecordSuccess(b)
            /\ Circuit!RecordFailure(b) = RecordFailure(b)
            /\ Circuit!ResetBreaker(b) = ResetBreaker(b)
            /\ Circuit!AgeBreaker(b) = AgeBreaker(b)
BY DEF Circuit!NewBreaker, NewBreaker, Circuit!NoFailure, NoFailure,
       Circuit!ShouldAttemptReset, ShouldAttemptReset, Circuit!OnCall, OnCall,
       Circuit!RecordSuccess, RecordSuccess, Circuit!CountFailure, CountFailure,
       Circuit!RecordFailure, RecordFailure, Circuit!ResetBreaker, ResetBreaker,
       Circuit!AgeBreaker, AgeBreaker

LEMMA StepRefines == TypeInv /\ [Next]_vars => [Circuit!Next]_(Circuit!vars)
<1> SUFFICES ASSUME TypeInv, [Next]_vars PROVE Circuit!Next \/ UNCHANGED <<breaker, Running>>
    BY DEF Circuit!vars, Running
<1>e. Ended.pc # "awaiting"
    BY DEF Ended
<1>k. \A r \in Requests : r \in Running <=> req[r].pc = "awaiting"
    BY DEF Running
<1>1. ASSUME NEW r \in Requests, Start(r) \/ WakeUp(r) PROVE Circuit!Next
    <2>1. PICK n \in 0..MaxAttempts - 1 :
             /\ req[r].pc # "awaiting"
             /\ Refused(r) \/ NotFound(r, n) \/ \E i \in Candidates : Sent(r, n, i)
        BY <1>1, AttemptCases
    <2>2. CASE Refused(r)
        <3>1. Running' = Running /\ r \notin Running
            BY <1>e, <1>k, <2>1, <2>2, RunningChanges DEF Refused
        <3>2. Circuit!Call(r)
            BY <2>2, <3>1, SameMethods DEF Refused, Circuit!Call, Running
        <3>3. QED
            BY <3>2 DEF Circuit!Next
    <2>3. CASE NotFound(r, n)
        <3>1. PICK q \in Request : req' = [req EXCEPT ![r] = q] /\ q.pc # "awaiting"
            BY <2>3, RetryType DEF NotFound, TypeInv, TypeOK
        <3>2. Running' = Running /\ r \notin Running
            BY <1>k, <2>1, <3>1, RunningChanges
        <3>3. Circuit!CallFails(r)
            BY <2>3, <3>2, SameMethods DEF NotFound, Circuit!CallFails, Running
        <3>4. QED
            BY <3>3 DEF Circuit!Next
    <2>4. ASSUME NEW i \in Candidates, Sent(r, n, i) PROVE Circuit!Next
        <3> DEFINE q == [pc |-> "awaiting", attempt |-> n, inst |-> i]
        <3>1. req' = [req EXCEPT ![r] = q] /\ q.pc = "awaiting"
            BY <2>4 DEF Sent
        <3> HIDE DEF q
        <3>2. Running' = Running \cup {r} /\ r \notin Running
            BY <1>k, <2>1, <3>1, RunningChanges
        <3>3. Circuit!Call(r)
            BY <2>4, <3>2, SameMethods DEF Sent, Circuit!Call, Running
        <3>4. QED
            BY <3>3 DEF Circuit!Next
    <2>5. QED
        BY <2>1, <2>2, <2>3, <2>4
<1>2. ASSUME NEW r \in Requests, req[r].pc = "awaiting", NEW q, q.pc # "awaiting",
             req' = [req EXCEPT ![r] = q]
      PROVE  r \in Running /\ Running' = Running \ {r}
    BY <1>2, <1>k, RunningChanges
<1>3. ASSUME NEW r \in Requests, Respond(r) PROVE Circuit!Next
    <2>1. Circuit!Succeed(r)
        BY <1>2, <1>3, <1>e, SameMethods DEF Respond, Circuit!Succeed, Running
    <2>2. QED
        BY <2>1 DEF Circuit!Next
<1>4. ASSUME NEW r \in Requests, Break(r) PROVE Circuit!Next
    <2>1. Circuit!Fail(r)
        BY <1>2, <1>4, <1>e, SameMethods DEF Break, Circuit!Fail, Running
    <2>2. QED
        BY <2>1 DEF Circuit!Next
<1>5. ASSUME NEW r \in Requests, NEW cause \in Retryable, FailAttempt(r, cause)
      PROVE  Circuit!Next
    <2>1. PICK q \in Request : req' = [req EXCEPT ![r] = q] /\ q.pc # "awaiting"
        BY <1>5, AwaitedInstance, RetryType DEF FailAttempt, TypeInv, TypeOK
    <2>2. Circuit!Fail(r)
        BY <1>2, <1>5, <2>1, SameMethods DEF FailAttempt, Circuit!Fail, Running
    <2>3. QED
        BY <2>2 DEF Circuit!Next
<1>6. ASSUME NEW r \in Requests, Cancel(r)
      PROVE  Circuit!Next \/ UNCHANGED <<breaker, Running>>
    <2>1. CASE req[r].pc = "awaiting"
        <3>1. Circuit!Cancel(r)
            BY <1>2, <1>6, <1>e, <2>1 DEF Cancel, Circuit!Cancel, Running
        <3>2. QED
            BY <3>1 DEF Circuit!Next
    <2>2. CASE req[r].pc # "awaiting"
        <3>1. Running' = Running
            BY <1>6, <1>e, <1>k, <2>2, RunningChanges DEF Cancel
        <3>2. QED
            BY <1>6, <3>1 DEF Cancel
    <2>3. QED
        BY <2>1, <2>2
<1>7. ASSUME NEW ok \in BOOLEAN, EndCheck(ok)
      PROVE  Circuit!Next \/ UNCHANGED <<breaker, Running>>
    <2>1. Running' = Running
        BY <1>7 DEF EndCheck, Running
    <2>2. CASE healthy[checking] /\ ~ok
        BY <1>7, <2>1, <2>2, SameMethods DEF EndCheck, Circuit!Next, Circuit!HealthFailure, Running
    <2>3. CASE ~(healthy[checking] /\ ~ok)
        BY <1>7, <2>1, <2>3 DEF EndCheck
    <2>4. QED
        BY <2>2, <2>3
<1>8. CASE ResetCircuit
    BY <1>8, SameMethods DEF ResetCircuit, Circuit!Next, Circuit!Reset, Running
<1>9. CASE Tick
    BY <1>9, SameMethods DEF Tick, Circuit!Next, Circuit!Tick, Running
<1>10. ASSUME NEW i \in Instances, BeginCheck(i) \/ Register(i) \/ Deregister(i)
       PROVE  UNCHANGED <<breaker, Running>>
    BY <1>10 DEF BeginCheck, Register, Deregister, Running
<1>11. CASE UNCHANGED vars
    BY <1>11 DEF vars, Running
<1>12. QED
    BY <1>1, <1>3, <1>4, <1>5, <1>6, <1>7, <1>8, <1>9, <1>10, <1>11 DEF Next

\* Whatever requests, health checks and operators do, the breaker goes only
\* through the steps of CircuitBreaker, with the requests that await an answer
\* as its callers.
THEOREM ClientRefinesBreaker == Spec => ImplementsBreaker
<1>1. Init => Circuit!Init
    BY SameMethods DEF Init, Circuit!Init, Ended
<1>2. QED
    BY <1>1, InitTypeInv, TypeNext, StepRefines, PTL DEF Spec, ImplementsBreaker, Circuit!Spec

-----------------------------------------------------------------------------
\* The registry: its lists and the index, whose ids are natural numbers.
Entry == [id : Nat, url : Urls]

Indexed ==
  /\ registry \in [Services -> Seq(Entry)]
  /\ index \in [Services -> SUBSET (Nat \X Urls)]
  /\ Registry!TrackedIsRegistered

Tracked(list, entries) ==
  \A e \in entries : \E j \in DOMAIN list : list[j] = [id |-> e[1], url |-> e[2]]

\* An appended instance replaces its id in the index; the others stay where they were.
LEMMA RegisteringKeepsTracked ==
  ASSUME NEW list \in Seq(Entry), NEW entries \in SUBSET (Nat \X Urls), Tracked(list, entries),
         NEW n \in Nat, NEW url \in Urls
  PROVE  /\ Append(list, [id |-> n, url |-> url]) \in Seq(Entry)
         /\ Tracked(Append(list, [id |-> n, url |-> url]),
                    {e \in entries : e[1] # n} \cup {<<n, url>>})
<1> DEFINE longer == Append(list, [id |-> n, url |-> url])
<1>1. /\ [id |-> n, url |-> url] \in Entry
      /\ Len(list) \in Nat /\ DOMAIN list = 1..Len(list)
    BY DEF Entry
<1>2. /\ longer \in Seq(Entry)
      /\ DOMAIN longer = 1..Len(list) + 1
      /\ \A j \in 1..Len(list) : longer[j] = list[j]
      /\ longer[Len(list) + 1] = [id |-> n, url |-> url]
    BY <1>1
<1>3. ASSUME NEW e \in entries PROVE \E j \in DOMAIN longer : longer[j] = [id |-> e[1], url |-> e[2]]
    BY <1>1, <1>2, <1>3 DEF Tracked
<1>4. \E j \in DOMAIN longer : longer[j] = [id |-> <<n, url>>[1], url |-> <<n, url>>[2]]
    BY <1>1, <1>2
<1> HIDE DEF longer
<1>5. Tracked(longer, {e \in entries : e[1] # n} \cup {<<n, url>>})
    BY <1>3, <1>4 DEF Tracked
<1>6. QED
    BY <1>2, <1>5 DEF longer

\* With an instance its id leaves the index, so what remains there is another one's.
LEMMA DroppingKeepsTracked ==
  ASSUME NEW list \in Seq(Entry), NEW entries \in SUBSET (Nat \X Urls), Tracked(list, entries),
         NEW j \in DOMAIN list
  PROVE  /\ Registry!RemoveAt(list, j) \in Seq(Entry)
         /\ Tracked(Registry!RemoveAt(list, j), {e \in entries : e[1] # list[j].id})
<1> DEFINE shorter == Registry!RemoveAt(list, j)
<1>1. Len(list) \in Nat /\ DOMAIN list = 1..Len(list) /\ j \in 1..Len(list)
    OBVIOUS
<1>2. /\ SubSeq(list, 1, j - 1) \in Seq(Entry) /\ Len(SubSeq(list, 1, j - 1)) = j - 1
      /\ SubSeq(list, j + 1, Len(list)) \in Seq(Entry)
      /\ Len(SubSeq(list, j + 1, Len(list))) = Len(list) - j
    BY <1>1
<1>3. /\ shorter \in Seq(Entry)
      /\ DOMAIN shorter = 1..Len(list) - 1
      /\ \A k \in 1..j - 1 : shorter[k] = list[k]
      /\ \A k \in j..Len(list) - 1 : shorter[k] = list[k + 1]
    <2> DEFINE before == SubSeq(list, 1, j - 1)
               after  == SubSeq(list, j + 1, Len(list))
    <2>1. /\ \A k \in 1..j - 1 : before[k] = list[k]
          /\ \A k \in 1..Len(list) - j : after[k] = list[k + j]
        BY <1>1
    <2>2. shorter = before \o after
        BY DEF Registry!RemoveAt
    <2>3. /\ before \in Seq(Entry) /\ Len(before) = j - 1
          /\ after \in Seq(Entry) /\ Len(after) = Len(list) - j
        BY <1>2
    <2> HIDE DEF before, after, shorter
    <2>4. /\ shorter \in Seq(Entry) /\ Len(shorter) = Len(before) + Len(after)
          /\ \A k \in 1..Len(before) + Len(after) :
                shorter[k] = IF k <= Len(before) THEN before[k] ELSE after[k - Len(before)]
        BY <2>2, <2>3, ConcatProperties
    <2>5. /\ Len(shorter) = Len(list) - 1
          /\ \A k \in 1..j - 1 : shorter[k] = before[k]
          /\ \A k \in j..Len(list) - 1 : shorter[k] = after[k - (j - 1)]
        BY <1>1, <2>3, <2>4
    <2>6. DOMAIN shorter = 1..Len(list) - 1
        BY <2>4, <2>5
    <2>7. \A k \in j..Len(list) - 1 : shorter[k] = list[k + 1]
        <3> SUFFICES ASSUME NEW k \in j..Len(list) - 1 PROVE shorter[k] = list[k + 1]
            OBVIOUS
        <3>1. k - (j - 1) \in 1..Len(list) - j /\ (k - (j - 1)) + j = k + 1
            BY <1>1
        <3>2. QED
            BY <2>1, <2>5, <3>1
    <2>8. QED
        BY <2>1, <2>4, <2>5, <2>6, <2>7
<1> HIDE DEF shorter
<1>4. ASSUME NEW e \in entries, e[1] # list[j].id
      PROVE  \E k \in DOMAIN shorter : shorter[k] = [id |-> e[1], url |-> e[2]]
    <2>1. PICK k \in 1..Len(list) : list[k] = [id |-> e[1], url |-> e[2]]
        BY <1>1 DEF Tracked
    <2>2. k # j
        BY <1>4, <2>1
    <2>3. CASE k < j
        BY <1>1, <1>3, <2>1, <2>3
    <2>4. CASE k > j
        <3>1. k - 1 \in j..Len(list) - 1 /\ (k - 1) + 1 = k
            BY <1>1, <2>4
        <3>2. k - 1 \in DOMAIN shorter /\ shorter[k - 1] = list[k]
            BY <1>1, <1>3, <3>1
        <3>3. QED
            BY <2>1, <3>2
    <2>5. QED
        BY <1>1, <2>2, <2>3, <2>4
<1>5. QED
    BY <1>3, <1>4 DEF Tracked, shorter

LEMMA IndexedInit == Registry!Init => Indexed
<1> SUFFICES ASSUME NEW url0 \in [Services -> Urls],
                    registry = [s \in Services |-> IF s \in Registry!ToSet(Configured)
                                 THEN <<[id |-> 1, url |-> url0[s]]>> ELSE <<>>],
                    index = [s \in Services |-> IF s \in Registry!ToSet(Configured)
                              THEN {<<1, url0[s]>>} ELSE {}]
             PROVE  Indexed
    BY DEF Registry!Init
<1>1. ASSUME NEW s \in Services
      PROVE  /\ registry[s] \in Seq(Entry)
             /\ index[s] \subseteq Nat \X Urls
             /\ \A e \in index[s] :
                  \E j \in DOMAIN registry[s] : registry[s][j] = [id |-> e[1], url |-> e[2]]
    <2>1. CASE s \in Registry!ToSet(Configured)
        <3>1. registry[s] = <<[id |-> 1, url |-> url0[s]]>> /\ index[s] = {<<1, url0[s]>>}
            BY <2>1
        <3>2. url0[s] \in Urls /\ [id |-> 1, url |-> url0[s]] \in Entry
            BY DEF Entry
        <3>3. 1 \in DOMAIN registry[s] /\ registry[s][1] = [id |-> 1, url |-> url0[s]]
            BY <3>1
        <3>4. registry[s] \in Seq(Entry)
            BY <3>1, <3>2
        <3>5. QED
            BY <3>1, <3>2, <3>3, <3>4
    <2>2. CASE s \notin Registry!ToSet(Configured)
        BY <2>2
    <2>3. QED
        BY <2>1, <2>2
<1>2. QED
    BY <1>1 DEF Indexed, Registry!TrackedIsRegistered

LEMMA IndexedNext == Indexed /\ [Registry!Next]_(Registry!vars) => Indexed'
<1> SUFFICES ASSUME Indexed, [Registry!Next]_(Registry!vars) PROVE Indexed'
    OBVIOUS
<1>1. ASSUME NEW s \in Services
      PROVE  registry[s] \in Seq(Entry) /\ index[s] \in SUBSET (Nat \X Urls) /\ Tracked(registry[s], index[s])
    BY DEF Indexed, Registry!TrackedIsRegistered, Tracked
<1>2. ASSUME NEW s \in Services, NEW list \in Seq(Entry), NEW entries \in SUBSET (Nat \X Urls),
             Tracked(list, entries),
             registry' = [registry EXCEPT ![s] = list], index' = [index EXCEPT ![s] = entries]
      PROVE  Indexed'
    <2>1. /\ registry' \in [Services -> Seq(Entry)] /\ index' \in [Services -> SUBSET (Nat \X Urls)]
          /\ registry'[s] = list /\ index'[s] = entries
          /\ \A t \in Services \ {s} : registry'[t] = registry[t] /\ index'[t] = index[t]
        BY <1>2 DEF Indexed
    <2>2. ASSUME NEW t \in Services PROVE Tracked(registry'[t], index'[t])
        BY <1>1, <1>2, <2>1
    <2>3. QED
        BY <2>1, <2>2 DEF Indexed, Registry!TrackedIsRegistered, Tracked
<1>3. ASSUME UNCHANGED <<registry, index>> PROVE Indexed'
    BY <1>3 DEF Indexed, Registry!TrackedIsRegistered
<1>4. ASSUME NEW s \in Services, NEW url \in Urls, Registry!Register(s, url) PROVE Indexed'
    <2>1. CASE Registry!Holds(s, url)
        BY <1>3, <1>4, <2>1 DEF Registry!Register
    <2>2. CASE ~Registry!Holds(s, url)
        <3>1. Registry!NextId(s) \in Nat
            BY <1>1 DEF Registry!NextId
        <3> DEFINE list == Append(registry[s], [id |-> Registry!NextId(s), url |-> url])
                   entries == {e \in index[s] : e[1] # Registry!NextId(s)}
                                \cup {<<Registry!NextId(s), url>>}
        <3>2. list \in Seq(Entry) /\ Tracked(list, entries)
            BY <1>1, <3>1, RegisteringKeepsTracked
        <3>3. entries \in SUBSET (Nat \X Urls)
            BY <1>1, <3>1
        <3>4. registry' = [registry EXCEPT ![s] = list] /\ index' = [index EXCEPT ![s] = entries]
            BY <1>4, <2>2 DEF Registry!Register, Indexed
        <3> HIDE DEF list, entries
        <3>5. QED
            BY <1>2, <3>2, <3>3, <3>4
    <2>3. QED
        BY <2>1, <2>2
<1>5. ASSUME NEW s \in Services, NEW url \in Urls, Registry!Deregister(s, url) PROVE Indexed'
    <2>1. PICK j \in DOMAIN registry[s] : Registry!Drop(s, j)
        BY <1>5 DEF Registry!Deregister
    <2> DEFINE list == Registry!RemoveAt(registry[s], j)
               entries == {e \in index[s] : e[1] # registry[s][j].id}
    <2>2. list \in Seq(Entry) /\ Tracked(list, entries)
        BY <1>1, DroppingKeepsTracked
    <2>3. entries \in SUBSET (Nat \X Urls)
        BY <1>1
    <2>4. registry' = [registry EXCEPT ![s] = list] /\ index' = [index EXCEPT ![s] = entries]
        BY <2>1 DEF Registry!Drop, Indexed
    <2> HIDE DEF list, entries
    <2>5. QED
        BY <1>2, <2>2, <2>3, <2>4
<1>6. QED
    BY <1>3, <1>4, <1>5
    DEF Registry!Next, Registry!vars, Registry!BeginPass, Registry!Probed

\* For any services and URLs: no instance that was deregistered stays in the health
\* index, although the ids of instances that are gone are given again
\* (register_service, deregister_service).
THEOREM RegistryTracks == Registry!Spec => []Registry!TrackedIsRegistered
<1>1. Indexed => Registry!TrackedIsRegistered
    BY DEF Indexed
<1>2. QED
    BY <1>1, IndexedInit, IndexedNext, PTL DEF Registry!Spec

-----------------------------------------------------------------------------
\* The balancer.  A finite set of numbers has a list in order: every element stands at the number
\* of elements that are not above it.
LEMMA OrderExists ==
  ASSUME NEW S \in SUBSET Nat, IsFiniteSet(S)
  PROVE  \E list \in [1..Cardinality(S) -> S] :
           \A j, k \in 1..Cardinality(S) : j < k => list[j] < list[k]
<1> DEFINE n == Cardinality(S)
           UpTo(i) == {j \in S : j <= i}
           place == [i \in S |-> Cardinality(UpTo(i))]
           list == [k \in 1..n |-> CHOOSE i \in S : place[i] = k]
<1>1. n \in Nat /\ IsFiniteSet(1..n) /\ Cardinality(1..n) = n
    BY FS_CardinalityType, FS_Interval
<1>2. ASSUME NEW i \in S PROVE IsFiniteSet(UpTo(i)) /\ Cardinality(UpTo(i)) \in 1..n
    <2>1. UpTo(i) \in SUBSET S /\ i \in UpTo(i)
        OBVIOUS
    <2>2. IsFiniteSet(UpTo(i)) /\ Cardinality(UpTo(i)) <= n /\ Cardinality(UpTo(i)) \in Nat
        BY <2>1, FS_Subset, FS_CardinalityType
    <2>3. Cardinality(UpTo(i)) # 0
        BY <2>1, <2>2, FS_EmptySet
    <2>4. QED
        BY <1>1, <2>2, <2>3
<1>3. ASSUME NEW i \in S, NEW j \in S, i < j PROVE place[i] < place[j]
    <2>1. i \in Nat /\ j \in Nat
        OBVIOUS
    <2>2. UpTo(i) \in SUBSET UpTo(j)
        <3> SUFFICES ASSUME NEW k \in S, k <= i PROVE k <= j
            OBVIOUS
        <3>1. k \in Nat
            OBVIOUS
        <3>2. QED
            BY <1>3, <2>1, <3>1
    <2>3. j \in UpTo(j) /\ j \notin UpTo(i)
        BY <1>3, <2>1
    <2> HIDE DEF UpTo
    <2>4. IsFiniteSet(UpTo(j)) /\ Cardinality(UpTo(i)) \in Nat /\ Cardinality(UpTo(j)) \in Nat
        <3>1. IsFiniteSet(UpTo(j)) /\ Cardinality(UpTo(i)) \in 1..n /\ Cardinality(UpTo(j)) \in 1..n
            BY <1>2
        <3> HIDE DEF n
        <3>2. QED
            BY <1>1, <3>1
    <2>5. Cardinality(UpTo(i)) < Cardinality(UpTo(j))
        BY <2>2, <2>3, <2>4, FS_Subset
    <2>6. QED
        BY <2>5
<1> HIDE DEF n, UpTo
<1>4. place \in [S -> 1..n]
    BY <1>2
<1>5. place \in Injection(S, 1..n)
    <2>1. ASSUME NEW i \in S, NEW j \in S, i # j PROVE place[i] # place[j]
        <3>1. i \in Nat /\ j \in Nat
            OBVIOUS
        <3>2. place[i] \in Nat /\ place[j] \in Nat
            BY <1>1, <1>4
        <3> HIDE DEF place
        <3>3. CASE i < j
            BY <1>3, <3>2, <3>3
        <3>4. CASE j < i
            BY <1>3, <3>2, <3>4
        <3>5. QED
            BY <2>1, <3>1, <3>3, <3>4
    <2> HIDE DEF place
    <2>2. QED
        BY <1>4, <2>1 DEF Injection, IsInjective
<1>6. place \in Surjection(S, 1..n)
    BY <1>1, <1>5, FS_Injection DEF n
<1>7. ASSUME NEW k \in 1..n PROVE list[k] \in S /\ place[list[k]] = k
    <2> HIDE DEF place
    <2>1. \E i \in S : place[i] = k
        BY <1>6 DEF Surjection
    <2>2. QED
        BY <2>1
<1>8. ASSUME NEW j \in 1..n, NEW k \in 1..n, j < k PROVE list[j] < list[k]
    <2>1. list[j] \in S /\ list[k] \in S /\ place[list[j]] = j /\ place[list[k]] = k
        BY <1>7
    <2>2. list[j] \in Nat /\ list[k] \in Nat
        BY <2>1
    <2>3. j \in Nat /\ k \in Nat
        BY <1>1
    <2> HIDE DEF list, place
    <2>4. list[j] # list[k]
        BY <1>8, <2>1, <2>3
    <2>5. ~(list[k] < list[j])
        <3>1. list[k] < list[j] => place[list[k]] < place[list[j]]
            BY <1>3, <2>1
        <3>2. QED
            BY <1>8, <2>1, <2>3, <3>1
    <2>6. QED
        BY <2>2, <2>4, <2>5
<1>9. list \in [1..n -> S]
    BY <1>7
<1> HIDE DEF list
<1>10. QED
    BY <1>8, <1>9 DEF n

LEMMA SameCardinality == \A S : Balancer!Cardinality(S) = Cardinality(S)
BY DEF Balancer!Cardinality, Cardinality

\* The list of the healthy instances has each of them once.
LEMMA ListsEach ==
  ASSUME NEW S \in SUBSET Nat, IsFiniteSet(S)
  PROVE  /\ Cardinality(S) \in Nat
         /\ Balancer!InOrder(S) \in Seq(S)
         /\ Len(Balancer!InOrder(S)) = Cardinality(S)
         /\ Balancer!InOrder(S) \in [1..Cardinality(S) -> S]
         /\ \A j, k \in 1..Cardinality(S) : j < k => Balancer!InOrder(S)[j] < Balancer!InOrder(S)[k]
         /\ \A j, k \in 1..Cardinality(S) : Balancer!InOrder(S)[j] = Balancer!InOrder(S)[k] => j = k
         /\ \A i \in S : \E k \in 1..Cardinality(S) : Balancer!InOrder(S)[k] = i
<1> DEFINE n == Cardinality(S)
           list == Balancer!InOrder(S)
<1>1. n \in Nat /\ IsFiniteSet(1..n) /\ Cardinality(1..n) = n
    BY FS_CardinalityType, FS_Interval
<1>2. /\ list \in [1..n -> S]
      /\ \A j, k \in 1..n : j < k => list[j] < list[k]
    <2> DEFINE InOrder(l) == \A j, k \in 1..n : j < k => l[j] < l[k]
    <2>1. \E l \in [1..n -> S] : InOrder(l)
        BY OrderExists
    <2>2. list = CHOOSE l \in [1..n -> S] : InOrder(l)
        BY SameCardinality DEF Balancer!InOrder
    <2> HIDE DEF n, list, InOrder
    <2>3. list \in [1..n -> S] /\ InOrder(list)
        BY <2>1, <2>2
    <2>4. QED
        BY <2>3 DEF InOrder
<1> HIDE DEF n, list
<1>3. ASSUME NEW j \in 1..n, NEW k \in 1..n, list[j] = list[k] PROVE j = k
    <2>1. list[j] \in S /\ list[k] \in S
        BY <1>2
    <2>2. list[j] \in Nat /\ list[k] \in Nat
        BY <2>1
    <2>3. j \in Nat /\ k \in Nat
        BY <1>1
    <2>4. QED
        BY <1>2, <1>3, <2>2, <2>3
<1>4. list \in Injection(1..n, S)
    BY <1>2, <1>3 DEF Injection, IsInjective
<1>5. list \in Surjection(1..n, S)
    BY <1>1, <1>4, FS_Injection DEF n
<1>6. \A i \in S : \E k \in 1..n : list[k] = i
    BY <1>5 DEF Surjection
<1>7. list \in Seq(S) /\ Len(list) = n
    BY <1>1, <1>2
<1>8. QED
    BY <1>1, <1>2, <1>3, <1>6, <1>7 DEF n, list

-----------------------------------------------------------------------------
LEMMA CursorTurns ==
  ASSUME NEW n \in Nat \ {0}, NEW c \in Nat
  PROVE  /\ c % n \in 0..n - 1
         /\ (c + 1) % n = IF (c % n) + 1 = n THEN 0 ELSE (c % n) + 1
         /\ (c % n) % n = c % n
<1> DEFINE d == c \div n
           m == c % n
<1>1. d \in Int /\ m \in 0..n - 1 /\ c = n * d + m
    OBVIOUS
<1> HIDE DEF d, m
<1>2. ASSUME NEW a \in Int, NEW b \in 0..n - 1 PROVE (n * a + b) % n = b
    OBVIOUS
<1>3. m % n = m
    <2>1. n * 0 + m = m
        BY <1>1
    <2>2. QED
        BY <1>1, <1>2, <2>1
<1>4. CASE m + 1 = n
    <2>1. c + 1 = n * (d + 1) + 0 /\ d + 1 \in Int /\ 0 \in 0..n - 1
        BY <1>1, <1>4
    <2>2. (c + 1) % n = 0
        BY <1>2, <2>1
    <2>3. QED
        BY <1>1, <1>3, <1>4, <2>2 DEF m
<1>5. CASE m + 1 # n
    <2>1. c + 1 = n * d + (m + 1) /\ m + 1 \in 0..n - 1
        BY <1>1, <1>5
    <2>2. (c + 1) % n = m + 1
        BY <1>1, <1>2, <2>1
    <2>3. QED
        BY <1>1, <1>3, <1>5, <2>2 DEF m
<1>6. QED
    BY <1>4, <1>5

\* In the list of n, the k-th instance has had its next turn when the turns went from
\* behind position from on to position to.
Turned(from, k, to) == IF from <= to THEN from < k /\ k <= to ELSE from < k \/ k <= to

\* Everyone of S was picked q times since the count began, and once more if the turn
\* under way, which began where the cursor then stood, has come to it.
InTurn(S, count, cursor) ==
  LET n == Cardinality(S)
  IN  \E q \in Nat, from \in 0..n - 1 : \A k \in 1..n :
        count[Balancer!InOrder(S)[k]] = IF Turned(from, k, cursor % n) THEN q + 1 ELSE q

LEMMA FreshInTurn ==
  ASSUME NEW S \in SUBSET Nat, IsFiniteSet(S), S # {}, NEW count, \A i \in S : count[i] = 0,
         NEW cursor \in Nat
  PROVE  InTurn(S, count, cursor)
<1> DEFINE n == Cardinality(S)
           list == Balancer!InOrder(S)
<1>1. n \in Nat \ {0} /\ list \in [1..n -> S]
    BY ListsEach, FS_EmptySet
<1> HIDE DEF n, list
<1>2. cursor % n \in 0..n - 1
    BY <1>1, CursorTurns
<1>3. ASSUME NEW k \in 1..n PROVE count[list[k]] = 0 /\ ~Turned(cursor % n, k, cursor % n)
    <2>1. list[k] \in S
        BY <1>1
    <2>2. ASSUME NEW to \in 0..n - 1 PROVE ~Turned(to, k, to)
        BY <1>1 DEF Turned
    <2>3. QED
        BY <1>2, <2>1, <2>2
<1>4. QED
    BY <1>2, <1>3 DEF InTurn, n, list

LEMMA PickKeepsTurn ==
  ASSUME NEW S \in SUBSET Nat, IsFiniteSet(S), S # {}, NEW I, S \subseteq I,
         NEW count \in [I -> Nat], NEW cursor \in Nat, InTurn(S, count, cursor)
  PROVE  LET n == Cardinality(S)
             i == Balancer!InOrder(S)[(cursor % n) + 1]
         IN  i \in S /\ InTurn(S, [count EXCEPT ![i] = @ + 1], (cursor + 1) % n)
<1> DEFINE n == Cardinality(S)
           list == Balancer!InOrder(S)
           at == (cursor % n) + 1
           then == (cursor + 1) % n
           after == [count EXCEPT ![list[at]] = @ + 1]
<1>1. /\ n \in Nat \ {0} /\ list \in [1..n -> S]
      /\ \A j, k \in 1..n : list[j] = list[k] => j = k
    BY ListsEach, FS_EmptySet
<1>2. PICK q \in Nat, from \in 0..n - 1 : \A k \in 1..n :
        count[list[k]] = IF Turned(from, k, cursor % n) THEN q + 1 ELSE q
    BY DEF InTurn
<1> HIDE DEF n, list
<1>3. /\ at \in 1..n /\ cursor % n = at - 1
      /\ then = (IF at = n THEN 0 ELSE at) /\ then \in 0..n - 1 /\ then % n = then
    <2>1. /\ cursor % n \in 0..n - 1
          /\ then = IF (cursor % n) + 1 = n THEN 0 ELSE (cursor % n) + 1
        BY <1>1, CursorTurns
    <2>2. cursor + 1 \in Nat
        OBVIOUS
    <2>3. then % n = then
        BY <1>1, <2>2, CursorTurns
    <2>4. QED
        BY <1>1, <2>1, <2>3
<1> HIDE DEF at, then
<1>4. list[at] \in S /\ list[at] \in I
    BY <1>1, <1>3
<1>5. ASSUME NEW k \in 1..n
      PROVE  after[list[k]] = IF k = at THEN count[list[k]] + 1 ELSE count[list[k]]
    BY <1>1, <1>3, <1>4
<1> HIDE DEF after
<1>6. CASE from = then
    \* The turn is over.
    <2>1. ASSUME NEW k \in 1..n
          PROVE  after[list[k]] = q + 1 /\ ~Turned(then, k, then)
        BY <1>1, <1>2, <1>3, <1>5, <1>6 DEF Turned
    <2>2. q + 1 \in Nat
        OBVIOUS
    <2>3. \A k \in 1..n : after[list[k]] = IF Turned(then, k, then % n) THEN (q + 1) + 1 ELSE q + 1
        BY <1>3, <2>1
    <2>4. InTurn(S, after, then)
        BY <1>3, <2>2, <2>3 DEF InTurn, n, list
    <2>5. QED
        BY <1>4, <2>4 DEF n, list, at, then, after
<1>7. CASE from # then
    <2>1. ASSUME NEW k \in 1..n
          PROVE  after[list[k]] = IF Turned(from, k, then) THEN q + 1 ELSE q
        BY <1>1, <1>2, <1>3, <1>5, <1>7 DEF Turned
    <2>2. \A k \in 1..n : after[list[k]] = IF Turned(from, k, then % n) THEN q + 1 ELSE q
        BY <1>3, <2>1
    <2>3. InTurn(S, after, then)
        BY <2>2 DEF InTurn, n, list
    <2>4. QED
        BY <1>4, <2>3 DEF n, list, at, then, after
<1>8. QED
    BY <1>6, <1>7

LEMMA TurnIsEven ==
  ASSUME NEW S \in SUBSET Nat, IsFiniteSet(S), NEW count, NEW cursor, InTurn(S, count, cursor)
  PROVE  \A i, j \in S : count[i] - count[j] <= 1
<1> SUFFICES ASSUME NEW i \in S, NEW j \in S PROVE count[i] - count[j] <= 1
    OBVIOUS
<1>1. PICK q \in Nat, from \in 0..Cardinality(S) - 1 : \A k \in 1..Cardinality(S) :
        count[Balancer!InOrder(S)[k]] = IF Turned(from, k, cursor % Cardinality(S)) THEN q + 1 ELSE q
    BY DEF InTurn
<1>2. \A x \in S : \E k \in 1..Cardinality(S) : Balancer!InOrder(S)[k] = x
    BY ListsEach
<1>3. \A x \in S : count[x] = q \/ count[x] = q + 1
    BY <1>1, <1>2
<1>4. QED
    BY <1>3

-----------------------------------------------------------------------------
Strategies == {"round_robin", "weighted_round_robin"}

Turning ==
  /\ strategy \in [Services -> Strategies]
  /\ current \in Nat
  /\ up \in [Services -> SUBSET Balancer!Instances]
  /\ picks \in [Services -> [Balancer!Instances -> Nat]]
  /\ \A s \in Services :
       strategy[s] = "round_robin" /\ up[s] # {} => InTurn(up[s], picks[s], current)

LEMMA ListIsFinite ==
  ASSUME Size \in Nat, NEW S \in SUBSET Balancer!Instances
  PROVE  S \in SUBSET Nat /\ IsFiniteSet(S)
<1>1. Balancer!Instances = 1..Size
    BY DEF Balancer!Instances
<1>2. IsFiniteSet(1..Size)
    BY FS_Interval
<1>3. S \in SUBSET (1..Size)
    BY <1>1
<1>4. S \in SUBSET Nat
    BY <1>3
<1>5. QED
    BY <1>2, <1>3, <1>4, FS_Subset

LEMMA UnpickedInTurn ==
  ASSUME Size \in Nat, NEW S \in SUBSET Balancer!Instances, S # {}, NEW c \in Nat
  PROVE  InTurn(S, Balancer!Unpicked, c)
<1>1. \A i \in S : Balancer!Unpicked[i] = 0
    BY DEF Balancer!Unpicked
<1>2. QED
    BY <1>1, ListIsFinite, FreshInTurn

LEMMA TurningInit == ASSUME Size \in Nat, Balancer!Init PROVE Turning
<1>1. /\ strategy \in [Services -> Strategies] /\ current = 0
      /\ up \in [Services -> SUBSET Balancer!Instances]
      /\ picks \in [Services -> [Balancer!Instances -> Nat]]
      /\ \A s \in Services : picks[s] = Balancer!Unpicked
    BY DEF Balancer!Init, Balancer!Unpicked, Strategies
<1>2. ASSUME NEW s \in Services, up[s] # {} PROVE InTurn(up[s], picks[s], current)
    BY <1>1, <1>2, UnpickedInTurn
<1>3. QED
    BY <1>1, <1>2 DEF Turning

\* A list that changes, or a strategy, has its count begin again.
LEMMA ChangeKeepsTurning ==
  ASSUME Size \in Nat, Turning, NEW s \in Services,
         picks' = [picks EXCEPT ![s] = Balancer!Unpicked], UNCHANGED current,
         strategy' \in [Services -> Strategies], up' \in [Services -> SUBSET Balancer!Instances],
         \A r \in Services \ {s} : strategy'[r] = strategy[r] /\ up'[r] = up[r]
  PROVE  Turning'
<1>1. Balancer!Unpicked \in [Balancer!Instances -> Nat]
    BY DEF Balancer!Unpicked
<1>2. /\ picks' \in [Services -> [Balancer!Instances -> Nat]] /\ current' \in Nat
      /\ picks'[s] = Balancer!Unpicked
      /\ \A r \in Services \ {s} : picks'[r] = picks[r]
    BY <1>1 DEF Turning
<1>3. ASSUME NEW r \in Services, strategy'[r] = "round_robin", up'[r] # {}
      PROVE  InTurn(up'[r], picks'[r], current')
    <2>1. CASE r = s
        <3>1. up'[s] \in SUBSET Balancer!Instances
            OBVIOUS
        <3>2. QED
            BY <1>2, <1>3, <2>1, <3>1, UnpickedInTurn
    <2>2. CASE r # s
        BY <1>2, <1>3, <2>2 DEF Turning
    <2>3. QED
        BY <2>1, <2>2
<1>4. QED
    BY <1>2, <1>3 DEF Turning

LEMMA CountingIsTyped ==
  ASSUME NEW I, NEW count \in [I -> Nat], NEW i
  PROVE  [count EXCEPT ![i] = @ + 1] \in [I -> Nat]
<1>1. ASSUME NEW j \in I PROVE [count EXCEPT ![i] = @ + 1][j] \in Nat
    <2>1. count[j] \in Nat
        OBVIOUS
    <2>2. [count EXCEPT ![i] = @ + 1][j] = IF j = i THEN count[j] + 1 ELSE count[j]
        OBVIOUS
    <2>3. QED
        BY <2>1, <2>2
<1>2. QED
    BY <1>1

\* A pick moves the cursor under all services of its strategy; their counts begin again.
LEMMA RoundRobinKeepsTurning ==
  ASSUME Size \in Nat, Turning, NEW s \in Services, up[s] # {}, strategy[s] = "round_robin",
         Balancer!SelectRoundRobin(s), UNCHANGED <<strategy, up>>
  PROVE  Turning'
<1> DEFINE n == Cardinality(up[s])
           i == Balancer!InOrder(up[s])[(current % n) + 1]
<1>1. up[s] \in SUBSET Balancer!Instances /\ up[s] \in SUBSET Nat /\ IsFiniteSet(up[s])
    BY ListIsFinite DEF Turning
<1>2. /\ Balancer!HealthyInstances(s) = Balancer!InOrder(up[s])
      /\ Len(Balancer!HealthyInstances(s)) = n /\ n \in Nat \ {0}
    BY <1>1, ListsEach, FS_EmptySet DEF Balancer!HealthyInstances
<1>3. /\ Balancer!Pick(s, i)
      /\ current' = (current + 1) % n
    BY <1>2 DEF Balancer!SelectRoundRobin
<1>4. /\ picks[s] \in [Balancer!Instances -> Nat] /\ current \in Nat
      /\ InTurn(up[s], picks[s], current)
    BY DEF Turning
<1>5. i \in up[s] /\ InTurn(up[s], [picks[s] EXCEPT ![i] = @ + 1], current')
    BY <1>1, <1>3, <1>4, PickKeepsTurn
<1>6. current' \in Nat
    <2>1. current + 1 \in Nat
        BY <1>4
    <2> HIDE DEF n
    <2>2. (current + 1) % n \in 0..n - 1
        BY <1>2, <2>1, CursorTurns
    <2>3. QED
        BY <1>2, <1>3, <2>2
<1> HIDE DEF i
<1>7. /\ picks'[s] = [picks[s] EXCEPT ![i] = @ + 1]
      /\ \A r \in Services \ {s} :
           picks'[r] = IF strategy[r] = strategy[s] THEN Balancer!Unpicked ELSE picks[r]
    BY <1>3 DEF Balancer!Pick
<1>8. picks' \in [Services -> [Balancer!Instances -> Nat]]
    <2>1. [picks[s] EXCEPT ![i] = @ + 1] \in [Balancer!Instances -> Nat]
        BY <1>4, CountingIsTyped
    <2>2. Balancer!Unpicked \in [Balancer!Instances -> Nat]
        BY DEF Balancer!Unpicked
    <2>3. ASSUME NEW r \in Services PROVE picks'[r] \in [Balancer!Instances -> Nat]
        BY <1>7, <2>1, <2>2 DEF Turning
    <2>4. picks' = [r \in Services |-> picks'[r]]
        BY <1>3 DEF Balancer!Pick
    <2>5. QED
        BY <2>3, <2>4
<1>9. ASSUME NEW r \in Services, strategy[r] = "round_robin", up[r] # {}
      PROVE  InTurn(up[r], picks'[r], current')
    <2>1. CASE r = s
        BY <1>5, <1>7, <2>1
    <2>2. CASE r # s
        <3>1. picks'[r] = Balancer!Unpicked /\ up[r] \in SUBSET Balancer!Instances
            BY <1>7, <1>9, <2>2 DEF Turning
        <3>2. QED
            BY <1>6, <1>9, <3>1, UnpickedInTurn
    <2>3. QED
        BY <2>1, <2>2
<1>10. QED
    BY <1>6, <1>8, <1>9 DEF Turning

LEMMA WeightedKeepsTurning ==
  ASSUME Size \in Nat, Turning, NEW s \in Services, strategy[s] # "round_robin",
         Balancer!SelectWeighted(s), UNCHANGED <<strategy, up>>
  PROVE  Turning'
<1>1. PICK i : Balancer!Pick(s, i) /\ UNCHANGED current
    BY DEF Balancer!SelectWeighted
<1>2. Balancer!Unpicked \in [Balancer!Instances -> Nat]
    BY DEF Balancer!Unpicked
<1>3. ASSUME NEW r \in Services
      PROVE  /\ picks'[r] \in [Balancer!Instances -> Nat]
             /\ strategy[r] = "round_robin" => picks'[r] = picks[r]
    <2>1. [picks[s] EXCEPT ![i] = @ + 1] \in [Balancer!Instances -> Nat]
        BY CountingIsTyped DEF Turning
    <2>2. picks'[r] = IF r = s THEN [picks[s] EXCEPT ![i] = @ + 1]
                      ELSE IF strategy[r] = strategy[s] THEN Balancer!Unpicked ELSE picks[r]
        BY <1>1 DEF Balancer!Pick
    <2>3. picks[r] \in [Balancer!Instances -> Nat]
        BY DEF Turning
    <2>4. QED
        BY <1>2, <2>1, <2>2, <2>3
<1>4. picks' = [r \in Services |-> picks'[r]]
    BY <1>1 DEF Balancer!Pick
<1>5. picks' \in [Services -> [Balancer!Instances -> Nat]]
    BY <1>3, <1>4
<1>6. QED
    BY <1>1, <1>3, <1>5 DEF Turning

LEMMA TurningNext ==
  ASSUME Size \in Nat, Turning, [Balancer!Next]_(Balancer!vars) PROVE Turning'
<1>1. CASE UNCHANGED Balancer!vars
    BY <1>1 DEF Balancer!vars, Turning
<1>2. ASSUME NEW s \in Services, Balancer!Select(s) PROVE Turning'
    BY <1>2, RoundRobinKeepsTurning, WeightedKeepsTurning DEF Balancer!Select
<1>3. ASSUME NEW s \in Services, NEW i \in Balancer!Instances, Balancer!ChangeHealth(s, i)
      PROVE  Turning'
    <2>1. /\ up' \in [Services -> SUBSET Balancer!Instances]
          /\ \A r \in Services \ {s} : up'[r] = up[r]
        BY <1>3 DEF Balancer!ChangeHealth, Turning
    <2>2. QED
        BY <1>3, <2>1, ChangeKeepsTurning DEF Balancer!ChangeHealth, Turning
<1>4. ASSUME NEW s \in Services, NEW to \in Strategies, Balancer!SetStrategy(s, to)
      PROVE  Turning'
    <2>1. /\ strategy' \in [Services -> Strategies]
          /\ \A r \in Services \ {s} : strategy'[r] = strategy[r]
        BY <1>4 DEF Balancer!SetStrategy, Turning
    <2>2. QED
        BY <1>4, <2>1, ChangeKeepsTurning DEF Balancer!SetStrategy, Turning
<1>5. QED
    BY <1>1, <1>2, <1>3, <1>4 DEF Balancer!Next, Strategies

\* For any services and any number of instances: over any number of selections in a
\* row from an unchanged list no instance is ahead of another by more than one,
\* wherever other services or a change of the list left the cursor that all services
\* share (RoundRobinBalancer.select).
THEOREM RoundRobinIsEven == Balancer!Spec => []Balancer!Evenly
<1>1. Turning => Balancer!Evenly
    <2> SUFFICES ASSUME Turning, NEW s \in Services, strategy[s] = "round_robin"
                 PROVE  \A i, j \in up[s] : picks[s][i] - picks[s][j] <= 1
        BY DEF Balancer!Evenly
    <2>1. CASE up[s] = {}
        BY <2>1
    <2>2. CASE up[s] # {}
        <3>1. up[s] \in SUBSET Balancer!Instances /\ InTurn(up[s], picks[s], current)
            BY <2>2 DEF Turning
        <3>2. QED
            BY SelectionAssumption, <3>1, ListIsFinite, TurnIsEven
    <2>3. QED
        BY <2>1, <2>2
<1>2. Balancer!Init => Turning
    BY SelectionAssumption, TurningInit
<1>3. Turning /\ [Balancer!Next]_(Balancer!vars) => Turning'
    BY SelectionAssumption, TurningNext
<1>4. QED
    BY <1>1, <1>2, <1>3, PTL DEF Balancer!Spec

-----------------------------------------------------------------------------
\* Sums: every x of a function has as many pairs as its value, and the size of a union of
\* columns is the sum of theirs.
LEMMA FirstNumbers ==
  ASSUME NEW k \in Nat
  PROVE  IsFiniteSet(1..k) /\ Cardinality(1..k) = k
<1>1. 1 \in Int /\ k \in Int
    OBVIOUS
<1>2. IsFiniteSet(1..k) /\ Cardinality(1..k) = IF 1 > k THEN 0 ELSE k - 1 + 1
    BY <1>1, FS_Interval
<1>3. QED
    BY <1>2

LEMMA OneColumn ==
  ASSUME NEW x, NEW k \in Nat
  PROVE  IsFiniteSet({x} \X (1..k)) /\ Cardinality({x} \X (1..k)) = k
<1>1. IsFiniteSet({x}) /\ Cardinality({x}) = 1
    BY FS_Singleton
<1>2. IsFiniteSet(1..k) /\ Cardinality(1..k) = k
    BY FirstNumbers
<1>3. /\ IsFiniteSet({x} \X (1..k))
      /\ Cardinality({x} \X (1..k)) = Cardinality({x}) * Cardinality(1..k)
    BY <1>1, <1>2, FS_Product
<1>4. Cardinality({x}) * Cardinality(1..k) = k
    BY <1>1, <1>2
<1>5. QED
    BY <1>3, <1>4

LEMMA TotalCounts == \A f : Balancer!Total(f) = Cardinality(Balancer!Pairs(f))
BY SameCardinality DEF Balancer!Total

LEMMA PairsOf ==
  ASSUME NEW D, NEW f \in [D -> Nat]
  PROVE  \A p : p \in Balancer!Pairs(f) <=> \E x \in D : \E u \in 1..f[x] : p = <<x, u>>
BY DEF Balancer!Pairs

LEMMA TotalType ==
  ASSUME NEW D, IsFiniteSet(D), NEW f \in [D -> Nat]
  PROVE  IsFiniteSet(Balancer!Pairs(f)) /\ Balancer!Total(f) \in Nat
<1> DEFINE column == [x \in D |-> {x} \X (1..f[x])]
           columns == {column[x] : x \in D}
<1>1. \A x \in D : IsFiniteSet(column[x])
    BY OneColumn
<1>2. column \in Surjection(D, columns)
    BY DEF Surjection
<1>3. IsFiniteSet(columns)
    BY <1>2, FS_Surjection
<1>4. Balancer!Pairs(f) = UNION columns
    BY DEF Balancer!Pairs
<1>5. IsFiniteSet(Balancer!Pairs(f))
    <2> HIDE DEF column
    <2>1. \A T \in columns : IsFiniteSet(T)
        BY <1>1
    <2> HIDE DEF columns
    <2>2. QED
        BY <1>3, <1>4, <2>1, FS_UNION
<1>6. QED
    BY <1>5, TotalCounts, FS_CardinalityType

LEMMA TotalOfNone ==
  ASSUME NEW D, NEW f \in [D -> Nat], \A x \in D : f[x] = 0
  PROVE  Balancer!Total(f) = 0
<1>1. Balancer!Pairs(f) = {}
    BY PairsOf
<1>2. QED
    BY <1>1, TotalCounts, FS_EmptySet

LEMMA TotalGrows ==
  ASSUME NEW D, IsFiniteSet(D), NEW f \in [D -> Nat], NEW i \in D
  PROVE  Balancer!Total([f EXCEPT ![i] = @ + 1]) = Balancer!Total(f) + 1
<1> DEFINE g == [f EXCEPT ![i] = @ + 1]
<1>1. /\ f[i] \in Nat /\ g \in [D -> Nat] /\ g[i] = f[i] + 1
      /\ \A x \in D \ {i} : g[x] = f[x]
    BY CountingIsTyped
<1> HIDE DEF g
<1>2. \A p : p \in Balancer!Pairs(g) <=> p \in Balancer!Pairs(f) \cup {<<i, f[i] + 1>>}
    <2>1. \A x \in D : \A u : u \in 1..g[x] <=> u \in 1..f[x] \/ (x = i /\ u = f[i] + 1)
        <3> SUFFICES ASSUME NEW x \in D, NEW u
                     PROVE  u \in 1..g[x] <=> u \in 1..f[x] \/ (x = i /\ u = f[i] + 1)
            OBVIOUS
        <3>1. CASE x = i
            BY <1>1, <3>1
        <3>2. CASE x # i
            BY <1>1, <3>2
        <3>3. QED
            BY <3>1, <3>2
    <2>2. QED
        BY <1>1, <2>1, PairsOf
<1>3. <<i, f[i] + 1>> \notin Balancer!Pairs(f)
    BY <1>1, PairsOf
<1>4. Balancer!Pairs(g) = Balancer!Pairs(f) \cup {<<i, f[i] + 1>>}
    BY <1>2
<1>5. IsFiniteSet(Balancer!Pairs(f))
    BY TotalType
<1>6. QED
    BY <1>3, <1>4, <1>5, FS_AddElement, TotalCounts DEF g

\* The sum of the first k weights of a list.
Sum(g, k) == Balancer!Total([j \in 1..k |-> g[j]])

LEMMA SumsAdd ==
  ASSUME NEW n \in Nat, NEW g \in [1..n -> Nat]
  PROVE  /\ \A k \in 0..n : Sum(g, k) \in Nat
         /\ Sum(g, 0) = 0
         /\ \A k \in 1..n : Sum(g, k) = Sum(g, k - 1) + g[k]
         /\ \A j, k \in 0..n : j <= k => Sum(g, j) <= Sum(g, k)
<1> DEFINE first(k) == [j \in 1..k |-> g[j]]
           pairs(k) == Balancer!Pairs(first(k))
<1>1. ASSUME NEW k \in 0..n
      PROVE  /\ IsFiniteSet(pairs(k))
             /\ Sum(g, k) = Cardinality(pairs(k)) /\ Sum(g, k) \in Nat
    <2>1. k \in Nat /\ 1 \in Int /\ first(k) \in [1..k -> Nat]
        OBVIOUS
    <2>2. IsFiniteSet(1..k)
        BY <2>1, FS_Interval
    <2>3. Sum(g, k) = Balancer!Total(first(k))
        BY DEF Sum
    <2> HIDE DEF first
    <2>4. QED
        BY <2>1, <2>2, <2>3, TotalType, TotalCounts
<1>2. ASSUME NEW k \in 0..n, NEW p
      PROVE  p \in pairs(k) <=> \E x \in 1..k : \E u \in 1..g[x] : p = <<x, u>>
    <2>1. first(k) \in [1..k -> Nat] /\ \A x \in 1..k : first(k)[x] = g[x]
        OBVIOUS
    <2> HIDE DEF first
    <2>2. p \in pairs(k) <=> \E x \in 1..k : \E u \in 1..first(k)[x] : p = <<x, u>>
        BY <2>1 DEF Balancer!Pairs
    <2>3. QED
        BY <2>1, <2>2
<1> HIDE DEF first, pairs
<1>3. Sum(g, 0) = 0
    <2>1. 0 \in 0..n /\ 1..0 = {}
        OBVIOUS
    <2>2. pairs(0) = {}
        BY <1>2, <2>1
    <2>3. QED
        BY <1>1, <2>1, <2>2, FS_EmptySet
<1>4. ASSUME NEW k \in 1..n PROVE Sum(g, k) = Sum(g, k - 1) + g[k]
    <2> DEFINE last == {k} \X (1..g[k])
    <2>1. /\ k - 1 \in 0..n /\ k \in 0..n /\ g[k] \in Nat /\ 1 \in Int
          /\ \A x : x \in 1..k <=> x \in 1..(k - 1) \/ x = k
          /\ k \notin 1..(k - 1)
        OBVIOUS
    <2>2. IsFiniteSet(last) /\ Cardinality(last) = g[k]
        BY <2>1, OneColumn
    <2>3. \A p : p \in last <=> \E u \in 1..g[k] : p = <<k, u>>
        OBVIOUS
    <2> HIDE DEF last
    <2>4. ASSUME NEW p PROVE p \in pairs(k) <=> p \in pairs(k - 1) \cup last
        BY <1>2, <2>1, <2>3
    <2>5. ASSUME NEW p PROVE ~(p \in pairs(k - 1) /\ p \in last)
        BY <1>2, <2>1, <2>3
    <2>6. pairs(k) = pairs(k - 1) \cup last /\ pairs(k - 1) \cap last = {}
        BY <2>4, <2>5
    <2>7. /\ IsFiniteSet(pairs(k - 1)) /\ Sum(g, k - 1) = Cardinality(pairs(k - 1))
          /\ Sum(g, k) = Cardinality(pairs(k)) /\ Sum(g, k - 1) \in Nat
        BY <1>1, <2>1
    <2>8. Cardinality(pairs(k - 1) \cup last)
            = Cardinality(pairs(k - 1)) + Cardinality(last) - Cardinality(pairs(k - 1) \cap last)
        BY <2>2, <2>7, FS_Union
    <2>9. Cardinality({}) = 0
        BY FS_EmptySet
    <2>10. Sum(g, k) = Sum(g, k - 1) + Cardinality(last) - 0
        BY <2>6, <2>7, <2>8, <2>9
    <2>11. QED
        BY <2>1, <2>2, <2>7, <2>10
<1>5. ASSUME NEW j \in 0..n, NEW k \in 0..n, j <= k PROVE Sum(g, j) <= Sum(g, k)
    <2>1. \A x : x \in 1..j => x \in 1..k
        BY <1>5
    <2>2. ASSUME NEW p \in pairs(j) PROVE p \in pairs(k)
        <3>1. \E x \in 1..j : \E u \in 1..g[x] : p = <<x, u>>
            BY <1>2
        <3>2. QED
            BY <1>2, <2>1, <3>1
    <2>3. pairs(j) \in SUBSET pairs(k)
        BY <2>2
    <2>4. QED
        BY <1>1, <2>3, FS_Subset
<1>6. QED
    BY <1>1, <1>3, <1>4, <1>5

\* What the first x picks of a turn give the k-th instance, when every turn gives
\* each instance its weight, one after the other.
Share(g, k, x) ==
  IF x <= Sum(g, k - 1) THEN 0 ELSE IF x <= Sum(g, k) THEN x - Sum(g, k - 1) ELSE g[k]

\* The k-th instance of the list was picked got[k] times, picked in all: as often as
\* q turns give it and the part of the turn up to the cursor c, without the part
\* before the position from at which the count began, and once more for the first
\* instance if the cursor had to be put back; before that, nothing was picked.
InProportion(g, n, got, picked, c) ==
  LET turn == Sum(g, n)
  IN  turn > 0 =>
        \/ c >= turn /\ picked = 0 /\ \A k \in 1..n : got[k] = 0
        \/ /\ c < turn
           /\ \E q \in Nat, from \in 0..turn - 1, extra \in 0..1 :
                /\ picked = q * turn + c - from + extra
                /\ q * turn + c - from >= 0
                /\ \A k \in 1..n :
                     got[k] = q * g[k] + Share(g, k, c) - Share(g, k, from)
                                + (IF k = 1 THEN extra ELSE 0)

LEMMA SharesAround ==
  ASSUME NEW n \in Nat, NEW g \in [1..n -> Nat], NEW k \in 1..n
  PROVE  /\ g[k] \in Nat /\ Sum(g, k - 1) \in Nat /\ Sum(g, k) \in Nat /\ Sum(g, n) \in Nat
         /\ Sum(g, k) = Sum(g, k - 1) + g[k] /\ Sum(g, k) <= Sum(g, n)
<1>1. k - 1 \in 0..n /\ k \in 0..n /\ n \in 0..n /\ k <= n /\ g[k] \in Nat
    OBVIOUS
<1>2. QED
    BY <1>1, SumsAdd

LEMMA TurnType == ASSUME NEW n \in Nat, NEW g \in [1..n -> Nat] PROVE Sum(g, n) \in Nat
<1>1. n \in 0..n
    OBVIOUS
<1>2. QED
    BY <1>1, SumsAdd

LEMMA ShareType ==
  ASSUME NEW n \in Nat, NEW g \in [1..n -> Nat], NEW k \in 1..n, NEW x \in Nat
  PROVE  /\ Share(g, k, x) \in 0..g[k]
         /\ x = 0 => Share(g, k, x) = 0
         /\ x >= Sum(g, n) => Share(g, k, x) = g[k]
<1>1. /\ g[k] \in Nat /\ Sum(g, k - 1) \in Nat /\ Sum(g, k) \in Nat /\ Sum(g, n) \in Nat
      /\ Sum(g, k) = Sum(g, k - 1) + g[k] /\ Sum(g, k) <= Sum(g, n)
    BY SharesAround
<1>2. QED
    BY <1>1 DEF Share

LEMMA ShareMoves ==
  ASSUME NEW n \in Nat, NEW g \in [1..n -> Nat], NEW c \in Nat,
         NEW h \in 1..n, c < Sum(g, h), Sum(g, h - 1) <= c, NEW k \in 1..n
  PROVE  Share(g, k, c + 1) = Share(g, k, c) + (IF k = h THEN 1 ELSE 0)
<1>s. /\ g[k] \in Nat /\ Sum(g, k - 1) \in Nat /\ Sum(g, k) \in Nat
      /\ Sum(g, k) = Sum(g, k - 1) + g[k]
      /\ Sum(g, h - 1) \in Nat /\ Sum(g, h) \in Nat
    BY SharesAround
<1>1. CASE k = h
    BY <1>s, <1>1 DEF Share
<1>2. CASE k < h
    <2>1. k \in 0..n /\ h - 1 \in 0..n /\ k <= h - 1
        BY <1>2
    <2>2. Sum(g, k) <= Sum(g, h - 1)
        BY <2>1, SumsAdd
    <2>3. QED
        BY <1>s, <1>2, <2>2 DEF Share
<1>3. CASE k > h
    <2>1. h \in 0..n /\ k - 1 \in 0..n /\ h <= k - 1
        BY <1>3
    <2>2. Sum(g, h) <= Sum(g, k - 1)
        BY <2>1, SumsAdd
    <2>3. QED
        BY <1>s, <1>3, <2>2 DEF Share
<1>4. QED
    BY <1>1, <1>2, <1>3

\* A set of natural numbers that is not empty has a least one.
LEMMA LeastExists ==
  ASSUME NEW S \in SUBSET Nat, IsFiniteSet(S), S # {}
  PROVE  \E h \in S : \A k \in S : h <= k
<1>1. Cardinality(S) \in Nat \ {0}
    BY FS_EmptySet, FS_CardinalityType
<1> DEFINE list == Balancer!InOrder(S)
           n == Cardinality(S)
<1>2. /\ list \in [1..n -> S] /\ \A j, k \in 1..n : j < k => list[j] < list[k]
      /\ \A i \in S : \E k \in 1..n : list[k] = i
    BY ListsEach
<1> HIDE DEF list, n
<1>3. n \in Nat \ {0}
    BY <1>1 DEF n
<1>4. ASSUME NEW i \in S PROVE list[1] <= i
    <2>1. PICK k \in 1..n : list[k] = i
        BY <1>2
    <2>2. list[1] \in S /\ 1 \in 1..n
        BY <1>2, <1>3
    <2>3. list[1] \in Nat /\ i \in Nat
        BY <2>2
    <2>4. k = 1 \/ 1 < k
        BY <1>3
    <2>5. QED
        BY <1>2, <2>1, <2>2, <2>3, <2>4
<1>5. list[1] \in S
    BY <1>2, <1>3
<1>6. QED
    BY <1>4, <1>5

LEMMA HitExists ==
  ASSUME NEW n \in Nat, NEW g \in [1..n -> Nat], NEW c \in Nat, c < Sum(g, n)
  PROVE  \E h \in 1..n : c < Sum(g, h) /\ \A j \in 1..h - 1 : c >= Sum(g, j)
<1> DEFINE past == {k \in 1..n : c < Sum(g, k)}
<1>1. n \in past
    <2>1. n # 0
        BY SumsAdd
    <2>2. QED
        BY <2>1
<1>2. IsFiniteSet(past) /\ past \in SUBSET Nat
    BY FirstNumbers, FS_Subset
<1>3. PICK h \in past : \A k \in past : h <= k
    BY <1>1, <1>2, LeastExists
<1>4. ASSUME NEW j \in 1..h - 1 PROVE c >= Sum(g, j)
    <2>1. j \in 1..n /\ j \notin past
        BY <1>3
    <2>2. Sum(g, j) \in Nat
        BY <2>1, SharesAround
    <2>3. QED
        BY <2>1, <2>2
<1>5. QED
    BY <1>3, <1>4

LEMMA FreshInProportion ==
  ASSUME NEW n \in Nat, NEW g \in [1..n -> Nat], NEW got, \A k \in 1..n : got[k] = 0,
         NEW c \in Nat
  PROVE  InProportion(g, n, got, 0, c)
<1> DEFINE turn == Sum(g, n)
<1>1. turn \in Nat
    BY TurnType
<1>2. SUFFICES ASSUME c < turn
               PROVE  \E q \in Nat, from \in 0..turn - 1, extra \in 0..1 :
                        /\ 0 = q * turn + c - from + extra
                        /\ q * turn + c - from >= 0
                        /\ \A k \in 1..n :
                             got[k] = q * g[k] + Share(g, k, c) - Share(g, k, from)
                                        + (IF k = 1 THEN extra ELSE 0)
    BY <1>1 DEF InProportion
<1>3. ASSUME NEW k \in 1..n
      PROVE  got[k] = 0 * g[k] + Share(g, k, c) - Share(g, k, c) + (IF k = 1 THEN 0 ELSE 0)
    <2>1. got[k] = 0 /\ g[k] \in Nat /\ Share(g, k, c) \in 0..g[k]
        BY ShareType
    <2>2. QED
        BY <2>1
<1>4. 0 = 0 * turn + c - c + 0 /\ 0 * turn + c - c >= 0 /\ c \in 0..turn - 1
    BY <1>1, <1>2
<1> HIDE DEF turn
<1>5. QED
    BY <1>3, <1>4

\* Past the total weight the first instance is picked, and the cursor put back.
LEMMA PuttingBackKeepsProportion ==
  ASSUME NEW n \in Nat, NEW g \in [1..n -> Nat], NEW got, NEW picked, NEW c \in Nat,
         InProportion(g, n, got, picked, c), c >= Sum(g, n), Sum(g, n) > 0,
         NEW then, \A k \in 1..n : then[k] = got[k] + (IF k = 1 THEN 1 ELSE 0)
  PROVE  InProportion(g, n, then, picked + 1, 0)
<1> DEFINE turn == Sum(g, n)
<1>1. turn \in Nat \ {0}
    BY TurnType
<1>2. picked = 0 /\ \A k \in 1..n : got[k] = 0
    BY <1>1 DEF InProportion
<1>3. ASSUME NEW k \in 1..n
      PROVE  then[k] = 0 * g[k] + Share(g, k, 0) - Share(g, k, 0) + (IF k = 1 THEN 1 ELSE 0)
    <2>1. 0 \in Nat /\ g[k] \in Nat
        OBVIOUS
    <2>2. Share(g, k, 0) = 0
        BY <2>1, ShareType
    <2>3. QED
        BY <1>2, <2>1, <2>2
<1>4. picked + 1 = 0 * turn + 0 - 0 + 1 /\ 0 * turn + 0 - 0 >= 0 /\ 0 \in 0..turn - 1
    BY <1>1, <1>2
<1> HIDE DEF turn
<1>5. \E q \in Nat, from \in 0..turn - 1, extra \in 0..1 :
        /\ picked + 1 = q * turn + 0 - from + extra
        /\ q * turn + 0 - from >= 0
        /\ \A k \in 1..n :
             then[k] = q * g[k] + Share(g, k, 0) - Share(g, k, from)
                         + (IF k = 1 THEN extra ELSE 0)
    BY <1>3, <1>4
<1>6. QED
    BY <1>1, <1>5 DEF InProportion, turn

LEMMA Distributes ==
  ASSUME NEW q \in Nat, NEW w \in Nat
  PROVE  (q + 1) * w = q * w + w /\ q * w \in Nat
OBVIOUS

\* The instance at the cursor is picked, and the cursor moves on.
LEMMA HitKeepsProportion ==
  ASSUME NEW n \in Nat, NEW g \in [1..n -> Nat], NEW got, NEW picked, NEW c \in Nat,
         InProportion(g, n, got, picked, c), c < Sum(g, n),
         NEW h \in 1..n, c < Sum(g, h), Sum(g, h - 1) <= c,
         NEW then, \A k \in 1..n : then[k] = got[k] + (IF k = h THEN 1 ELSE 0)
  PROVE  InProportion(g, n, then, picked + 1, (c + 1) % Sum(g, n))
<1>m. ASSUME NEW k \in 1..n
      PROVE  Share(g, k, c + 1) = Share(g, k, c) + (IF k = h THEN 1 ELSE 0)
    BY ShareMoves
<1> DEFINE turn == Sum(g, n)
<1>1. turn \in Nat \ {0} /\ c < turn
    <2>1. turn \in Nat
        BY TurnType
    <2>2. QED
        BY <2>1
<1>2. PICK q \in Nat, from \in 0..turn - 1, extra \in 0..1 :
        /\ picked = q * turn + c - from + extra
        /\ q * turn + c - from >= 0
        /\ \A k \in 1..n :
             got[k] = q * g[k] + Share(g, k, c) - Share(g, k, from)
                        + (IF k = 1 THEN extra ELSE 0)
    BY <1>1 DEF InProportion
<1>3. ASSUME NEW k \in 1..n
      PROVE  /\ then[k] = q * g[k] + Share(g, k, c + 1) - Share(g, k, from)
                            + (IF k = 1 THEN extra ELSE 0)
             /\ Share(g, k, from) \in Nat /\ Share(g, k, c + 1) \in Nat /\ g[k] \in Nat
             /\ Share(g, k, 0) = 0
             /\ c + 1 >= turn => Share(g, k, c + 1) = g[k]
    <2>1. from \in Nat /\ c + 1 \in Nat /\ 0 \in Nat /\ g[k] \in Nat
        BY <1>1
    <2> HIDE DEF turn
    <2>a. \A x \in Nat : /\ Share(g, k, x) \in 0..g[k]
                         /\ x = 0 => Share(g, k, x) = 0
                         /\ x >= turn => Share(g, k, x) = g[k]
        BY ShareType DEF turn
    <2>2. /\ Share(g, k, from) \in Nat /\ Share(g, k, c + 1) \in Nat /\ Share(g, k, c) \in Nat
          /\ Share(g, k, 0) = 0
          /\ c + 1 >= turn => Share(g, k, c + 1) = g[k]
        <3>1. Share(g, k, from) \in Nat
            BY <2>1, <2>a
        <3>2. Share(g, k, c) \in Nat
            BY <2>1, <2>a
        <3>3. Share(g, k, c + 1) \in 0..g[k] /\ (c + 1 >= turn => Share(g, k, c + 1) = g[k])
            <4> DEFINE x == c + 1
            <4>1. x \in Nat
                BY <2>1
            <4> HIDE DEF x
            <4>2. Share(g, k, x) \in 0..g[k] /\ (x >= turn => Share(g, k, x) = g[k])
                BY <2>a, <4>1
            <4>3. QED
                BY <4>2 DEF x
        <3>4. QED
            BY <2>1, <2>a, <3>1, <3>2, <3>3
    <2>3. Share(g, k, c + 1) = Share(g, k, c) + (IF k = h THEN 1 ELSE 0)
        BY <1>m
    <2>4. got[k] = q * g[k] + Share(g, k, c) - Share(g, k, from) + (IF k = 1 THEN extra ELSE 0)
        BY <1>2
    <2>5. q * g[k] \in Nat
        BY <2>1, Distributes
    <2>6. then[k] = got[k] + (IF k = h THEN 1 ELSE 0)
        OBVIOUS
    <2>7. then[k] = q * g[k] + Share(g, k, c + 1) - Share(g, k, from)
                     + (IF k = 1 THEN extra ELSE 0)
        <3> DEFINE whole == q * g[k]
                   first == IF k = 1 THEN extra ELSE 0
                   now == IF k = h THEN 1 ELSE 0
                   before == Share(g, k, from)
                   upto == Share(g, k, c)
        <3>1. first \in Int /\ now \in Int /\ whole \in Int /\ before \in Int /\ upto \in Int
            BY <2>2, <2>5
        <3>2. got[k] = whole + upto - before + first
            BY <2>4
        <3>3. Share(g, k, c + 1) = upto + now /\ then[k] = got[k] + now
            BY <2>3, <2>6
        <3> HIDE DEF whole, first, now, before, upto
        <3>4. then[k] = whole + (upto + now) - before + first
            BY <3>1, <3>2, <3>3
        <3>5. QED
            BY <3>3, <3>4 DEF whole, first, before
    <2>8. QED
        BY <2>1, <2>2, <2>7
<1>4. q * turn \in Nat /\ (q + 1) * turn = q * turn + turn
    BY <1>1, Distributes
<1>5. (c + 1) % turn = IF c + 1 = turn THEN 0 ELSE c + 1
    <2> HIDE DEF turn
    <2>1. c % turn = c
        BY <1>1
    <2>2. (c + 1) % turn = IF (c % turn) + 1 = turn THEN 0 ELSE (c % turn) + 1
        BY <1>1, CursorTurns
    <2>3. QED
        BY <2>1, <2>2
<1> HIDE DEF turn
<1>6. CASE c + 1 = turn
    <2>1. /\ picked + 1 = (q + 1) * turn + 0 - from + extra
          /\ (q + 1) * turn + 0 - from >= 0
        BY <1>1, <1>2, <1>4, <1>6
    <2>2. ASSUME NEW k \in 1..n
          PROVE  then[k] = (q + 1) * g[k] + Share(g, k, 0) - Share(g, k, from)
                             + (IF k = 1 THEN extra ELSE 0)
        <3>1. (q + 1) * g[k] = q * g[k] + g[k] /\ q * g[k] \in Nat
            BY <1>3, Distributes
        <3>2. Share(g, k, c + 1) = g[k]
            BY <1>1, <1>3, <1>6
        <3>3. QED
            BY <1>3, <3>1, <3>2
    <2>3. q + 1 \in Nat
        OBVIOUS
    <2>4. \E p \in Nat, f \in 0..turn - 1, e \in 0..1 :
            /\ picked + 1 = p * turn + 0 - f + e
            /\ p * turn + 0 - f >= 0
            /\ \A k \in 1..n : then[k] = p * g[k] + Share(g, k, 0) - Share(g, k, f)
                                           + (IF k = 1 THEN e ELSE 0)
        BY <2>1, <2>2, <2>3
    <2>5. InProportion(g, n, then, picked + 1, 0)
        BY <1>1, <2>4 DEF InProportion, turn
    <2>6. QED
        BY <1>5, <1>6, <2>5 DEF turn
<1>7. CASE c + 1 # turn
    <2>1. /\ picked + 1 = q * turn + (c + 1) - from + extra
          /\ q * turn + (c + 1) - from >= 0
          /\ c + 1 < turn
        BY <1>1, <1>2, <1>4, <1>7
    <2>2. \E p \in Nat, f \in 0..turn - 1, e \in 0..1 :
            /\ picked + 1 = p * turn + (c + 1) - f + e
            /\ p * turn + (c + 1) - f >= 0
            /\ \A k \in 1..n : then[k] = p * g[k] + Share(g, k, c + 1) - Share(g, k, f)
                                           + (IF k = 1 THEN e ELSE 0)
        BY <1>3, <2>1
    <2>3. InProportion(g, n, then, picked + 1, c + 1)
        BY <1>1, <2>1, <2>2 DEF InProportion, turn
    <2>4. QED
        BY <1>5, <1>7, <2>3 DEF turn
<1>8. QED
    BY <1>6, <1>7

-----------------------------------------------------------------------------
\* From the shares to the promise.
LEMMA ProductsGrow ==
  ASSUME NEW a \in Int, NEW b \in Int, a <= b, NEW w \in Nat
  PROVE  a * w <= b * w /\ a * w \in Int /\ b * w \in Int
<1> DEFINE d == b - a
<1>1. d \in Nat /\ b = a + d
    OBVIOUS
<1> HIDE DEF d
<1>2. (a + d) * w = a * w + d * w /\ d * w \in Nat /\ a * w \in Int
    BY <1>1
<1>3. QED
    BY <1>1, <1>2

LEMMA QuotientBounds ==
  ASSUME NEW turn \in Nat \ {0}, NEW p \in Int, NEW q \in Int
  PROVE  /\ p \div turn \in Int
         /\ q * turn <= p => q <= p \div turn
         /\ p < q * turn => p \div turn < q
<1> DEFINE d == p \div turn
           m == p % turn
<1>1. d \in Int /\ m \in 0..turn - 1 /\ p = turn * d + m
    OBVIOUS
<1>2. turn * d = d * turn
    BY <1>1
<1> HIDE DEF d, m
<1>3. (d + 1) * turn = d * turn + turn /\ d * turn \in Int /\ q * turn \in Int
    BY <1>1
<1>4. CASE q <= d
    <2>1. q * turn <= d * turn
        BY <1>1, <1>4, ProductsGrow
    <2>2. QED
        BY <1>1, <1>2, <1>3, <1>4, <2>1 DEF d
<1>5. CASE ~(q <= d)
    <2>1. d + 1 \in Int /\ d + 1 <= q
        BY <1>1, <1>5
    <2>2. (d + 1) * turn <= q * turn
        BY <2>1, ProductsGrow
    <2>3. QED
        BY <1>1, <1>2, <1>3, <1>5, <2>2 DEF d
<1>6. QED
    BY <1>4, <1>5

LEMMA ShareGrows ==
  ASSUME NEW n \in Nat, NEW g \in [1..n -> Nat], NEW k \in 1..n,
         NEW x \in Nat, NEW y \in Nat, x <= y
  PROVE  Share(g, k, x) <= Share(g, k, y)
<1>1. /\ g[k] \in Nat /\ Sum(g, k - 1) \in Nat /\ Sum(g, k) \in Nat
      /\ Sum(g, k) = Sum(g, k - 1) + g[k]
    BY SharesAround
<1>2. QED
    BY <1>1 DEF Share

LEMMA ProportionIsFair ==
  ASSUME NEW n \in Nat, NEW g \in [1..n -> Nat], NEW got, NEW picked, NEW c \in Nat,
         InProportion(g, n, got, picked, c), Sum(g, n) > 0, NEW k \in 1..n
  PROVE  /\ got[k] <= ((picked \div Sum(g, n)) + 1) * g[k] + 1
         /\ got[k] >= ((picked - 1) \div Sum(g, n)) * g[k]
<1> DEFINE turn == Sum(g, n)
           whole == picked \div turn
           less == (picked - 1) \div turn
           w == g[k]
<1>1. turn \in Nat \ {0} /\ w \in Nat
    BY TurnType
\* Enough to find a quotient that bounds each side.
<1>2. ASSUME NEW a \in Int, NEW b \in Int, picked \in Int,
             a * turn <= picked, got[k] <= (a + 1) * w + 1,
             picked - 1 < (b + 1) * turn, got[k] >= b * w, got[k] \in Int
      PROVE  got[k] <= (whole + 1) * w + 1 /\ got[k] >= less * w
    <2> HIDE DEF turn, w
    <2>1. whole \in Int /\ a <= whole
        BY <1>1, <1>2, QuotientBounds
    <2>2. picked - 1 \in Int /\ b + 1 \in Int
        BY <1>2
    <2>3. less \in Int /\ less < b + 1
        BY <1>1, <1>2, <2>2, QuotientBounds
    <2> HIDE DEF whole, less
    <2>4. a + 1 \in Int /\ whole + 1 \in Int /\ a + 1 <= whole + 1 /\ less <= b
        BY <2>1, <2>3
    <2>5. (a + 1) * w <= (whole + 1) * w /\ (a + 1) * w \in Int /\ (whole + 1) * w \in Int
        BY <1>1, <2>4, ProductsGrow
    <2>6. less * w <= b * w /\ less * w \in Int /\ b * w \in Int
        BY <1>1, <2>3, <2>4, ProductsGrow
    <2> DEFINE most == (a + 1) * w
               above == (whole + 1) * w
               least == b * w
               below == less * w
    <2>7. /\ most \in Int /\ above \in Int /\ least \in Int /\ below \in Int /\ got[k] \in Int
          /\ got[k] <= most + 1 /\ most <= above /\ got[k] >= least /\ below <= least
        BY <1>2, <2>5, <2>6
    <2> HIDE DEF most, above, least, below
    <2>8. got[k] <= above + 1 /\ got[k] >= below
        BY <2>7
    <2>9. QED
        BY <2>8 DEF above, below
<1>3. CASE c >= turn /\ picked = 0 /\ \A j \in 1..n : got[j] = 0
    <2> HIDE DEF turn, w
    <2>1. got[k] = 0 /\ picked = 0
        BY <1>3
    <2>2. /\ 0 * turn <= 0 /\ 0 <= (0 + 1) * w + 1
          /\ 0 - 1 < (-1 + 1) * turn /\ 0 >= (-1) * w
        BY <1>1
    <2>3. got[k] <= (whole + 1) * w + 1 /\ got[k] >= less * w
        <3>1. 0 \in Int /\ -1 \in Int
            OBVIOUS
        <3> HIDE DEF whole, less
        <3>2. QED
            BY <1>2, <2>1, <2>2, <3>1
    <2>4. QED
        BY <2>3 DEF turn, w
<1>4. ASSUME NEW q \in Nat, NEW from \in 0..turn - 1, NEW extra \in 0..1, c < turn,
             picked = q * turn + c - from + extra, q * turn + c - from >= 0,
             \A j \in 1..n :
               got[j] = q * g[j] + Share(g, j, c) - Share(g, j, from)
                          + (IF j = 1 THEN extra ELSE 0)
      PROVE  got[k] <= (whole + 1) * w + 1 /\ got[k] >= less * w
    <2> DEFINE upto == Share(g, k, c)
               before == Share(g, k, from)
               one == IF k = 1 THEN extra ELSE 0
    <2>1. from \in Nat /\ from < turn
        BY <1>1
    <2>2. /\ upto \in 0..w /\ before \in 0..w
          /\ c <= from => upto <= before
          /\ from <= c => before <= upto
        BY <2>1, ShareType, ShareGrows
    <2>3. got[k] = q * w + upto - before + one /\ one \in 0..1
        BY <1>4
    <2> HIDE DEF upto, before, one, turn, w, whole, less
    <2>4. /\ q * turn \in Nat /\ (q + 1) * turn = q * turn + turn
          /\ q * w \in Nat /\ (q + 1) * w = q * w + w
        BY <1>1, Distributes
    <2>5. picked \in Int /\ got[k] \in Int
        BY <1>1, <1>4, <2>1, <2>2, <2>3, <2>4
    <2>6. CASE from <= c
        <3>1. /\ q \in Int /\ q * turn <= picked /\ got[k] <= (q + 1) * w + 1
              /\ picked - 1 < (q + 1) * turn /\ got[k] >= q * w
            BY <1>1, <1>4, <2>1, <2>2, <2>3, <2>4, <2>6
        <3>2. QED
            BY <1>2, <2>5, <3>1
    <2>7. CASE c < from
        <3> DEFINE p == q - 1
        <3>1. p \in Int /\ q = p + 1
            OBVIOUS
        <3>2. p * turn = q * turn - turn /\ p * w = q * w - w
            BY <1>1, <3>1
        <3> HIDE DEF p
        <3>3. /\ p * turn <= picked /\ got[k] <= (p + 1) * w + 1
              /\ picked - 1 < (p + 1) * turn /\ got[k] >= p * w
            BY <1>1, <1>4, <2>1, <2>2, <2>3, <2>4, <2>7, <3>1, <3>2
        <3>4. QED
            BY <1>2, <2>5, <3>1, <3>3
    <2>8. QED
        BY <1>1, <2>1, <2>6, <2>7
<1>5. QED
    <2> HIDE DEF whole, less, w
    <2> HIDE DEF turn
    <2>1. \/ c >= turn /\ picked = 0 /\ \A j \in 1..n : got[j] = 0
          \/ /\ c < turn
             /\ \E q \in Nat, from \in 0..turn - 1, extra \in 0..1 :
                  /\ picked = q * turn + c - from + extra
                  /\ q * turn + c - from >= 0
                  /\ \A j \in 1..n :
                       got[j] = q * g[j] + Share(g, j, c) - Share(g, j, from)
                                  + (IF j = 1 THEN extra ELSE 0)
        BY DEF InProportion, turn
    <2>2. CASE c >= turn /\ picked = 0 /\ \A j \in 1..n : got[j] = 0
        BY <1>3, <2>2 DEF turn
    <2>3. CASE ~(c >= turn /\ picked = 0 /\ \A j \in 1..n : got[j] = 0)
        <3>1. PICK q \in Nat, from \in 0..turn - 1, extra \in 0..1 :
                /\ c < turn
                /\ picked = q * turn + c - from + extra
                /\ q * turn + c - from >= 0
                /\ \A j \in 1..n :
                     got[j] = q * g[j] + Share(g, j, c) - Share(g, j, from)
                                + (IF j = 1 THEN extra ELSE 0)
            BY <2>1, <2>3
        <3>2. got[k] <= (whole + 1) * w + 1 /\ got[k] >= less * w
            BY <1>4, <3>1
        <3>3. QED
            BY <3>2 DEF whole, less, w, turn
    <2>4. QED
        BY <2>2, <2>3

-----------------------------------------------------------------------------
\* The weighted list.
\* The weights of the healthy instances, in the order of the list.
Weights(S) == [k \in 1..Cardinality(S) |-> Weight[Balancer!InOrder(S)[k]]]
Counts(S, count) == [k \in 1..Cardinality(S) |-> count[Balancer!InOrder(S)[k]]]

ByShares(S, count, c) ==
  InProportion(Weights(S), Cardinality(S), Counts(S, count), Balancer!Total(count), c)

\* The sums of the code are those of the list.
LEMMA SumsOfList ==
  ASSUME NEW S \in SUBSET Nat, IsFiniteSet(S)
  PROVE  LET list == Balancer!InOrder(S)
         IN  /\ Balancer!TotalWeight(list) = Sum(Weights(S), Cardinality(S))
             /\ \A k \in 0..Cardinality(S) :
                  Balancer!TotalWeight(SubSeq(list, 1, k)) = Sum(Weights(S), k)
<1> DEFINE n == Cardinality(S)
           list == Balancer!InOrder(S)
<1>1. n \in Nat /\ list \in Seq(S) /\ Len(list) = n
    BY ListsEach
<1>2. Weights(S) = [k \in 1..n |-> Weight[list[k]]]
    BY DEF Weights
<1> HIDE DEF n, list
<1>3. Balancer!TotalWeight(list) = Sum(Weights(S), n)
    <2>1. DOMAIN list = 1..n
        BY <1>1
    <2>2. [k \in 1..n |-> Weight[list[k]]] = [j \in 1..n |-> Weights(S)[j]]
        BY <1>2
    <2>3. QED
        BY <2>1, <2>2 DEF Balancer!TotalWeight, Sum
<1>4. ASSUME NEW k \in 0..n PROVE Balancer!TotalWeight(SubSeq(list, 1, k)) = Sum(Weights(S), k)
    <2> DEFINE front == SubSeq(list, 1, k)
    <2>1. DOMAIN front = 1..k /\ \A j \in 1..k : front[j] = list[j]
        BY <1>1
    <2> HIDE DEF front
    <2>2. \A j \in 1..k : Weights(S)[j] = Weight[list[j]]
        BY <1>1, <1>2
    <2>3. [j \in DOMAIN front |-> Weight[front[j]]] = [j \in 1..k |-> Weights(S)[j]]
        BY <2>1, <2>2
    <2>4. Balancer!TotalWeight(front) = Sum(Weights(S), k)
        BY <2>3 DEF Balancer!TotalWeight, Sum
    <2>5. QED
        BY <2>4 DEF front
<1>5. QED
    BY <1>3, <1>4 DEF n, list

LEMMA WeightsType ==
  ASSUME Size \in Nat, Weight \in [Balancer!Instances -> Nat], NEW S \in SUBSET Balancer!Instances
  PROVE  Cardinality(S) \in Nat /\ Weights(S) \in [1..Cardinality(S) -> Nat]
<1>1. Balancer!InOrder(S) \in [1..Cardinality(S) -> S] /\ Cardinality(S) \in Nat
    BY ListIsFinite, ListsEach
<1>2. ASSUME NEW k \in 1..Cardinality(S) PROVE Weight[Balancer!InOrder(S)[k]] \in Nat
    <2>1. Balancer!InOrder(S)[k] \in Balancer!Instances
        BY <1>1
    <2>2. QED
        BY <2>1
<1>3. QED
    BY <1>1, <1>2 DEF Weights

LEMMA UnpickedByShares ==
  ASSUME Size \in Nat, Weight \in [Balancer!Instances -> Nat],
         NEW S \in SUBSET Balancer!Instances, NEW c \in Nat
  PROVE  ByShares(S, Balancer!Unpicked, c)
<1>1. /\ Balancer!Unpicked \in [Balancer!Instances -> Nat]
      /\ \A i \in Balancer!Instances : Balancer!Unpicked[i] = 0
    BY DEF Balancer!Unpicked
<1>2. Balancer!Total(Balancer!Unpicked) = 0
    BY <1>1, TotalOfNone
<1>3. Balancer!InOrder(S) \in [1..Cardinality(S) -> S]
    BY ListIsFinite, ListsEach
<1>4. ASSUME NEW k \in 1..Cardinality(S) PROVE Counts(S, Balancer!Unpicked)[k] = 0
    <2>1. Balancer!InOrder(S)[k] \in Balancer!Instances
        BY <1>3
    <2>2. QED
        BY <1>1, <2>1 DEF Counts
<1>5. QED
    BY <1>2, <1>4, WeightsType, FreshInProportion DEF ByShares

\* One more for the instance at position h of the list.
LEMMA CountsGrow ==
  ASSUME Size \in Nat, NEW S \in SUBSET Balancer!Instances,
         NEW count \in [Balancer!Instances -> Nat], NEW h \in 1..Cardinality(S)
  PROVE  LET then == [count EXCEPT ![Balancer!InOrder(S)[h]] = @ + 1]
         IN  /\ Balancer!Total(then) = Balancer!Total(count) + 1
             /\ \A k \in 1..Cardinality(S) :
                  Counts(S, then)[k] = Counts(S, count)[k] + (IF k = h THEN 1 ELSE 0)
<1> DEFINE n == Cardinality(S)
           list == Balancer!InOrder(S)
           then == [count EXCEPT ![list[h]] = @ + 1]
<1>1. /\ n \in Nat /\ list \in [1..n -> S]
      /\ \A j, k \in 1..n : list[j] = list[k] => j = k
    BY ListIsFinite, ListsEach
<1>2. /\ \A k \in 1..n : Counts(S, then)[k] = then[list[k]]
      /\ \A k \in 1..n : Counts(S, count)[k] = count[list[k]]
    BY DEF Counts
<1> HIDE DEF list, n
<1>3. list[h] \in Balancer!Instances /\ h \in 1..n
    BY <1>1 DEF n
<1>4. IsFiniteSet(Balancer!Instances)
    BY ListIsFinite
<1>5. Balancer!Total(then) = Balancer!Total(count) + 1
    BY <1>3, <1>4, TotalGrows
<1>6. ASSUME NEW k \in 1..n
      PROVE  Counts(S, then)[k] = Counts(S, count)[k] + (IF k = h THEN 1 ELSE 0)
    <2>1. count[list[k]] \in Nat /\ list[k] \in Balancer!Instances
        BY <1>1
    <2>2. then[list[k]] = count[list[k]] + (IF k = h THEN 1 ELSE 0)
        BY <1>1, <1>3, <2>1
    <2> HIDE DEF then
    <2>3. QED
        BY <1>2, <2>2
<1>7. QED
    BY <1>5, <1>6 DEF list, n, then

LEMMA ChoiceKeepsShares ==
  ASSUME Size \in Nat, Weight \in [Balancer!Instances -> Nat],
         NEW S \in SUBSET Balancer!Instances, S # {},
         NEW count \in [Balancer!Instances -> Nat], currentWeight \in Nat,
         ByShares(S, count, currentWeight)
  PROVE  LET choice == Balancer!WeightedChoice(Balancer!InOrder(S))
         IN  /\ choice.next \in Nat
             /\ ByShares(S, [count EXCEPT ![choice.inst] = @ + 1], choice.next)
<1> DEFINE n == Cardinality(S)
           g == Weights(S)
           turn == Sum(g, n)
           list == Balancer!InOrder(S)
           choice == Balancer!WeightedChoice(list)
           upTo(k) == Balancer!TotalWeight(SubSeq(list, 1, k))
           total == Balancer!TotalWeight(list)
           IsHit(k) == /\ currentWeight < upTo(k)
                       /\ \A j \in 1..k - 1 : currentWeight >= upTo(j)
           hit == CHOOSE k \in 1..Len(list) : IsHit(k)
           Kept == /\ choice.next \in Nat
                   /\ ByShares(S, [count EXCEPT ![choice.inst] = @ + 1], choice.next)
           then(h) == [count EXCEPT ![list[h]] = @ + 1]
<1>1. n \in Nat /\ g \in [1..n -> Nat] /\ turn \in Nat
    BY WeightsType, TurnType
<1>2. n # 0 /\ Len(list) = n
    BY ListIsFinite, ListsEach, FS_EmptySet
<1>3. total = turn /\ \A k \in 0..n : upTo(k) = Sum(g, k)
    BY ListIsFinite, SumsOfList
<1>4. ASSUME NEW h \in 1..n
      PROVE  /\ Balancer!Total(then(h)) = Balancer!Total(count) + 1
             /\ \A k \in 1..n : Counts(S, then(h))[k] = Counts(S, count)[k] + (IF k = h THEN 1 ELSE 0)
    BY CountsGrow
<1>5. choice = CASE total = 0 -> [inst |-> list[1], next |-> currentWeight]
                 [] total > 0 /\ currentWeight < total ->
                      [inst |-> list[hit], next |-> (currentWeight + 1) % total]
                 [] OTHER -> [inst |-> list[1], next |-> 0]
    BY DEF Balancer!WeightedChoice
<1>6. InProportion(g, n, Counts(S, count), Balancer!Total(count), currentWeight)
    BY DEF ByShares
<1>7. ASSUME NEW h \in 1..n, NEW c,
             InProportion(g, n, Counts(S, then(h)), Balancer!Total(count) + 1, c),
             choice = [inst |-> list[h], next |-> c]
      PROVE  ByShares(S, [count EXCEPT ![choice.inst] = @ + 1], choice.next)
    <2>1. choice.inst = list[h] /\ choice.next = c
        BY <1>7
    <2>2. ByShares(S, then(h), c)
        BY <1>4, <1>7 DEF ByShares
    <2>3. QED
        BY <2>1, <2>2
<1> HIDE DEF choice, total, turn, g, n, then, hit, upTo, list
<1>8. CASE turn = 0
    <2>1. choice = [inst |-> list[1], next |-> currentWeight]
        BY <1>3, <1>5, <1>8
    <2>2. InProportion(g, n, Counts(S, then(1)), Balancer!Total(count) + 1, currentWeight)
        BY <1>8 DEF InProportion, turn
    <2>3. 1 \in 1..n
        BY <1>1, <1>2
    <2>4. Kept
        BY <1>7, <2>1, <2>2, <2>3
    <2>5. QED
        BY <2>4 DEF Kept, choice, list
<1>9. CASE turn > 0 /\ currentWeight < turn
    <2>1. choice = [inst |-> list[hit], next |-> (currentWeight + 1) % turn]
        BY <1>3, <1>5, <1>9
    <2>2. \E h \in 1..n : currentWeight < Sum(g, h) /\ \A j \in 1..h - 1 : currentWeight >= Sum(g, j)
        BY <1>1, <1>9, HitExists DEF turn
    <2>3. ASSUME NEW h \in 1..n
          PROVE  IsHit(h) <=> /\ currentWeight < Sum(g, h)
                              /\ \A j \in 1..h - 1 : currentWeight >= Sum(g, j)
        <3>1. h \in 0..n /\ \A j \in 1..h - 1 : j \in 0..n
            BY <1>1
        <3>2. QED
            BY <1>3, <3>1
    <2>4. hit \in 1..n /\ IsHit(hit)
        <3>1. \E h \in 1..n : IsHit(h)
            BY <2>2, <2>3
        <3>2. hit = CHOOSE k \in 1..n : IsHit(k)
            BY <1>2 DEF hit
        <3> HIDE DEF IsHit
        <3>3. QED
            BY <3>1, <3>2
    <2>5. /\ currentWeight < Sum(g, hit)
          /\ \A j \in 1..hit - 1 : currentWeight >= Sum(g, j)
        BY <2>3, <2>4
    <2>6. Sum(g, hit - 1) <= currentWeight
        <3>1. CASE hit = 1
            BY <1>1, <3>1, SumsAdd
        <3>2. CASE hit # 1
            <4>1. hit - 1 \in 1..hit - 1 /\ hit - 1 \in 0..n
                BY <1>1, <2>4, <3>2
            <4>2. Sum(g, hit - 1) \in Nat
                BY <1>1, <4>1, SumsAdd
            <4>3. QED
                BY <2>5, <4>1, <4>2
        <3>3. QED
            BY <3>1, <3>2
    <2>7. InProportion(g, n, Counts(S, then(hit)), Balancer!Total(count) + 1,
                       (currentWeight + 1) % turn)
        BY <1>1, <1>4, <1>6, <1>9, <2>4, <2>5, <2>6, HitKeepsProportion DEF turn
    <2>8. (currentWeight + 1) % turn \in Nat
        BY <1>1, <1>9, CursorTurns
    <2>9. Kept
        BY <1>7, <2>1, <2>4, <2>7, <2>8
    <2>10. QED
        BY <2>9 DEF Kept, choice, list
<1>10. CASE turn > 0 /\ ~(currentWeight < turn)
    <2>1. choice = [inst |-> list[1], next |-> 0]
        BY <1>1, <1>3, <1>5, <1>10
    <2>2. 1 \in 1..n /\ currentWeight >= turn
        BY <1>1, <1>2, <1>10
    <2>3. \A k \in 1..n : Counts(S, then(1))[k] = Counts(S, count)[k] + (IF k = 1 THEN 1 ELSE 0)
        BY <1>4, <2>2
    <2>4. InProportion(g, n, Counts(S, then(1)), Balancer!Total(count) + 1, 0)
        BY <1>1, <1>6, <1>10, <2>2, <2>3, PuttingBackKeepsProportion DEF turn
    <2>5. Kept
        BY <1>7, <2>1, <2>2, <2>4
    <2>6. QED
        BY <2>5 DEF Kept, choice, list
<1>11. QED
    BY <1>1, <1>8, <1>9, <1>10

-----------------------------------------------------------------------------
\* The weighted turn.
Shared ==
  /\ currentWeight \in Nat
  /\ \A s \in Services :
       strategy[s] = "weighted_round_robin" /\ up[s] # {}
         => ByShares(up[s], picks[s], currentWeight)

LEMMA SharedInit == ASSUME Balancer!Init PROVE Shared
BY DEF Balancer!Init, Shared

LEMMA RoundRobinKeepsShared ==
  ASSUME Turning, Shared, NEW s \in Services,
         strategy[s] = "round_robin", Balancer!SelectRoundRobin(s), UNCHANGED <<strategy, up>>
  PROVE  Shared'
<1>1. PICK i : Balancer!Pick(s, i) /\ UNCHANGED currentWeight
    BY DEF Balancer!SelectRoundRobin
<1>2. ASSUME NEW r \in Services, strategy[r] = "weighted_round_robin" PROVE picks'[r] = picks[r]
    BY <1>1, <1>2 DEF Balancer!Pick
<1>3. QED
    BY <1>1, <1>2 DEF Shared

LEMMA WeightedKeepsShared ==
  ASSUME Turning, Shared, NEW s \in Services, up[s] # {},
         strategy[s] # "round_robin", Balancer!SelectWeighted(s), UNCHANGED <<strategy, up>>
  PROVE  Shared'
<1> DEFINE choice == Balancer!WeightedChoice(Balancer!InOrder(up[s]))
<1>1. Balancer!Pick(s, choice.inst) /\ currentWeight' = choice.next
    BY DEF Balancer!SelectWeighted, Balancer!HealthyInstances
<1>2. /\ up[s] \in SUBSET Balancer!Instances /\ picks[s] \in [Balancer!Instances -> Nat]
      /\ Weight \in [Balancer!Instances -> Nat] /\ Size \in Nat
      /\ strategy[s] = "weighted_round_robin"
      /\ currentWeight \in Nat /\ ByShares(up[s], picks[s], currentWeight)
    BY SelectionAssumption DEF Turning, Shared, Strategies, Balancer!Instances
<1>3. /\ choice.next \in Nat
      /\ ByShares(up[s], [picks[s] EXCEPT ![choice.inst] = @ + 1], choice.next)
    BY <1>2, ChoiceKeepsShares
<1> HIDE DEF choice
<1>4. /\ picks'[s] = [picks[s] EXCEPT ![choice.inst] = @ + 1]
      /\ \A r \in Services \ {s} :
           strategy[r] = strategy[s] => picks'[r] = Balancer!Unpicked
    BY <1>1 DEF Balancer!Pick
<1>5. ASSUME NEW r \in Services, strategy[r] = "weighted_round_robin", up[r] # {}
      PROVE  ByShares(up[r], picks'[r], currentWeight')
    <2>1. CASE r = s
        BY <1>1, <1>3, <1>4, <2>1
    <2>2. CASE r # s
        <3>1. picks'[r] = Balancer!Unpicked /\ up[r] \in SUBSET Balancer!Instances
            BY <1>2, <1>4, <1>5, <2>2 DEF Turning
        <3>2. QED
            BY <1>1, <1>2, <1>3, <3>1, UnpickedByShares
    <2>3. QED
        BY <2>1, <2>2
<1>6. ASSUME NEW r \in Services, strategy'[r] = "weighted_round_robin", up'[r] # {}
      PROVE  ByShares(up'[r], picks'[r], currentWeight')
    BY <1>5, <1>6
<1>7. QED
    BY <1>1, <1>3, <1>6 DEF Shared

LEMMA ChangeKeepsShared ==
  ASSUME Turning, Shared, NEW s \in Services,
         picks' = [picks EXCEPT ![s] = Balancer!Unpicked], UNCHANGED currentWeight,
         up' \in [Services -> SUBSET Balancer!Instances],
         \A r \in Services \ {s} : strategy'[r] = strategy[r] /\ up'[r] = up[r]
  PROVE  Shared'
<1>1. /\ currentWeight' \in Nat
      /\ picks'[s] = Balancer!Unpicked
      /\ \A r \in Services \ {s} : picks'[r] = picks[r]
      /\ Size \in Nat /\ Weight \in [Balancer!Instances -> Nat]
    BY SelectionAssumption DEF Turning, Shared, Balancer!Instances
<1>2. ASSUME NEW r \in Services, strategy'[r] = "weighted_round_robin", up'[r] # {}
      PROVE  ByShares(up'[r], picks'[r], currentWeight')
    <2>1. CASE r = s
        <3>1. up'[s] \in SUBSET Balancer!Instances
            OBVIOUS
        <3>2. QED
            BY <1>1, <2>1, <3>1, UnpickedByShares
    <2>2. CASE r # s
        BY <1>1, <1>2, <2>2 DEF Shared
    <2>3. QED
        BY <2>1, <2>2
<1>3. QED
    BY <1>1, <1>2 DEF Shared

LEMMA SharedNext ==
  ASSUME Turning, Shared, [Balancer!Next]_(Balancer!vars) PROVE Shared'
<1>1. CASE UNCHANGED Balancer!vars
    BY <1>1 DEF Balancer!vars, Shared
<1>2. ASSUME NEW s \in Services, Balancer!Select(s) PROVE Shared'
    BY <1>2, RoundRobinKeepsShared, WeightedKeepsShared DEF Balancer!Select
<1>3. ASSUME NEW s \in Services, NEW i \in Balancer!Instances, Balancer!ChangeHealth(s, i)
      PROVE  Shared'
    <2>1. /\ up' \in [Services -> SUBSET Balancer!Instances]
          /\ \A r \in Services \ {s} : up'[r] = up[r]
        BY <1>3 DEF Balancer!ChangeHealth, Turning
    <2>2. QED
        BY <1>3, <2>1, ChangeKeepsShared DEF Balancer!ChangeHealth, Turning
<1>4. ASSUME NEW s \in Services, NEW to \in Strategies, Balancer!SetStrategy(s, to)
      PROVE  Shared'
    <2>1. \A r \in Services \ {s} : strategy'[r] = strategy[r]
        BY <1>4 DEF Balancer!SetStrategy, Turning
    <2>2. QED
        BY <1>4, <2>1, ChangeKeepsShared DEF Balancer!SetStrategy, Turning
<1>5. QED
    BY <1>1, <1>2, <1>3, <1>4 DEF Balancer!Next, Strategies

\* For any services, instances and weights, none of them positive included: over any
\* number of selections in a row from an unchanged list, k full turns give every
\* instance k times its weight, with at most its weight and one pick more, wherever
\* other services or a change of the list left the cursor that all services share
\* (WeightedRoundRobinBalancer.select).
THEOREM WeightedIsFair == Balancer!Spec => []Balancer!ByWeight
<1>1. Turning /\ Shared => Balancer!ByWeight
    <2> SUFFICES ASSUME Turning, Shared, NEW s \in Services,
                        strategy[s] = "weighted_round_robin",
                        Balancer!TotalWeight(Balancer!HealthyInstances(s)) > 0,
                        NEW i \in up[s]
                 PROVE  LET total == Balancer!TotalWeight(Balancer!HealthyInstances(s))
                            n     == Balancer!Picked(s)
                        IN  /\ picks[s][i] <= ((n \div total) + 1) * Weight[i] + 1
                            /\ picks[s][i] >= ((n - 1) \div total) * Weight[i]
        BY DEF Balancer!ByWeight
    <2> DEFINE S == up[s]
               n == Cardinality(S)
               list == Balancer!InOrder(S)
    <2>1. /\ S \in SUBSET Balancer!Instances /\ Size \in Nat /\ currentWeight \in Nat
          /\ Weight \in [Balancer!Instances -> Nat]
          /\ ByShares(S, picks[s], currentWeight)
        BY SelectionAssumption DEF Turning, Shared, Balancer!Instances
    <2>2. /\ Balancer!TotalWeight(Balancer!HealthyInstances(s)) = Sum(Weights(S), n)
          /\ Balancer!Picked(s) = Balancer!Total(picks[s])
        BY <2>1, ListIsFinite, SumsOfList DEF Balancer!HealthyInstances, Balancer!Picked
    <2>3. n \in Nat /\ Weights(S) \in [1..n -> Nat]
        BY <2>1, WeightsType
    <2>4. PICK k \in 1..n : list[k] = i
        BY <2>1, ListIsFinite, ListsEach
    <2>5. Weights(S)[k] = Weight[i] /\ Counts(S, picks[s])[k] = picks[s][i]
        BY <2>4 DEF Weights, Counts
    <2> HIDE DEF S, n, list
    <2>6. InProportion(Weights(S), n, Counts(S, picks[s]), Balancer!Total(picks[s]), currentWeight)
        BY <2>1 DEF ByShares, n
    <2>7. Sum(Weights(S), n) > 0
        BY <2>2
    <2>8. /\ Counts(S, picks[s])[k]
               <= ((Balancer!Total(picks[s]) \div Sum(Weights(S), n)) + 1) * Weights(S)[k] + 1
          /\ Counts(S, picks[s])[k]
               >= ((Balancer!Total(picks[s]) - 1) \div Sum(Weights(S), n)) * Weights(S)[k]
        BY <2>1, <2>3, <2>6, <2>7, ProportionIsFair
    <2>9. QED
        BY <2>2, <2>5, <2>8
<1>2. Balancer!Init => Turning /\ Shared
    BY SelectionAssumption, TurningInit, SharedInit
<1>3. Turning /\ Shared /\ [Balancer!Next]_(Balancer!vars) => Turning' /\ Shared'
    BY SelectionAssumption, TurningNext, SharedNext
<1>4. QED
    BY <1>1, <1>2, <1>3, PTL DEF Balancer!Spec
-----------------------------------------------------------------------------
\* Beside one another.

LEMMA PartsTurn ==
  [SelectionNext]_selectionVars => [Balancer!Next]_(Balancer!vars)
BY DEF SelectionNext, selectionVars, balancerVars, registryVars, Balancer!vars

LEMMA PartsRegister ==
  [SelectionNext]_selectionVars => [Registry!Next]_(Registry!vars)
BY DEF SelectionNext, selectionVars, balancerVars, registryVars, Registry!vars

\* For any services, instances and weights: what WeightedIsFair and RoundRobinIsEven
\* say of the balancer holds of the composition that the run checks.
THEOREM SelectionIsFair == SelectionSpec => []Fair
<1>1. SelectionSpec => Balancer!Spec
    <2>1. SelectionInit => Balancer!Init
        BY DEF SelectionInit
    <2>2. QED
        BY <2>1, PartsTurn, PTL DEF SelectionSpec, Balancer!Spec
<1>2. Balancer!Evenly /\ Balancer!ByWeight => Fair
    BY DEF Fair
<1>3. QED
    BY <1>1, <1>2, RoundRobinIsEven, WeightedIsFair, PTL

\* For any services and any URLs: an entry of the health index belongs to an instance
\* registered under that id (deregister_service), the health check task reading along.
THEOREM SelectionTracks == SelectionSpec => []TrackedIsRegistered
<1>1. SelectionInit => Indexed
    BY IndexedInit DEF SelectionInit
<1>2. Indexed /\ [SelectionNext]_selectionVars => Indexed'
    BY PartsRegister, IndexedNext
<1>3. Indexed => TrackedIsRegistered
    BY DEF Indexed, TrackedIsRegistered
<1>4. QED
    BY <1>1, <1>2, <1>3, PTL DEF SelectionSpec
=============================================================================
