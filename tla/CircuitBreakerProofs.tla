------------------------ MODULE CircuitBreakerProofs ------------------------
(***************************************************************************)
(* The breaker's invariants, and the contract it keeps, for every number   *)
(* of tasks, every pair of thresholds and every recovery timeout.          *)
(***************************************************************************)
EXTENDS CircuitBreakerHistory, TLAPS

-----------------------------------------------------------------------------
LEMMA NewBreakerType == NewBreaker \in Breaker
BY ThresholdsAssumption DEF NewBreaker, Breaker, CircuitState, NoFailure

\* Each method keeps a breaker well typed and consistent; the two facts need each
\* other.
LEMMA OnCallKeeps ==
  ASSUME NEW b \in Breaker, BreakerConsistent(b)
  PROVE  OnCall(b) \in Breaker /\ BreakerConsistent(OnCall(b))
BY ThresholdsAssumption
   DEF OnCall, ShouldAttemptReset, Breaker, CircuitState, NoFailure, BreakerConsistent

LEMMA RecordSuccessKeeps ==
  ASSUME NEW b \in Breaker, BreakerConsistent(b)
  PROVE  RecordSuccess(b) \in Breaker /\ BreakerConsistent(RecordSuccess(b))
BY ThresholdsAssumption
   DEF RecordSuccess, Breaker, CircuitState, NoFailure, BreakerConsistent

LEMMA RecordFailureKeeps ==
  ASSUME NEW b \in Breaker, BreakerConsistent(b)
  PROVE  RecordFailure(b) \in Breaker /\ BreakerConsistent(RecordFailure(b))
BY ThresholdsAssumption
   DEF RecordFailure, CountFailure, Breaker, CircuitState, NoFailure, BreakerConsistent

LEMMA ResetBreakerKeeps ==
  ASSUME NEW b \in Breaker
  PROVE  ResetBreaker(b) \in Breaker /\ BreakerConsistent(ResetBreaker(b))
BY ThresholdsAssumption
   DEF ResetBreaker, NewBreaker, Breaker, CircuitState, NoFailure, BreakerConsistent

LEMMA AgeBreakerKeeps ==
  ASSUME NEW b \in Breaker, BreakerConsistent(b)
  PROVE  AgeBreaker(b) \in Breaker /\ BreakerConsistent(AgeBreaker(b))
BY ThresholdsAssumption
   DEF AgeBreaker, Breaker, CircuitState, NoFailure, BreakerConsistent

-----------------------------------------------------------------------------
Inv == TypeOK /\ Consistent

LEMMA InitInv == Init => Inv
BY NewBreakerType, ThresholdsAssumption
DEF Init, Inv, TypeOK, Consistent, NewBreaker, NoFailure

LEMMA InvNext == Inv /\ [Next]_vars => Inv'
<1> SUFFICES ASSUME Inv, [Next]_vars PROVE Inv'
    OBVIOUS
<1> USE DEF Inv, TypeOK, Consistent
<1>b. breaker \in Breaker /\ BreakerConsistent(breaker)
    BY DEF BreakerConsistent
<1>q. SUFFICES /\ running' \in SUBSET Calls
               /\ breaker' \in Breaker /\ BreakerConsistent(breaker')
    BY DEF BreakerConsistent
<1>1. ASSUME NEW c \in Calls, Call(c)
      PROVE  running' \in SUBSET Calls /\ breaker' \in Breaker /\ BreakerConsistent(breaker')
    BY <1>1, <1>b, OnCallKeeps DEF Call
<1>1a. ASSUME NEW c \in Calls, CallFails(c)
      PROVE  running' \in SUBSET Calls /\ breaker' \in Breaker /\ BreakerConsistent(breaker')
    <2>1. OnCall(breaker) \in Breaker /\ BreakerConsistent(OnCall(breaker))
        BY <1>b, OnCallKeeps
    <2>2. /\ RecordFailure(OnCall(breaker)) \in Breaker
          /\ BreakerConsistent(RecordFailure(OnCall(breaker)))
        BY <2>1, RecordFailureKeeps
    <2>3. QED
        BY <1>1a, <2>1, <2>2 DEF CallFails
<1>2. ASSUME NEW c \in Calls, Succeed(c)
      PROVE  running' \in SUBSET Calls /\ breaker' \in Breaker /\ BreakerConsistent(breaker')
    BY <1>2, <1>b, RecordSuccessKeeps DEF Succeed
<1>3. ASSUME NEW c \in Calls, Fail(c)
      PROVE  running' \in SUBSET Calls /\ breaker' \in Breaker /\ BreakerConsistent(breaker')
    BY <1>3, <1>b, RecordFailureKeeps DEF Fail
<1>4. ASSUME NEW c \in Calls, Cancel(c)
      PROVE  running' \in SUBSET Calls /\ breaker' \in Breaker /\ BreakerConsistent(breaker')
    BY <1>4, <1>b DEF Cancel
<1>5. CASE HealthFailure
    BY <1>5, <1>b, RecordFailureKeeps DEF HealthFailure
<1>6. CASE Reset
    BY <1>6, <1>b, ResetBreakerKeeps DEF Reset
<1>7. CASE Tick
    BY <1>7, <1>b, AgeBreakerKeeps DEF Tick
<1>8. CASE UNCHANGED vars
    BY <1>8, <1>b DEF vars
<1>9. QED
    BY <1>1, <1>1a, <1>2, <1>3, <1>4, <1>5, <1>6, <1>7, <1>8 DEF Next

LEMMA BreakerInvariant == Spec => []Inv
BY InitInv, InvNext, PTL DEF Spec

\* For any set of tasks and any thresholds: the counters and the time stay in range.
THEOREM BreakerTyped == Spec => []TypeOK
<1>1. Inv => TypeOK
    BY DEF Inv
<1>2. QED
    BY <1>1, BreakerInvariant, PTL

\* For any set of tasks and any thresholds: no mode is kept past its threshold, and
\* an open breaker always has the time of a failure, so it is never stuck open for
\* want of one, whatever the order in which outcomes are reported.
THEOREM BreakerSafety == Spec => []Consistent
<1>1. Inv => Consistent
    BY DEF Inv
<1>2. QED
    BY <1>1, BreakerInvariant, PTL

-----------------------------------------------------------------------------
\* What ties the breaker's counters to the history the contract speaks of.  The
\* two counts of failures have caps of their own and agree below the threshold;
\* successes agree where they decide; a failure reported to an open breaker resets
\* the time it waits from, never the time it has been open.
RunsAgree ==
  /\ failRun \in Nat /\ okRun \in Nat /\ openFor \in Nat
  /\ \/ breaker.failureCount = failRun
     \/ /\ breaker.failureCount >= FailureThreshold
        /\ failRun >= FailureThreshold
  /\ breaker.state = "HALF_OPEN" => breaker.successCount = okRun
  /\ breaker.state = "OPEN" => breaker.lastFailure <= openFor

HInv == Inv /\ RunsAgree

\* Every step of the breaker with its history is one of the breaker, so that what
\* was proved of those holds.
LEMMA HistoryFollows ==
  /\ HInit => Init
  /\ [HNext]_<<vars, history>> => [Next]_vars
<1>1. HInit => Init
    BY DEF HInit
<1>2. HNext => Next
    BY DEF HNext, Next, HCall, HCallFails, HSucceed, HFail, HCancel, HHealthFailure,
           HReset, HTick
<1>3. QED
    BY <1>1, <1>2 DEF vars

\* One step of the history keeps the tie and is a step of the contract or none.
Keeps == RunsAgree' /\ [Contract!Next]_(Contract!vars)

LEMMA CallKeepsContract ==
  ASSUME HInv, NEW c \in Calls, HCall(c)
  PROVE  Keeps
<1> USE HistoryAssumption, ThresholdsAssumption
<1> USE DEF HInv, Inv, TypeOK, Breaker, CircuitState, NoFailure
<1>1. breaker' = OnCall(breaker)
    BY DEF HCall, Call
<1>2. CASE breaker' = breaker
    <2>1. UNCHANGED <<breaker, history>>
        BY <1>2 DEF HCall, history
    <2>2. QED
        BY <2>1 DEF Keeps, RunsAgree, history, Contract!vars
<1>3. CASE breaker' # breaker
    <2>1. /\ breaker.state = "OPEN" /\ breaker.lastFailure >= RecoveryTimeout
          /\ breaker'.state = "HALF_OPEN" /\ breaker'.successCount = 0
          /\ breaker'.failureCount = breaker.failureCount
        BY <1>1, <1>3 DEF OnCall, ShouldAttemptReset
    <2>2. okRun' = 0 /\ UNCHANGED <<failRun, openFor>>
        BY <2>1 DEF HCall
    <2>3. RunsAgree'
        BY <2>1, <2>2 DEF RunsAgree
    <2>4. Contract!HalfOpen
        BY <2>1, <2>2 DEF RunsAgree, Contract!HalfOpen
    <2>5. QED
        BY <2>3, <2>4 DEF Keeps, Contract!Next
<1>4. QED
    BY <1>2, <1>3

LEMMA SuccessKeepsContract ==
  ASSUME HInv, NEW c \in Calls, HSucceed(c)
  PROVE  Keeps
<1> USE HistoryAssumption, ThresholdsAssumption
<1> USE DEF HInv, Inv, TypeOK, Breaker, CircuitState, NoFailure
<1>1. /\ breaker' = RecordSuccess(breaker)
      /\ failRun' = 0 /\ okRun' = Seen(okRun) /\ UNCHANGED openFor
    BY DEF HSucceed, Succeed
<1>2. RunsAgree'
    <2>1. CASE breaker.state = "HALF_OPEN"
        <3>1. /\ breaker.successCount = okRun /\ okRun < RunCap
              /\ breaker'.successCount = okRun + 1 /\ okRun' = okRun + 1
            BY <1>1, <2>1 DEF RunsAgree, RecordSuccess, Seen, Consistent
        <3>2. breaker'.failureCount = 0 /\ breaker'.state # "OPEN"
            BY <1>1, <2>1 DEF RecordSuccess
        <3>3. QED
            BY <1>1, <3>1, <3>2 DEF RunsAgree
    <2>2. CASE breaker.state # "HALF_OPEN"
        <3>1. /\ breaker'.failureCount = 0 /\ breaker'.state = breaker.state
              /\ breaker'.lastFailure = breaker.lastFailure
            BY <1>1, <2>2 DEF RecordSuccess
        <3>2. QED
            BY <1>1, <2>2, <3>1 DEF RunsAgree, Seen
    <2>3. QED
        BY <2>1, <2>2
<1>3. Contract!Success
    BY <1>1 DEF RunsAgree, RecordSuccess, Seen, Consistent, Contract!Success, Contract!UpTo
<1>4. QED
    BY <1>2, <1>3 DEF Keeps, Contract!Next

\* A failure, of a call or of a health check, reported in any mode.
LEMMA FailureKeepsContract ==
  ASSUME HInv, breaker' = RecordFailure(breaker), FailureSeen
  PROVE  Keeps
<1> USE HistoryAssumption, ThresholdsAssumption
<1> USE DEF HInv, Inv, TypeOK, Breaker, CircuitState, NoFailure
<1>1. RunsAgree'
    BY DEF RunsAgree, RecordFailure, CountFailure, FailureSeen, Seen
<1>2. Contract!Failure
    BY DEF RunsAgree, RecordFailure, CountFailure, FailureSeen, Seen, Contract!Failure,
           Contract!UpTo
<1>3. QED
    BY <1>1, <1>2 DEF Keeps, Contract!Next

\* A call that fails at once: refused, the failed probe of a breaker that half-opened
\* for it, or a plain failure.
LEMMA CallFailsKeepsContract ==
  ASSUME HInv, NEW c \in Calls, HCallFails(c)
  PROVE  Keeps
<1> USE HistoryAssumption, ThresholdsAssumption
<1> USE DEF HInv, Inv, TypeOK, Breaker, CircuitState, NoFailure
<1>1. CASE OnCall(breaker).state = "OPEN"
    <2>1. UNCHANGED <<breaker, history>>
        BY <1>1 DEF HCallFails, CallFails, OnCall
    <2>2. QED
        BY <2>1 DEF Keeps, RunsAgree, history, Contract!vars
<1>2. CASE OnCall(breaker) = breaker /\ breaker.state # "OPEN"
    <2>1. breaker' = RecordFailure(breaker)
        BY <1>2 DEF HCallFails, CallFails
    <2>2. FailureSeen
        BY <1>2, <2>1 DEF HCallFails, FailureSeen, RecordFailure
    <2>3. QED
        BY <2>1, <2>2, FailureKeepsContract
<1>3. CASE OnCall(breaker).state # "OPEN" /\ breaker.state = "OPEN"
    <2> DEFINE b == OnCall(breaker)
    <2>1. /\ breaker.lastFailure >= RecoveryTimeout
          /\ b.state = "HALF_OPEN" /\ b.successCount = 0
          /\ b.failureCount = breaker.failureCount /\ b.lastFailure = breaker.lastFailure
        BY <1>3 DEF OnCall, ShouldAttemptReset
    <2>2. /\ breaker' = RecordFailure(b)
          /\ failRun' = Seen(failRun) /\ okRun' = 0
          /\ openFor' = IF b.state # breaker'.state THEN 0 ELSE openFor
        BY <1>3 DEF HCallFails, CallFails
    <2> HIDE DEF b
    <2>3. RunsAgree'
        BY <1>3, <2>1, <2>2 DEF RunsAgree, RecordFailure, CountFailure, Seen
    <2>4. Contract!ProbeFails
        BY <1>3, <2>1, <2>2
        DEF RunsAgree, RecordFailure, CountFailure, Seen, Contract!ProbeFails, Contract!UpTo
    <2>5. QED
        BY <2>3, <2>4 DEF Keeps, Contract!Next
<1>4. QED
    BY <1>1, <1>2, <1>3 DEF OnCall

LEMMA TickKeepsContract ==
  ASSUME HInv, HTick
  PROVE  Keeps
<1> USE HistoryAssumption, ThresholdsAssumption
<1> USE DEF HInv, Inv, TypeOK, Breaker, CircuitState, NoFailure
<1>1. /\ breaker' = AgeBreaker(breaker)
      /\ openFor' = IF breaker.state = "OPEN" THEN Seen(openFor) ELSE openFor
      /\ UNCHANGED <<failRun, okRun>>
    BY DEF HTick, Tick
<1>2. RunsAgree'
    BY <1>1 DEF RunsAgree, AgeBreaker, Seen
<1>3. CASE breaker.state = "OPEN"
    <2>1. Contract!Elapse
        BY <1>1, <1>3 DEF AgeBreaker, Seen, Contract!Elapse, Contract!UpTo
    <2>2. QED
        BY <1>2, <2>1 DEF Keeps, Contract!Next
<1>4. CASE breaker.state # "OPEN"
    <2>1. UNCHANGED <<breaker.state, failRun, okRun, openFor>>
        BY <1>1, <1>4 DEF AgeBreaker
    <2>2. QED
        BY <1>2, <2>1 DEF Keeps, Contract!vars
<1>5. QED
    BY <1>3, <1>4

LEMMA HNextKeeps == HInv /\ [HNext]_<<vars, history>> => Keeps
<1> SUFFICES ASSUME HInv, [HNext]_<<vars, history>> PROVE Keeps
    OBVIOUS
<1>1. ASSUME NEW c \in Calls, HCall(c) PROVE Keeps
    BY <1>1, CallKeepsContract
<1>2. ASSUME NEW c \in Calls, HCallFails(c) PROVE Keeps
    BY <1>2, CallFailsKeepsContract
<1>3. ASSUME NEW c \in Calls, HSucceed(c) PROVE Keeps
    BY <1>3, SuccessKeepsContract
<1>4. ASSUME NEW c \in Calls, HFail(c) PROVE Keeps
    BY <1>4, FailureKeepsContract DEF HFail, Fail
<1>5. CASE UNCHANGED <<breaker, history>>
    BY <1>5 DEF HInv, RunsAgree, Keeps, history, Contract!vars
<1>6. ASSUME NEW c \in Calls, HCancel(c) PROVE Keeps
    BY <1>5, <1>6 DEF HCancel, Cancel
<1>7. CASE HHealthFailure
    BY <1>7, FailureKeepsContract DEF HHealthFailure, HealthFailure
<1>8. CASE HReset
    <2>1. breaker' = NewBreaker /\ failRun' = 0 /\ okRun' = 0 /\ UNCHANGED openFor
        BY <1>8 DEF HReset, Reset, ResetBreaker
    <2>2. Contract!Reset
        BY <2>1 DEF NewBreaker, Contract!Reset
    <2>3. RunsAgree'
        BY <2>1, ThresholdsAssumption DEF HInv, RunsAgree, NewBreaker
    <2>4. QED
        BY <2>2, <2>3 DEF Keeps, Contract!Next
<1>9. CASE HTick
    BY <1>9, TickKeepsContract
<1>10. CASE UNCHANGED <<vars, history>>
    BY <1>5, <1>10 DEF vars
<1>11. QED
    BY <1>1, <1>2, <1>3, <1>4, <1>6, <1>7, <1>8, <1>9, <1>10 DEF HNext

\* The breaker keeps its contract, whatever calls are in flight: it opens, half-opens
\* and closes where the runs of outcomes and the time say, though it has only its
\* counters (circuit_breaker.py).
THEOREM BreakerKeepsContract == HSpec => KeepsContract
<1>1. HInit => HInv /\ Contract!Init
    <2>1. HInit => Inv
        BY HistoryFollows, InitInv
    <2>2. HInit => RunsAgree /\ Contract!Init
        BY ThresholdsAssumption DEF HInit, Init, NewBreaker, RunsAgree, Contract!Init
    <2>3. QED
        BY <2>1, <2>2 DEF HInv
<1>2. HInv /\ [HNext]_<<vars, history>> => HInv' /\ [Contract!Next]_(Contract!vars)
    BY HNextKeeps, HistoryFollows, InvNext DEF HInv, Keeps
<1>3. QED
    BY <1>1, <1>2, PTL DEF HSpec, KeepsContract, Contract!Spec
=============================================================================
