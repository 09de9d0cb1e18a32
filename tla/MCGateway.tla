------------------------------ MODULE MCGateway ------------------------------
(***************************************************************************)
(* The gateway's parts that its client does not compose, on small          *)
(* instances: a circuit breaker with its history, what an instance is      *)
(* selected with, and the checks of the rate limiter.  They share no       *)
(* state, so that one of them acts in a behavior and the others rest.      *)
(*                                                                         *)
(* The balancer has three instances of weights 3, 1 and 0: one that takes  *)
(* several turns and one that no weighted turn may select.  Of the         *)
(* registry's services one is configured at start-up, the other one        *)
(* appears later, while the health check task may be in the middle of a    *)
(* pass.                                                                   *)
(***************************************************************************)
EXTENDS CircuitBreakerHistory, Selection, RateLimiter

CONSTANTS s1, s2

MCServices == {s1, s2}
MCConfigured == <<s1>>
MCWeight == <<3, 1, 0>>

VARIABLE acting

breakerVars == <<vars, history>>

GatewayInit ==
  /\ acting \in {"breaker", "selection", "limiter"}
  /\ HInit /\ SelectionInit /\ LimiterInit
  /\ acting # "selection" => part = "balancer" /\ index[s1] = {<<1, "u1">>}
  /\ acting # "limiter" => rule = "fixed_window"

GatewayNext ==
  /\ \/ acting = "breaker" /\ HNext /\ UNCHANGED <<selectionVars, limiterVars>>
     \/ acting = "selection" /\ SelectionNext /\ UNCHANGED <<breakerVars, limiterVars>>
     \/ acting = "limiter" /\ LimiterNext /\ UNCHANGED <<breakerVars, selectionVars>>
  /\ UNCHANGED acting

\* The parts' own fairness; the parts at rest take no step.
GatewayFairness ==
  /\ WF_breakerVars(acting = "breaker" /\ \E c \in Calls : HCall(c))
  /\ \A c \in Calls : WF_breakerVars(acting = "breaker" /\ (HSucceed(c) \/ HFail(c) \/ HCancel(c)))
  /\ WF_breakerVars(acting = "breaker" /\ HTick)
  /\ WF_registryVars(part = "registry" /\ Registry!BeginPass)
  /\ WF_registryVars(part = "registry" /\ Registry!Probed)

GatewaySpec ==
  /\ GatewayInit /\ [][GatewayNext]_<<acting, breakerVars, selectionVars, limiterVars>>
  /\ GatewayFairness
=============================================================================
