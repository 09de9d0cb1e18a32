------------------------------ MODULE Selection ------------------------------
(***************************************************************************)
(* What the gateway selects an instance with: the balancer and the         *)
(* registry of its services.  Neither reads what the other one writes here *)
(* (the balancer's lists change in any way, whoever changes them), so that *)
(* one of them acts in a behavior and the other one rests.                 *)
(***************************************************************************)
EXTENDS Naturals, Sequences

CONSTANTS Services,   \* service names
          Configured, \* the sequence of services init_service_discovery registers
          Urls,       \* service URLs
          Size,       \* instances a service has for the balancer
          Weight,     \* the weight of each
          MaxPicks    \* bound on the picks counted

\* The management API takes no negative weight (ServiceRegistration.weight).
ASSUME SelectionAssumption == Size \in Nat /\ Weight \in [1..Size -> Nat]

VARIABLES part,
          strategy, current, currentWeight, up, picks,   \* of the balancer
          known, registry, index, pass                   \* of the registry

Balancer == INSTANCE RoundRobin
Registry == INSTANCE ServiceRegistry

balancerVars == <<strategy, current, currentWeight, up, picks>>
registryVars == <<known, registry, index, pass>>
selectionVars == <<part, balancerVars, registryVars>>

SelectionInit ==
  /\ part \in {"balancer", "registry"}
  /\ Balancer!Init
  /\ Registry!Init

SelectionNext ==
  /\ \/ part = "balancer" /\ Balancer!Next /\ UNCHANGED registryVars
     \/ part = "registry" /\ Registry!Next /\ UNCHANGED balancerVars
  /\ UNCHANGED part

\* Probes have a timeout and the sleep between passes ends.
SelectionFairness ==
  part = "registry" => WF_registryVars(Registry!BeginPass) /\ WF_registryVars(Registry!Probed)

SelectionSpec == SelectionInit /\ [][SelectionNext]_selectionVars /\ SelectionFairness

\* Requests in a row are spread evenly or by weight, wherever the other service or a
\* change of the list left the cursor (the select methods of load_balancer.py).
Fair == Balancer!Evenly /\ Balancer!ByWeight

\* No instance that was deregistered stays tracked (deregister_service).
TrackedIsRegistered == Registry!TrackedIsRegistered

\* Every registered instance is probed again and again (health_check_task).
ProbedAgain == part = "registry" => Registry!ProbedAgain
=============================================================================
