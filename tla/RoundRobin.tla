----------------------------- MODULE RoundRobin -----------------------------
(***************************************************************************)
(* The two rotating strategies of the API gateway's load balancer          *)
(* (core/load_balancer.py).  LoadBalancerManager holds one balancer object *)
(* per STRATEGY, so every service with that strategy turns the same        *)
(* cursor.                                                                 *)
(*                                                                         *)
(* picks counts, per service, what was selected since its list of healthy  *)
(* instances or its strategy last changed, or another service turned the   *)
(* cursor.                                                                 *)
(***************************************************************************)
EXTENDS Integers, FiniteSets, Sequences

CONSTANTS Services,
          Size,      \* instances of a service are 1..Size, in registry order
          Weight,    \* Weight[i], a natural number: ServiceInstance.weight of instance i
          MaxPicks   \* bound on the picks counted

Instances == 1..Size

VARIABLES strategy,       \* LoadBalancerManager._service_strategies
          current,        \* RoundRobinBalancer._current
          currentWeight,  \* WeightedRoundRobinBalancer._current_weight
          up,             \* the healthy instances of each service
          picks

vars == <<strategy, current, currentWeight, up, picks>>

\* The sum of a function's values, which are natural numbers, as the size of a set:
\* every x has f[x] pairs.
Pairs(f) == UNION {{x} \X (1..f[x]) : x \in DOMAIN f}
Total(f) == Cardinality(Pairs(f))

TotalWeight(list) == Total([k \in DOMAIN list |-> Weight[list[k]]])

AllWeight == TotalWeight([i \in Instances |-> i])

TypeOK ==
  /\ strategy \in [Services -> {"round_robin", "weighted_round_robin"}]
  /\ current \in 0..Size - 1
  /\ currentWeight \in 0..AllWeight
  /\ up \in [Services -> SUBSET Instances]
  /\ picks \in [Services -> [Instances -> 0..MaxPicks]]

Unpicked == [i \in Instances |-> 0]

Init ==
  /\ strategy = [s \in Services |-> "round_robin"]
  /\ current = 0
  /\ currentWeight = 0
  /\ up = [s \in Services |-> Instances]
  /\ picks = [s \in Services |-> Unpicked]

InOrder(S) ==
  CHOOSE list \in [1..Cardinality(S) -> S] :
    \A j, k \in 1..Cardinality(S) : j < k => list[j] < list[k]

\* [i for i in instances if i.healthy], in registry order
HealthyInstances(s) == InOrder(up[s])

Picked(s) == Total(picks[s])

Pick(s, i) ==
  picks' = [r \in Services |->
    IF r = s THEN [picks[s] EXCEPT ![i] = @ + 1]
    ELSE IF strategy[r] = strategy[s] THEN Unpicked ELSE picks[r]]

-----------------------------------------------------------------------------
\* A near miss for the mutation run.
StuckRoundRobin(s) ==
  LET list == HealthyInstances(s)
      n    == Len(list)
  IN  /\ Pick(s, list[(current % n) + 1])
      /\ current' = IF n > 1 THEN (current + 1) % (n - 1) ELSE 0
      /\ UNCHANGED currentWeight

-----------------------------------------------------------------------------
\* RoundRobinBalancer.select
SelectRoundRobin(s) ==
  LET list == HealthyInstances(s)
      n    == Len(list)
  IN  /\ Pick(s, list[(current % n) + 1])
      /\ current' = (current + 1) % n
      /\ UNCHANGED currentWeight

\* The choice of WeightedRoundRobinBalancer.select and the cursor it leaves: the
\* first instance whose cumulated weight exceeds the cursor; without any weight
\* the first one, the cursor untouched; past the total weight (the list shrank,
\* or another service's list was longer) the first one, the cursor at 0.
WeightedChoice(list) ==
  LET total == TotalWeight(list)
      upTo(k) == TotalWeight(SubSeq(list, 1, k))
      hit == CHOOSE k \in 1..Len(list) :
               currentWeight < upTo(k) /\ \A j \in 1..k - 1 : currentWeight >= upTo(j)
  IN  CASE total = 0 -> [inst |-> list[1], next |-> currentWeight]
        [] total > 0 /\ currentWeight < total ->
             [inst |-> list[hit], next |-> (currentWeight + 1) % total]
        [] OTHER -> [inst |-> list[1], next |-> 0]

SelectWeighted(s) ==
  LET choice == WeightedChoice(HealthyInstances(s))
  IN  /\ Pick(s, choice.inst)
      /\ currentWeight' = choice.next
      /\ UNCHANGED current

\* select_instance for a service with healthy instances (without any it
\* returns None before it touches the cursor).
Select(s) ==
  /\ up[s] # {}
  /\ Picked(s) < MaxPicks
  /\ IF strategy[s] = "round_robin" THEN SelectRoundRobin(s) ELSE SelectWeighted(s)
  /\ UNCHANGED <<strategy, up>>

\* A health check, a registration or a deregistration changes the list.
ChangeHealth(s, i) ==
  /\ up' = [up EXCEPT ![s] = IF i \in @ THEN @ \ {i} ELSE @ \cup {i}]
  /\ picks' = [picks EXCEPT ![s] = Unpicked]
  /\ UNCHANGED <<strategy, current, currentWeight>>

SetStrategy(s, to) ==
  /\ strategy' = [strategy EXCEPT ![s] = to]
  /\ picks' = [picks EXCEPT ![s] = Unpicked]
  /\ UNCHANGED <<current, currentWeight, up>>

Next ==
  \E s \in Services :
    \/ Select(s)
    \/ \E i \in Instances : ChangeHealth(s, i)
    \/ \E to \in {"round_robin", "weighted_round_robin"} : SetStrategy(s, to)

Spec == Init /\ [][Next]_vars

-----------------------------------------------------------------------------
\* docs/request-routing.md, "Requests distributed evenly in order": over any
\* number of selections in a row from an unchanged list, no instance is ahead of
\* another by more than one, wherever other services or a change of the list left
\* the cursor.
Evenly ==
  \A s \in Services : strategy[s] = "round_robin" =>
    \A i, j \in up[s] : picks[s][i] - picks[s][j] <= 1

\* "Distribution based on weights": k full turns give every healthy instance k
\* times its weight, an unfinished turn at most its weight more; one selection
\* more for the first instance when the cursor had to be put back to 0.
ByWeight ==
  \A s \in Services : strategy[s] = "weighted_round_robin" =>
    LET total == TotalWeight(HealthyInstances(s))
        n     == Picked(s)
    IN  total > 0 =>
          \A i \in up[s] :
            /\ picks[s][i] <= ((n \div total) + 1) * Weight[i] + 1
            /\ picks[s][i] >= ((n - 1) \div total) * Weight[i]
=============================================================================
