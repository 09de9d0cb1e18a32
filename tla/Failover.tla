------------------------------- MODULE Failover -------------------------------
(***************************************************************************)
(* The failover manager: FailoverManager in failover/src/services/         *)
(* failover_manager.py, and the routes that start failovers in the         *)
(* background (api/routes.py).  One event loop, in which the monitoring    *)
(* loop and any number of background tasks execute failovers.  A step runs *)
(* from one await to the next.                                             *)
(*                                                                         *)
(* Every check of a region raises: line 142 evaluates RegionStatus.UNKNOWN *)
(* which models/schemas.py does not define.  So a pass of the monitoring   *)
(* loop hands every region to _handle_region_failure, the last step of a   *)
(* failover always fails, and what comes after it (line 355 on) and the    *)
(* save to Redis are never reached.  dns and ingress are what              *)
(* _update_dns_records and _redirect_traffic stand for; a change takes     *)
(* effect at the end of the sleep that simulates it.                       *)
(***************************************************************************)
EXTENDS Integers, Sequences

CONSTANTS Order,      \* self.regions: the secondary regions, then the primary
          Home,       \* CURRENT_REGION
          Requests,   \* background tasks of the API
          Monitor,    \* the monitoring loop
          Thresholds, \* values FAILOVER_THRESHOLD is given
          Cap,        \* bound: counters of failures stay there
          MaxAsked,   \* bound: failovers that operators ask for
          MaxFaults   \* bound: deaths of the process

Regions == {Order[i] : i \in 1..Len(Order)}
Primary == Order[Len(Order)]

ASSUME FailoverAssumption ==
  /\ Len(Order) \in Nat \ {0}
  /\ Home \in Regions
  /\ Monitor \notin Requests
  /\ Thresholds \subseteq Int
  /\ Cap \in Nat /\ \A h \in Thresholds : h <= Cap
  /\ MaxAsked \in Nat
  /\ MaxFaults \in Nat
  /\ \A i, j \in 1..Len(Order) : Order[i] = Order[j] => i = j

VARIABLES active,      \* current_active_region
          state,       \* failover_state
          health,      \* region_health: status and consecutive_failures
          auto,        \* AUTO_FAILOVER_ENABLED
          threshold,   \* FAILOVER_THRESHOLD
          monitor,     \* the pass: 0 between passes, else the next position
          run,         \* per task: where execute_failover is
          dns, ingress,  \* where traffic goes
          asked, faults, \* what the bounds limit
          watched,     \* a pass has ended since the start (history)
          cut          \* a death left traffic elsewhere, and no failover has
                       \* begun since (history)

settings == <<auto, threshold>>
traffic == <<dns, ingress>>
vars == <<active, state, health, settings, monitor, run, traffic, asked, faults,
          watched, cut>>

Tasks == Requests \cup {Monitor}
Places == {"none", "queued", "notify", "dns", "redirect", "configure",
           "undo_dns", "undo_redirect", "alert"}
NotRunning == [at |-> "none", from |-> Home, to |-> Home]

TypeOK ==
  /\ active \in Regions
  /\ state \in {"NORMAL", "FAILING_OVER"}
  /\ health \in [Regions -> [status : {"HEALTHY", "FAILED"}, failures : 0..Cap]]
  /\ auto \in BOOLEAN
  /\ threshold \in Thresholds
  /\ monitor \in 0..(Len(Order) + 1)
  /\ run \in [Tasks -> [at : Places, from : Regions, to : Regions]]
  /\ dns \in Regions
  /\ ingress \in Regions
  /\ asked \in 0..MaxAsked
  /\ faults \in 0..MaxFaults
  /\ {watched, cut} \subseteq BOOLEAN

\* A region is ACTIVE or STANDBY until it is first checked.
Fresh == [r \in Regions |-> [status |-> "HEALTHY", failures |-> 0]]

Init ==
  /\ active = Home
  /\ state = "NORMAL"
  /\ health = Fresh
  /\ auto \in BOOLEAN
  /\ threshold \in Thresholds
  /\ monitor = 0
  /\ run = [t \in Tasks |-> NotRunning]
  /\ dns = Home
  /\ ingress = Home
  /\ asked = 0
  /\ faults = 0
  /\ watched = FALSE
  /\ cut = FALSE

-----------------------------------------------------------------------------
\* execute_failover, step by step.
IsHealthy(h) == h.status = "HEALTHY"

Moving(t) == run[t].at \in {"notify", "dns", "redirect", "configure",
                            "undo_dns", "undo_redirect"}

Goto(t, place) == run' = [run EXCEPT ![t].at = place]

\* Up to its first await.
Begin(t, from, to) ==
  /\ state' = "FAILING_OVER"
  /\ run' = [run EXCEPT ![t] = [at |-> "notify", from |-> from, to |-> to]]
  /\ cut' = FALSE

\* The pre-checks, after the notification: what the last pass left of the target.
PreCheck(t) ==
  /\ run[t].at = "notify"
  /\ Goto(t, IF IsHealthy(health[run[t].to]) THEN "dns" ELSE "undo_dns")
  /\ UNCHANGED <<active, state, health, settings, monitor, traffic, asked, faults,
                 watched, cut>>

UpdateDns(t) ==
  /\ run[t].at = "dns"
  /\ dns' = run[t].to
  /\ Goto(t, "redirect")
  /\ UNCHANGED <<active, state, health, settings, monitor, ingress, asked, faults,
                 watched, cut>>

RedirectTraffic(t) ==
  /\ run[t].at = "redirect"
  /\ ingress' = run[t].to
  /\ Goto(t, "configure")
  /\ UNCHANGED <<active, state, health, settings, monitor, dns, asked, faults,
                 watched, cut>>

VerifyAgain(t) == \* near miss: a failed verification starts the steps over
  /\ run[t].at = "configure"
  /\ Goto(t, "redirect")
  /\ UNCHANGED <<active, state, health, settings, monitor, traffic, asked, faults,
                 watched, cut>>

\* After the service configurations, verify_service_health: the check raises.
VerifyServices(t) ==
  /\ run[t].at = "configure"
  /\ Goto(t, "undo_dns")
  /\ UNCHANGED <<active, state, health, settings, monitor, traffic, asked, faults,
                 watched, cut>>

\* _rollback_failover
RestoreDns(t) ==
  /\ run[t].at = "undo_dns"
  /\ dns' = run[t].from
  /\ Goto(t, "undo_redirect")
  /\ UNCHANGED <<active, state, health, settings, monitor, ingress, asked, faults,
                 watched, cut>>

RestoreOnlyDns(t) == \* near miss
  /\ run[t].at = "undo_redirect"
  /\ active' = run[t].from
  /\ state' = "NORMAL"
  /\ Goto(t, "alert")
  /\ UNCHANGED <<health, settings, monitor, traffic, asked, faults, watched, cut>>

RestoreTraffic(t) ==
  /\ run[t].at = "undo_redirect"
  /\ ingress' = run[t].from
  /\ active' = run[t].from
  /\ state' = "NORMAL"
  /\ Goto(t, "alert")
  /\ UNCHANGED <<health, settings, monitor, dns, asked, faults, watched, cut>>

\* The critical alert; the task ends, or the monitoring loop goes on with its pass.
Alert(t) ==
  /\ run[t].at = "alert"
  /\ run' = [run EXCEPT ![t] = NotRunning]
  /\ UNCHANGED <<active, state, health, settings, monitor, traffic, asked, faults,
                 watched, cut>>

-----------------------------------------------------------------------------
\* The routes.  With force or skip_health_check any region will do; the region to
\* leave is read now, the failover begins when the response is sent.
Ask(t, to) ==
  /\ asked < MaxAsked
  /\ run[t].at = "none"
  /\ asked' = asked + 1
  /\ run' = [run EXCEPT ![t] = [at |-> "queued", from |-> active, to |-> to]]
  /\ UNCHANGED <<active, state, health, settings, monitor, traffic, faults, watched, cut>>

AskFailback(t) ==
  /\ active # Primary
  /\ IsHealthy(health[Primary])
  /\ Ask(t, Primary)

BeginAsked(t) ==
  /\ run[t].at = "queued"
  /\ Begin(t, run[t].from, run[t].to)
  /\ UNCHANGED <<active, health, settings, monitor, traffic, asked, faults, watched>>

\* PUT /configuration.
Configure(enabled, limit) ==
  /\ auto' = enabled
  /\ threshold' = limit
  /\ UNCHANGED <<active, state, health, monitor, run, traffic, asked, faults, watched, cut>>

-----------------------------------------------------------------------------
\* The monitoring loop.  All checks are gathered; every one raises.
BeginPass ==
  /\ monitor = 0
  /\ monitor' = 1
  /\ UNCHANGED <<active, state, health, settings, run, traffic, asked, faults,
                 watched, cut>>

CountOnly(h) == \* near miss: the status is left as it was
  [h EXCEPT !.failures = IF @ < Cap THEN @ + 1 ELSE @]

\* _handle_region_failure, before it judges.
Counted(h) == [status |-> "FAILED", failures |-> IF h.failures < Cap THEN h.failures + 1
                                                                      ELSE h.failures]

\* Where the pass stops to act: at the active region, when it has failed often enough.
Stops ==
  {i \in monitor..Len(Order) :
     Order[i] = active /\ Counted(health[active]).failures >= threshold}

\* Regions are handled in the order of the list without an await, up to the one that
\* stops the pass or the last.
HandledTo(last) ==
  [r \in Regions |-> IF \E i \in monitor..last : Order[i] = r THEN Counted(health[r])
                                                               ELSE health[r]]

\* _select_failover_target, the sort by priority left open.
Targets(h) == {r \in Regions \ {active} : IsHealthy(h[r])}

\* _trigger_automatic_failover: a failover executed inside the loop, or an alert.
Trigger ==
  IF auto /\ Targets(health') # {}
    THEN \E to \in Targets(health') : Begin(Monitor, active, to)
    ELSE Goto(Monitor, "alert") /\ UNCHANGED <<state, cut>>

Waiting == run[Monitor].at = "none"

HandleUpToActive ==
  /\ monitor > 0 /\ Waiting
  /\ \E i \in Stops :
       /\ health' = HandledTo(i)
       /\ monitor' = i + 1
  /\ Trigger
  /\ UNCHANGED <<active, settings, traffic, asked, faults, watched>>

EndPass ==
  /\ monitor > 0 /\ Waiting
  /\ Stops = {}
  /\ health' = HandledTo(Len(Order))
  /\ monitor' = 0
  /\ watched' = TRUE
  /\ UNCHANGED <<active, state, settings, run, traffic, asked, faults, cut>>

-----------------------------------------------------------------------------
\* Death and restart: __init__ and initialize; _load_state finds nothing, for nothing
\* was ever saved.  What a failover under way had moved stays moved.
Restart(enabled, limit) ==
  /\ faults < MaxFaults
  /\ faults' = faults + 1
  /\ active' = Home
  /\ state' = "NORMAL"
  /\ health' = Fresh
  /\ auto' = enabled
  /\ threshold' = limit
  /\ monitor' = 0
  /\ run' = [t \in Tasks |-> NotRunning]
  /\ watched' = FALSE
  /\ cut' = (dns # Home \/ ingress # Home)
  /\ UNCHANGED <<traffic, asked>>

-----------------------------------------------------------------------------
Step(t) ==
  \/ PreCheck(t)
  \/ UpdateDns(t)
  \/ RedirectTraffic(t)
  \/ VerifyServices(t)
  \/ RestoreDns(t)
  \/ RestoreTraffic(t)
  \/ Alert(t)

Pass == BeginPass \/ HandleUpToActive \/ EndPass

Next ==
  \/ \E t \in Tasks : Step(t)
  \/ \E t \in Requests :
       \/ AskFailback(t)
       \/ BeginAsked(t)
       \/ \E to \in Regions : Ask(t, to)
  \/ Pass
  \/ \E enabled \in BOOLEAN, limit \in Thresholds :
       Configure(enabled, limit) \/ Restart(enabled, limit)

\* Sleeps and notifications end, and background tasks run.
Fairness ==
  /\ WF_vars(Pass)
  /\ \A t \in Tasks : WF_vars(Step(t))
  /\ \A t \in Requests : WF_vars(BeginAsked(t))

Spec == Init /\ [][Next]_vars /\ Fairness

-----------------------------------------------------------------------------
AtHome == dns = Home /\ ingress = Home

\* However failovers of the loop and of operators overlap, once none is under way the
\* state says so and all traffic is back where it was, with the active region: each
\* rollback restores what the region of its own event was, which is the same for all
\* because no failover has ever succeeded.  Deaths in the middle are excepted.
HomeAtRest ==
  (\A t \in Tasks : ~Moving(t)) =>
    /\ state = "NORMAL"
    /\ active = Home
    /\ cut \/ AtHome

\* The loop fails over at most in its first pass since the start: from then on every
\* region counts as failed, and a failed active region finds no target, whatever
\* thresholds and operators do.
AutomaticOnlyAtStart == watched => ~Moving(Monitor)

\* Traffic that a failover moves comes back, unless the process dies in between, and
\* then when the next failover fails in its turn; no rollback is held up by the loop's
\* pass or by failovers that overlap.
ComesHome == []<>(cut \/ (AtHome /\ state = "NORMAL"))
=============================================================================
