---------------------------- MODULE FailoverProofs ----------------------------
(***************************************************************************)
(* Proofs about Failover, for any list of regions, any thresholds, any     *)
(* number of background tasks, requests and deaths.                        *)
(***************************************************************************)
EXTENDS Failover, TLAPS

\* Every event is from the region that is active, and that one never changes.
FromHome ==
  /\ active = Home
  /\ \A t \in Tasks : run[t].from = Home

\* Whatever is not as it was has a task that has yet to put it back: DNS one before
\* the first step of its rollback, the rest one before the second.
BeforeRestoreDns(t) == run[t].at \in {"notify", "dns", "redirect", "configure", "undo_dns"}

WillBeRestored ==
  /\ state = "FAILING_OVER" => \E t \in Tasks : Moving(t)
  /\ ~cut /\ dns # Home => \E t \in Tasks : BeforeRestoreDns(t)
  /\ ~cut /\ ingress # Home => \E t \in Tasks : Moving(t)

\* A pass leaves behind only failed regions, and no region recovers.
PassedFailed ==
  /\ \A i \in 1..Len(Order) :
       watched \/ i < monitor => health[Order[i]].status = "FAILED"
  /\ watched => run[Monitor].at \in {"none", "alert"}

IInv == TypeOK /\ FromHome /\ WillBeRestored /\ PassedFailed

-----------------------------------------------------------------------------
LEMMA MonitorIsTask == Monitor \in Tasks
  BY DEF Tasks

LEMMA InitIInv == Init => IInv
  <1> SUFFICES ASSUME Init PROVE IInv
    OBVIOUS
  <1> USE FailoverAssumption
  <1>1. NotRunning \in [at : Places, from : Regions, to : Regions]
    BY DEF NotRunning, Places
  <1>2. Fresh \in [Regions -> [status : {"HEALTHY", "FAILED"}, failures : 0..Cap]]
    BY DEF Fresh
  <1>3. 0 \in 0..(Len(Order) + 1)
    OBVIOUS
  <1>4. TypeOK
    <2>1. run \in [Tasks -> [at : Places, from : Regions, to : Regions]]
      BY <1>1 DEF Init
    <2>2. 0 \in 0..MaxAsked /\ 0 \in 0..MaxFaults
      OBVIOUS
    <2> QED
      BY <1>2, <1>3, <2>1, <2>2 DEF TypeOK, Init
  <1>5. FromHome
    BY DEF FromHome, Init, NotRunning
  <1>6. WillBeRestored
    BY DEF WillBeRestored, Init
  <1>7. PassedFailed
    <2>1. \A i \in 1..Len(Order) : ~(i < monitor)
      BY DEF Init
    <2> QED
      BY <2>1 DEF PassedFailed, Init
  <1> QED
    BY <1>4, <1>5, <1>6, <1>7 DEF IInv

-----------------------------------------------------------------------------
(* Goto and Begin keep the tasks well-formed, and from where they were. *)
LEMMA GotoTyped ==
  ASSUME TypeOK, FromHome, NEW t \in Tasks, NEW place \in Places, Goto(t, place)
  PROVE  /\ run' \in [Tasks -> [at : Places, from : Regions, to : Regions]]
         /\ \A o \in Tasks : run'[o].from = Home
         /\ run'[t].at = place
         /\ \A o \in Tasks \ {t} : run'[o] = run[o]
  BY DEF TypeOK, FromHome, Goto

LEMMA BeginTyped ==
  ASSUME TypeOK, FromHome, NEW t \in Tasks, NEW to \in Regions, Begin(t, Home, to)
  PROVE  /\ run' \in [Tasks -> [at : Places, from : Regions, to : Regions]]
         /\ state' \in {"NORMAL", "FAILING_OVER"}
         /\ cut' = FALSE
         /\ \A o \in Tasks : run'[o].from = Home
         /\ run'[t].at = "notify"
         /\ \A o \in Tasks \ {t} : run'[o] = run[o]
  <1>1. [at |-> "notify", from |-> Home, to |-> to] \in
          [at : Places, from : Regions, to : Regions]
    BY FailoverAssumption DEF Places
  <1> QED
    BY <1>1 DEF TypeOK, FromHome, Begin

\* A task that is taken on is one that everything not in place can wait for.
LEMMA BeginRestores ==
  ASSUME NEW t \in Tasks, run'[t].at = "notify"
  PROVE  WillBeRestored'
  BY DEF WillBeRestored, Moving, BeforeRestoreDns

(* Only what a pass changes bears on PassedFailed. *)
LEMMA PassedKept ==
  ASSUME PassedFailed, UNCHANGED <<health, monitor, watched>>,
         watched => run'[Monitor].at \in {"none", "alert"}
  PROVE  PassedFailed'
  BY DEF PassedFailed

\* While the loop has watched, its task is at rest or at the alert.
LEMMA GotoKeepsPassed ==
  ASSUME IInv, NEW t \in Tasks, UNCHANGED <<health, monitor, watched>>,
         t = Monitor /\ watched => run'[t].at \in {"none", "alert"},
         \A o \in Tasks \ {t} : run'[o] = run[o]
  PROVE  PassedFailed'
  <1>1. watched => run'[Monitor].at \in {"none", "alert"}
    BY MonitorIsTask DEF IInv, PassedFailed
  <1> QED
    BY <1>1, PassedKept DEF IInv

-----------------------------------------------------------------------------
LEMMA Advance ==
  ASSUME IInv, NEW t \in Tasks, run[t].at \notin {"none", "alert"},
         NEW place \in Places, Goto(t, place),
         dns' \in Regions, ingress' \in Regions,
         UNCHANGED <<active, state, health, settings, monitor, asked, faults, watched, cut>>
  PROVE  /\ TypeOK' /\ FromHome' /\ PassedFailed'
         /\ run'[t].at = place
         /\ \A o \in Tasks \ {t} : run'[o] = run[o]
  <1> USE DEF IInv
  <1>1. /\ run' \in [Tasks -> [at : Places, from : Regions, to : Regions]]
        /\ \A o \in Tasks : run'[o].from = Home
        /\ run'[t].at = place
        /\ \A o \in Tasks \ {t} : run'[o] = run[o]
    BY GotoTyped
  <1>2. TypeOK'
    BY <1>1 DEF TypeOK, settings
  <1>3. FromHome'
    BY <1>1 DEF FromHome
  <1>4. t # Monitor \/ ~watched
    BY DEF PassedFailed
  <1>5. PassedFailed'
    BY <1>1, <1>4, GotoKeepsPassed
  <1> QED
    BY <1>1, <1>2, <1>3, <1>5

LEMMA StepIInv ==
  ASSUME IInv, NEW t \in Tasks, Step(t)
  PROVE  IInv'
  <1> USE DEF IInv
  <1>0. /\ run[t].at \in Places /\ run[t].to \in Regions /\ run[t].from = Home
        /\ dns \in Regions /\ ingress \in Regions /\ Home \in Regions
    BY FailoverAssumption DEF TypeOK, FromHome
  <1>1. CASE PreCheck(t)
    <2> DEFINE place == IF IsHealthy(health[run[t].to]) THEN "dns" ELSE "undo_dns"
    <2>1. place \in Places /\ Goto(t, place)
      BY <1>1 DEF PreCheck, Places
    <2> HIDE DEF place
    <2>2. /\ TypeOK' /\ FromHome' /\ PassedFailed' /\ run'[t].at = place
          /\ \A o \in Tasks \ {t} : run'[o] = run[o]
      BY <1>0, <1>1, <2>1, Advance DEF PreCheck, traffic
    <2>3. WillBeRestored'
      BY <2>2 DEF WillBeRestored, Moving, BeforeRestoreDns, place
    <2> QED
      BY <2>2, <2>3
  <1>2. CASE UpdateDns(t)
    <2>1. Goto(t, "redirect") /\ "redirect" \in Places
      BY <1>2 DEF UpdateDns, Places
    <2>2. TypeOK' /\ FromHome' /\ PassedFailed' /\ run'[t].at = "redirect"
      BY <1>0, <1>2, <2>1, Advance DEF UpdateDns
    <2>3. WillBeRestored'
      BY <2>2 DEF WillBeRestored, Moving, BeforeRestoreDns
    <2> QED
      BY <2>2, <2>3
  <1>3. CASE RedirectTraffic(t)
    <2>1. Goto(t, "configure") /\ "configure" \in Places
      BY <1>3 DEF RedirectTraffic, Places
    <2>2. TypeOK' /\ FromHome' /\ PassedFailed' /\ run'[t].at = "configure"
      BY <1>0, <1>3, <2>1, Advance DEF RedirectTraffic
    <2>3. WillBeRestored'
      BY <2>2 DEF WillBeRestored, Moving, BeforeRestoreDns
    <2> QED
      BY <2>2, <2>3
  <1>4. CASE VerifyServices(t)
    <2>1. Goto(t, "undo_dns") /\ "undo_dns" \in Places
      BY <1>4 DEF VerifyServices, Places
    <2>2. TypeOK' /\ FromHome' /\ PassedFailed' /\ run'[t].at = "undo_dns"
      BY <1>0, <1>4, <2>1, Advance DEF VerifyServices, traffic
    <2>3. WillBeRestored'
      BY <2>2 DEF WillBeRestored, Moving, BeforeRestoreDns
    <2> QED
      BY <2>2, <2>3
  <1>5. CASE RestoreDns(t)
    <2>1. Goto(t, "undo_redirect") /\ "undo_redirect" \in Places
      BY <1>5 DEF RestoreDns, Places
    <2>2. TypeOK' /\ FromHome' /\ PassedFailed' /\ run'[t].at = "undo_redirect"
      BY <1>0, <1>5, <2>1, Advance DEF RestoreDns
    <2>3. WillBeRestored'
      BY <1>0, <1>5, <2>2 DEF RestoreDns, WillBeRestored, Moving
    <2> QED
      BY <2>2, <2>3
  <1>6. CASE RestoreTraffic(t)
    <2>1. Goto(t, "alert") /\ "alert" \in Places
      BY <1>6 DEF RestoreTraffic, Places
    <2>2. /\ run' \in [Tasks -> [at : Places, from : Regions, to : Regions]]
          /\ \A o \in Tasks : run'[o].from = Home
          /\ run'[t].at = "alert"
          /\ \A o \in Tasks \ {t} : run'[o] = run[o]
      BY <2>1, GotoTyped
    <2>3. TypeOK'
      BY <1>0, <1>6, <2>2 DEF RestoreTraffic, TypeOK, settings
    <2>4. FromHome'
      BY <1>0, <1>6, <2>2 DEF RestoreTraffic, FromHome
    <2>5. WillBeRestored'
      <3>1. state' = "NORMAL" /\ ingress' = Home /\ dns' = dns /\ cut' = cut
        BY <1>0, <1>6 DEF RestoreTraffic
      <3>2. ~BeforeRestoreDns(t)
        BY <1>6 DEF RestoreTraffic, BeforeRestoreDns
      <3>3. ASSUME ~cut, dns # Home
            PROVE  \E o \in Tasks : BeforeRestoreDns(o)'
        BY <2>2, <3>2, <3>3 DEF WillBeRestored, BeforeRestoreDns
      <3> QED
        BY <3>1, <3>3 DEF WillBeRestored
    <2>6. PassedFailed'
      BY <1>6, <2>2, GotoKeepsPassed DEF RestoreTraffic
    <2> QED
      BY <2>3, <2>4, <2>5, <2>6
  <1>7. CASE Alert(t)
    <2>1. NotRunning \in [at : Places, from : Regions, to : Regions]
      BY FailoverAssumption DEF NotRunning, Places
    <2>2. /\ run' \in [Tasks -> [at : Places, from : Regions, to : Regions]]
          /\ \A o \in Tasks : run'[o].from = Home
          /\ run'[t].at = "none"
          /\ \A o \in Tasks \ {t} : run'[o] = run[o]
      BY <1>7, <2>1 DEF Alert, TypeOK, FromHome, NotRunning
    <2>3. TypeOK'
      BY <1>7, <2>2 DEF Alert, TypeOK, settings, traffic
    <2>4. FromHome'
      BY <1>7, <2>2 DEF Alert, FromHome
    <2>5. WillBeRestored'
      <3>1. ~Moving(t) /\ ~BeforeRestoreDns(t)
        BY <1>7 DEF Alert, Moving, BeforeRestoreDns
      <3>2. \A o \in Tasks : /\ Moving(o) => Moving(o)'
                             /\ BeforeRestoreDns(o) => BeforeRestoreDns(o)'
        BY <2>2, <3>1 DEF Moving, BeforeRestoreDns
      <3> QED
        BY <1>7, <3>2 DEF Alert, WillBeRestored, traffic
    <2>6. PassedFailed'
      BY <1>7, <2>2, GotoKeepsPassed DEF Alert
    <2> QED
      BY <2>3, <2>4, <2>5, <2>6
  <1> QED
    BY <1>1, <1>2, <1>3, <1>4, <1>5, <1>6, <1>7 DEF Step

-----------------------------------------------------------------------------
\* Operators: a request is only taken down, its failover begun, the settings changed.
LEMMA AskIInv ==
  ASSUME IInv, NEW t \in Requests, NEW to \in Regions, Ask(t, to)
  PROVE  IInv'
  <1> USE DEF IInv
  <1>1. t \in Tasks /\ t # Monitor
    BY FailoverAssumption DEF Tasks
  <1>2. [at |-> "queued", from |-> active, to |-> to] \in
          [at : Places, from : Regions, to : Regions]
    BY DEF TypeOK, Places
  <1>3. /\ run' \in [Tasks -> [at : Places, from : Regions, to : Regions]]
        /\ \A o \in Tasks : run'[o].from = Home
        /\ \A o \in Tasks \ {t} : run'[o] = run[o]
    BY <1>1, <1>2 DEF Ask, TypeOK, FromHome
  <1>4. asked' \in 0..MaxAsked
    BY FailoverAssumption DEF Ask, TypeOK
  <1>5. TypeOK'
    BY <1>3, <1>4 DEF Ask, TypeOK, settings, traffic
  <1>6. FromHome'
    BY <1>3 DEF Ask, FromHome
  <1>7. WillBeRestored'
    <2>1. ~Moving(t) /\ ~BeforeRestoreDns(t)
      BY DEF Ask, Moving, BeforeRestoreDns
    <2>2. \A o \in Tasks : /\ Moving(o) => Moving(o)'
                           /\ BeforeRestoreDns(o) => BeforeRestoreDns(o)'
      BY <1>3, <2>1 DEF Moving, BeforeRestoreDns
    <2> QED
      BY <2>2 DEF Ask, WillBeRestored, traffic
  <1>8. PassedFailed'
    BY <1>1, <1>3, GotoKeepsPassed DEF Ask
  <1> QED
    BY <1>5, <1>6, <1>7, <1>8

LEMMA BeginAskedIInv ==
  ASSUME IInv, NEW t \in Requests, BeginAsked(t)
  PROVE  IInv'
  <1> USE DEF IInv
  <1>1. t \in Tasks /\ t # Monitor
    BY FailoverAssumption DEF Tasks
  <1>2. run[t].to \in Regions /\ Begin(t, Home, run[t].to)
    BY <1>1 DEF BeginAsked, TypeOK, FromHome
  <1>3. /\ run' \in [Tasks -> [at : Places, from : Regions, to : Regions]]
        /\ state' \in {"NORMAL", "FAILING_OVER"}
        /\ cut' = FALSE
        /\ \A o \in Tasks : run'[o].from = Home
        /\ run'[t].at = "notify"
        /\ \A o \in Tasks \ {t} : run'[o] = run[o]
    BY <1>1, <1>2, BeginTyped
  <1>4. TypeOK'
    BY <1>3 DEF BeginAsked, TypeOK, settings, traffic
  <1>5. FromHome'
    BY <1>3 DEF BeginAsked, FromHome
  <1>6. WillBeRestored'
    BY <1>1, <1>3, BeginRestores
  <1>7. PassedFailed'
    BY <1>1, <1>3, GotoKeepsPassed DEF BeginAsked
  <1> QED
    BY <1>4, <1>5, <1>6, <1>7

LEMMA ConfigureIInv ==
  ASSUME IInv, NEW enabled \in BOOLEAN, NEW limit \in Thresholds, Configure(enabled, limit)
  PROVE  IInv'
  <1> USE DEF IInv
  <1>1. TypeOK'
    BY DEF Configure, TypeOK, traffic
  <1>2. FromHome'
    BY DEF Configure, FromHome
  <1>3. WillBeRestored'
    BY DEF Configure, WillBeRestored, Moving, BeforeRestoreDns, traffic
  <1>4. PassedFailed'
    BY PassedKept DEF Configure, PassedFailed
  <1> QED
    BY <1>1, <1>2, <1>3, <1>4

-----------------------------------------------------------------------------
(* The pass of the monitoring loop. *)
LEMMA HandledTyped ==
  ASSUME TypeOK, NEW last \in 0..Len(Order)
  PROVE  HandledTo(last) \in [Regions -> [status : {"HEALTHY", "FAILED"}, failures : 0..Cap]]
  <1>1. ASSUME NEW r \in Regions
        PROVE  Counted(health[r]) \in [status : {"HEALTHY", "FAILED"}, failures : 0..Cap]
    <2>1. health[r].failures \in 0..Cap
      BY DEF TypeOK
    <2>2. (IF health[r].failures < Cap THEN health[r].failures + 1 ELSE health[r].failures)
            \in 0..Cap
      BY <2>1, FailoverAssumption
    <2> QED
      BY <2>2 DEF Counted
  <1> QED
    BY <1>1 DEF HandledTo, TypeOK

\* Once it has handled a position, all positions up to it hold failed regions.
LEMMA HandledFailed ==
  ASSUME TypeOK, PassedFailed, monitor > 0, NEW last \in 0..Len(Order),
         NEW i \in 1..Len(Order), watched \/ i <= last
  PROVE  HandledTo(last)[Order[i]].status = "FAILED"
  <1>1. Order[i] \in Regions
    BY DEF Regions
  <1>2. monitor \in Int /\ last \in Int /\ i \in Int
    BY FailoverAssumption DEF TypeOK
  <1>3. CASE \E j \in monitor..last : Order[j] = Order[i]
    BY <1>1, <1>3 DEF HandledTo, Counted
  <1>4. CASE ~ \E j \in monitor..last : Order[j] = Order[i]
    <2>1. i \notin monitor..last
      BY <1>4
    <2>2. watched \/ i < monitor
      BY <1>2, <2>1
    <2>3. health[Order[i]].status = "FAILED"
      BY <2>2 DEF PassedFailed
    <2> QED
      BY <1>1, <1>4, <2>3 DEF HandledTo
  <1> QED
    BY <1>3, <1>4

LEMMA BeginPassIInv ==
  ASSUME IInv, BeginPass
  PROVE  IInv'
  <1> USE DEF IInv
  <1>1. monitor' \in 0..(Len(Order) + 1)
    BY FailoverAssumption DEF BeginPass
  <1>2. TypeOK'
    BY <1>1 DEF BeginPass, TypeOK, settings, traffic
  <1>3. FromHome'
    BY DEF BeginPass, FromHome
  <1>4. WillBeRestored'
    BY DEF BeginPass, WillBeRestored, Moving, BeforeRestoreDns, traffic
  <1>5. \A i \in 1..Len(Order) : ~(i < monitor')
    BY FailoverAssumption DEF BeginPass
  <1>6. PassedFailed'
    BY <1>5 DEF BeginPass, PassedFailed
  <1> QED
    BY <1>2, <1>3, <1>4, <1>6

LEMMA HandleUpToActiveIInv ==
  ASSUME IInv, HandleUpToActive
  PROVE  IInv'
  <1> USE DEF IInv
  <1>1. PICK last \in Stops : health' = HandledTo(last) /\ monitor' = last + 1
    BY DEF HandleUpToActive
  <1>2. /\ last \in 0..Len(Order) /\ last \in monitor..Len(Order)
        /\ monitor \in Int /\ monitor > 0 /\ Len(Order) \in Int /\ last \in Int
    BY FailoverAssumption DEF Stops, HandleUpToActive, TypeOK
  <1>3. monitor' \in 0..(Len(Order) + 1)
    BY <1>1, <1>2
  <1>4. health' \in [Regions -> [status : {"HEALTHY", "FAILED"}, failures : 0..Cap]]
    BY <1>1, <1>2, HandledTyped
  <1>5. \A i \in 1..Len(Order) : watched \/ i < monitor' => health'[Order[i]].status = "FAILED"
    <2> SUFFICES ASSUME NEW i \in 1..Len(Order), watched \/ i < monitor'
                 PROVE  health'[Order[i]].status = "FAILED"
      OBVIOUS
    <2>1. watched \/ i <= last
      BY <1>1, <1>2
    <2> QED
      BY <1>1, <1>2, <2>1, HandledFailed
  <1>6. run[Monitor].at = "none" /\ Monitor \in Tasks
    BY MonitorIsTask DEF HandleUpToActive, Waiting
  <1>7. watched => Targets(health') = {}
    BY <1>5 DEF Targets, IsHealthy, Regions
  <1>8. CASE auto /\ Targets(health') # {}
    <2>1. PICK to \in Targets(health') : Begin(Monitor, active, to)
      BY <1>8 DEF HandleUpToActive, Trigger
    <2>2. to \in Regions /\ Begin(Monitor, Home, to)
      BY <2>1 DEF Targets, FromHome
    <2>3. /\ run' \in [Tasks -> [at : Places, from : Regions, to : Regions]]
          /\ state' \in {"NORMAL", "FAILING_OVER"}
          /\ cut' = FALSE
          /\ \A o \in Tasks : run'[o].from = Home
          /\ run'[Monitor].at = "notify"
      BY <1>6, <2>2, BeginTyped
    <2>4. TypeOK'
      BY <1>3, <1>4, <2>3 DEF HandleUpToActive, TypeOK, settings, traffic
    <2>5. FromHome'
      BY <2>3 DEF HandleUpToActive, FromHome
    <2>6. WillBeRestored'
      BY <1>6, <2>3, BeginRestores
    <2>7. ~watched /\ watched' = watched
      BY <1>7, <1>8 DEF HandleUpToActive
    <2>8. PassedFailed'
      BY <1>5, <2>7 DEF PassedFailed
    <2> QED
      BY <2>4, <2>5, <2>6, <2>8
  <1>9. CASE ~(auto /\ Targets(health') # {})
    <2>1. Goto(Monitor, "alert") /\ UNCHANGED <<state, cut>> /\ "alert" \in Places
      BY <1>9 DEF HandleUpToActive, Trigger, Places
    <2>2. /\ run' \in [Tasks -> [at : Places, from : Regions, to : Regions]]
          /\ \A o \in Tasks : run'[o].from = Home
          /\ run'[Monitor].at = "alert"
          /\ \A o \in Tasks \ {Monitor} : run'[o] = run[o]
      BY <1>6, <2>1, GotoTyped
    <2>3. TypeOK'
      BY <1>3, <1>4, <2>1, <2>2 DEF HandleUpToActive, TypeOK, settings, traffic
    <2>4. FromHome'
      BY <2>2 DEF HandleUpToActive, FromHome
    <2>5. WillBeRestored'
      <3>1. ~Moving(Monitor) /\ ~BeforeRestoreDns(Monitor)
        BY <1>6 DEF Moving, BeforeRestoreDns
      <3>2. \A o \in Tasks : /\ Moving(o) => Moving(o)'
                             /\ BeforeRestoreDns(o) => BeforeRestoreDns(o)'
        BY <2>2, <3>1 DEF Moving, BeforeRestoreDns
      <3> QED
        BY <2>1, <3>2 DEF HandleUpToActive, WillBeRestored, traffic
    <2>6. PassedFailed'
      BY <1>5, <2>2 DEF HandleUpToActive, PassedFailed
    <2> QED
      BY <2>3, <2>4, <2>5, <2>6
  <1> QED
    BY <1>8, <1>9

LEMMA EndPassIInv ==
  ASSUME IInv, EndPass
  PROVE  IInv'
  <1> USE DEF IInv
  <1>1. Len(Order) \in 0..Len(Order) /\ 0 \in 0..(Len(Order) + 1)
    BY FailoverAssumption
  <1>2. health' \in [Regions -> [status : {"HEALTHY", "FAILED"}, failures : 0..Cap]]
    BY <1>1, HandledTyped DEF EndPass
  <1>3. TypeOK'
    BY <1>1, <1>2 DEF EndPass, TypeOK, settings, traffic
  <1>4. FromHome'
    BY DEF EndPass, FromHome
  <1>5. WillBeRestored'
    BY DEF EndPass, WillBeRestored, Moving, BeforeRestoreDns, traffic
  <1>6. ASSUME NEW i \in 1..Len(Order)
        PROVE  health'[Order[i]].status = "FAILED"
    <2>1. i <= Len(Order)
      BY FailoverAssumption
    <2> QED
      BY <1>1, <2>1, HandledFailed DEF EndPass
  <1>7. run'[Monitor].at = "none"
    BY DEF EndPass, Waiting
  <1>8. PassedFailed'
    BY <1>6, <1>7 DEF PassedFailed
  <1> QED
    BY <1>3, <1>4, <1>5, <1>8

\* A death leaves only what it moved, and says so.
LEMMA RestartIInv ==
  ASSUME IInv, NEW enabled \in BOOLEAN, NEW limit \in Thresholds, Restart(enabled, limit)
  PROVE  IInv'
  <1> USE FailoverAssumption DEF IInv
  <1>1. NotRunning \in [at : Places, from : Regions, to : Regions]
    BY DEF NotRunning, Places
  <1>2. run' \in [Tasks -> [at : Places, from : Regions, to : Regions]]
    BY <1>1 DEF Restart
  <1>3. Fresh \in [Regions -> [status : {"HEALTHY", "FAILED"}, failures : 0..Cap]]
    BY DEF Fresh
  <1>4. faults' \in 0..MaxFaults /\ 0 \in 0..(Len(Order) + 1)
    BY DEF Restart, TypeOK
  <1>5. TypeOK'
    BY <1>2, <1>3, <1>4 DEF Restart, TypeOK, traffic
  <1>6. FromHome'
    BY DEF Restart, FromHome, NotRunning
  <1>7. WillBeRestored'
    BY DEF Restart, WillBeRestored, traffic
  <1>8. \A i \in 1..Len(Order) : ~(i < monitor')
    BY DEF Restart
  <1>9. PassedFailed'
    BY <1>8 DEF Restart, PassedFailed
  <1> QED
    BY <1>5, <1>6, <1>7, <1>9

LEMMA NextIInv == IInv /\ [Next]_vars => IInv'
  <1> SUFFICES ASSUME IInv, [Next]_vars PROVE IInv'
    OBVIOUS
  <1>1. ASSUME NEW t \in Tasks, Step(t) PROVE IInv'
    BY <1>1, StepIInv
  <1>2. ASSUME NEW t \in Requests, AskFailback(t) PROVE IInv'
    <2>1. Primary \in Regions
      BY FailoverAssumption DEF Primary, Regions
    <2> QED
      BY <1>2, <2>1, AskIInv DEF AskFailback
  <1>3. ASSUME NEW t \in Requests, BeginAsked(t) PROVE IInv'
    BY <1>3, BeginAskedIInv
  <1>4. ASSUME NEW t \in Requests, NEW to \in Regions, Ask(t, to) PROVE IInv'
    BY <1>4, AskIInv
  <1>5. ASSUME Pass PROVE IInv'
    BY <1>5, BeginPassIInv, HandleUpToActiveIInv, EndPassIInv DEF Pass
  <1>6. ASSUME NEW enabled \in BOOLEAN, NEW limit \in Thresholds,
               Configure(enabled, limit) \/ Restart(enabled, limit)
        PROVE  IInv'
    BY <1>6, ConfigureIInv, RestartIInv
  <1>7. CASE UNCHANGED vars
    <2>1. TypeOK'
      BY <1>7 DEF IInv, TypeOK, vars, settings, traffic
    <2>2. FromHome' /\ WillBeRestored'
      BY <1>7 DEF IInv, FromHome, WillBeRestored, Moving, BeforeRestoreDns, vars, traffic
    <2>3. PassedFailed'
      BY <1>7, PassedKept DEF IInv, PassedFailed, vars
    <2> QED
      BY <2>1, <2>2, <2>3 DEF IInv
  <1> QED
    BY <1>1, <1>2, <1>3, <1>4, <1>5, <1>6, <1>7 DEF Next

LEMMA SpecIInv == Spec => []IInv
  BY InitIInv, NextIInv, PTL DEF Spec

-----------------------------------------------------------------------------
\* The manager's state and the tasks stay well-formed, the counters of failed checks
\* included, which every pass increments.
THEOREM FailoverTyped == Spec => []TypeOK
  BY SpecIInv, PTL DEF IInv

\* However many failovers overlap, and whoever began them: once none is under way, the
\* state is NORMAL and all traffic is back, unless a death came between.
THEOREM FailoverComesHome == Spec => []HomeAtRest
  <1>1. IInv => HomeAtRest
    <2>1. \A t \in Tasks : BeforeRestoreDns(t) => Moving(t)
      BY DEF BeforeRestoreDns, Moving
    <2> QED
      BY <2>1 DEF IInv, TypeOK, FromHome, WillBeRestored, HomeAtRest, AtHome
  <1> QED
    BY <1>1, SpecIInv, PTL

\* For any list of regions and any thresholds: the loop never fails over again once a
\* pass has ended, since a pass fails every region it could fail over to.
THEOREM FailoverOnlyAtStart == Spec => []AutomaticOnlyAtStart
  <1>1. IInv => AutomaticOnlyAtStart
    BY DEF IInv, PassedFailed, AutomaticOnlyAtStart, Moving
  <1> QED
    BY <1>1, SpecIInv, PTL
=============================================================================
