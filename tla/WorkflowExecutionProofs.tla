----------------------- MODULE WorkflowExecutionProofs -----------------------
(***************************************************************************)
(* What the row of a workflow instance says of the work done, for every    *)
(* number of calls, task list, number of retries and set of tolerated      *)
(* failures.                                                               *)
(***************************************************************************)
EXTENDS WorkflowExecution, FiniteSetTheorems, TLAPS

\* What a call knows of its copy at each place where it will write it back.
CopyOK(c) ==
  /\ pc[c] = "write" => /\ mine[c].status \in {"paused", "running", "cancelled"}
                        /\ mine[c].status = "running" => op[c] = "resume"
  /\ pc[c] \in {"launch", "start"} => mine[c].status = "running"
  /\ pc[c] \in {"next", "task"} => /\ mine[c].status = "running"
                                   /\ at[c] <= NTasks
                                   /\ EndsIn(mine[c].path, at[c] - 1)
  /\ pc[c] = "final" => /\ mine[c].status \in {"pending", "failed", "completed"}
                        /\ mine[c].status = "completed" => EndsIn(mine[c].path, NTasks)
                        /\ mine[c].status = "failed" =>
                             mine[c].retries = MaxRetries \/ missed

CopiesOK == \A c \in Calls : CopyOK(c)

Steps(c) ==
  \/ \E o \in Ops : Begin(c, o)
  \/ Write(c)
  \/ Reload(c)
  \/ Launch(c)
  \/ LoadDefinition(c)
  \/ BeginTask(c)
  \/ Finish(c)
  \/ EndTask(c)
  \/ FailTask(c)
  \/ TimeOut(c)
  \/ Die(c)

-----------------------------------------------------------------------------
LEMMA NextIsSteps ==
  ASSUME Next
  PROVE  (\E c \in Calls : Steps(c)) \/ (\E b \in BOOLEAN : List(b))
BY DEF Next, Steps, Engine

LEMMA RowWithStatus ==
  ASSUME NEW r \in Row, NEW s \in Status
  PROVE  /\ [r EXCEPT !.status = s] \in Row
         /\ [r EXCEPT !.status = s].status = s
         /\ [r EXCEPT !.status = s].path = r.path
         /\ [r EXCEPT !.status = s].retries = r.retries
BY DEF Row

LEMMA FailedRow ==
  ASSUME NEW r \in Row
  PROVE  /\ Fail(r) \in Row
         /\ Fail(r).status \in {"pending", "failed"}
         /\ Fail(r).status = "failed" => Fail(r).retries = MaxRetries
<1>1. r.retries \in 0..MaxRetries
    BY DEF Row
<1>2. CASE r.retries < MaxRetries
    <2>1. Fail(r) = [status |-> "pending", path |-> r.path, retries |-> r.retries + 1]
        BY <1>2 DEF Fail
    <2>2. QED
        BY <1>1, <1>2, <2>1, WorkflowAssumption DEF Row, Status
<1>3. CASE ~(r.retries < MaxRetries)
    <2>1. r.retries = MaxRetries
        BY <1>1, <1>3, WorkflowAssumption
    <2>2. Fail(r) = [r EXCEPT !.status = "failed"] /\ "failed" \in Status
        BY <1>3 DEF Fail, Status
    <2>3. Fail(r) \in Row /\ Fail(r).status = "failed" /\ Fail(r).retries = r.retries
        BY <2>2, RowWithStatus
    <2>4. QED
        BY <2>1, <2>3
<1>4. QED
    BY <1>2, <1>3

LEMMA RowWithTask ==
  ASSUME NEW r \in Row, NEW k \in 1..NTasks, EndsIn(r.path, k - 1)
  PROVE  /\ [r EXCEPT !.path = Append(@, k)] \in Row
         /\ [r EXCEPT !.path = Append(@, k)].status = r.status
         /\ EndsIn([r EXCEPT !.path = Append(@, k)].path, k)
<1>1. r.path \in Seq(1..NTasks) /\ Append(r.path, k) \in Seq(1..NTasks)
    BY DEF Row
<1>2. [r EXCEPT !.path = Append(@, k)].path = Append(r.path, k)
    BY DEF Row
<1>3. EndsIn(Append(r.path, k), k)
    BY <1>1, WorkflowAssumption DEF EndsIn
<1>4. QED
    BY <1>1, <1>2, <1>3 DEF Row

-----------------------------------------------------------------------------
\* The state stays well typed (TypeOK), and a copy says what its call's place
\* promises, as long as the copies were right before.
LEMMA Typing ==
  ASSUME TypeOK, CopiesOK, [Next]_vars
  PROVE  TypeOK'
<1>1. ASSUME NEW c \in Calls, Steps(c)
      PROVE  TypeOK'
    <2> USE <1>1 DEF TypeOK, Executing
    <2>1. ASSUME NEW o \in Ops, Load(c, o)
          PROVE  /\ row' = row /\ listed' = listed /\ at' = at /\ history' = history
                 /\ pc' \in [Calls -> {"new", "write", "reload", "done", "dead"} \cup Executing]
                 /\ mine' \in [Calls -> Row]
        <3>1. Target(o) \in Status
            BY <2>1 DEF Ops, Target, Status
        <3>2. [row EXCEPT !.status = Target(o)] \in Row
            BY <3>1, RowWithStatus
        <3>3. QED
            BY <2>1, <3>2 DEF Load, Goto
    <2>2. ASSUME NEW r \in Row, NEW k \in 1..NTasks + 1, GoOn(c, r, k)
          PROVE  /\ mine' \in [Calls -> Row]
                 /\ at' \in [Calls -> 1..NTasks + 1]
                 /\ pc' \in [Calls -> {"new", "write", "reload", "done", "dead"} \cup Executing]
        <3>1. [r EXCEPT !.status = "completed"] \in Row
            BY <2>2, RowWithStatus DEF Status
        <3>2. QED
            BY <2>2, <3>1 DEF GoOn, Goto
    <2>3. CASE \E o \in Ops : Begin(c, o)
        BY <2>3, <2>1 DEF Begin, history
    <2>4. CASE Write(c)
        BY <2>4 DEF Write, Save, Goto
    <2>5. CASE Reload(c)
        BY <2>5, <2>1 DEF Reload, Ops, history
    <2>6. CASE Launch(c)
        BY <2>6 DEF Launch, Save, Goto, history
    <2>7. CASE LoadDefinition(c)
        <3>1. [mine[c] EXCEPT !.status = "failed"] \in Row
            BY RowWithStatus DEF Status
        <3>2. 1 \in 1..NTasks + 1
            BY WorkflowAssumption
        <3>3. CASE listed
            BY <2>7, <3>2, <3>3, <2>2 DEF LoadDefinition
        <3>4. CASE ~listed
            BY <2>7, <3>1, <3>4 DEF LoadDefinition, Goto
        <3>5. QED
            BY <3>3, <3>4
    <2>8. CASE BeginTask(c)
        BY <2>8 DEF BeginTask, Save, Goto, history
    <2>9. CASE Finish(c)
        BY <2>9 DEF Finish, Save, Goto, history
    <2>10. CASE EndTask(c)
        <3>1. at[c] \in 1..NTasks /\ EndsIn(mine[c].path, at[c] - 1)
            BY <2>10, WorkflowAssumption DEF EndTask, CopiesOK, CopyOK
        <3>2. [mine[c] EXCEPT !.path = Append(@, at[c])] \in Row
            BY <3>1, RowWithTask
        <3>3. at[c] + 1 \in 1..NTasks + 1
            BY <3>1, WorkflowAssumption
        <3>4. ran' \in [1..NTasks -> Nat]
            BY <2>10, <3>1 DEF EndTask
        <3>5. QED
            BY <2>10, <3>2, <3>3, <3>4, <2>2 DEF EndTask
    <2>11. CASE FailTask(c)
        <3>1. Fail(mine[c]) \in Row
            BY FailedRow
        <3>2. at[c] \in 1..NTasks
            BY <2>11, WorkflowAssumption DEF FailTask, CopiesOK, CopyOK
        <3>3. QED
            BY <2>11, <3>1, <3>2 DEF FailTask, Failed, Goto
    <2>12. CASE TimeOut(c)
        <3>1. Fail(mine[c]) \in Row
            BY FailedRow
        <3>2. QED
            BY <2>12, <3>1 DEF TimeOut, Failed, Goto
    <2>13. CASE Die(c)
        BY <2>13 DEF Die, Goto, history
    <2>14. QED
        BY <2>3, <2>4, <2>5, <2>6, <2>7, <2>8, <2>9, <2>10, <2>11, <2>12, <2>13
           DEF Steps
<1>2. ASSUME NEW b \in BOOLEAN, List(b)
      PROVE  TypeOK'
    BY <1>2 DEF TypeOK, List, history
<1>3. CASE UNCHANGED vars
    BY <1>3 DEF TypeOK, vars, history
<1>4. QED
    BY <1>1, <1>2, <1>3, NextIsSteps

-----------------------------------------------------------------------------
\* A call changes nothing of the others.
LEMMA OthersKept ==
  ASSUME TypeOK, NEW c \in Calls, Steps(c), NEW d \in Calls, d # c
  PROVE  /\ pc'[d] = pc[d] /\ op'[d] = op[d] /\ mine'[d] = mine[d] /\ at'[d] = at[d]
         /\ missed => missed'
<1> USE DEF TypeOK, history
<1>1. ASSUME NEW o \in Ops, Load(c, o)
      PROVE  pc'[d] = pc[d] /\ mine'[d] = mine[d] /\ at' = at /\ missed' = missed
    BY <1>1 DEF Load, Goto
<1>2. ASSUME NEW r, NEW k, GoOn(c, r, k)
      PROVE  pc'[d] = pc[d] /\ mine'[d] = mine[d] /\ at'[d] = at[d]
    BY <1>2 DEF GoOn, Goto
<1>3. ASSUME NEW o \in Ops, Begin(c, o)
      PROVE  pc'[d] = pc[d] /\ op'[d] = op[d] /\ mine'[d] = mine[d] /\ at' = at
             /\ missed' = missed
    BY <1>3, <1>1 DEF Begin
<1>4. CASE Reload(c)
    BY <1>4, <1>1 DEF Reload, Ops
<1>5. CASE LoadDefinition(c)
    BY <1>5, <1>2 DEF LoadDefinition, Goto
<1>6. CASE EndTask(c)
    BY <1>6, <1>2 DEF EndTask
<1>7. CASE FailTask(c) \/ TimeOut(c)
    BY <1>7 DEF FailTask, TimeOut, Failed, Goto
<1>8. CASE Write(c) \/ Launch(c) \/ BeginTask(c) \/ Finish(c) \/ Die(c)
    BY <1>8 DEF Write, Launch, BeginTask, Finish, Die, Goto
<1>9. QED
    BY <1>3, <1>4, <1>5, <1>6, <1>7, <1>8 DEF Steps

\* The call that moves knows at its new place what it must.
LEMMA CopyKept ==
  ASSUME TypeOK, CopiesOK, NEW c \in Calls, Steps(c)
  PROVE  CopyOK(c)'
<1> USE DEF TypeOK, history
<1>0. CopyOK(c)
    BY DEF CopiesOK
<1>1. ASSUME NEW o \in Ops, Begin(c, o)
      PROVE  CopyOK(c)'
    <2>1. CASE Accepts(o, row.status)
        <3>1. Target(o) \in Status
            BY <1>1 DEF Ops, Target, Status
        <3>2. /\ mine'[c] = [row EXCEPT !.status = Target(o)]
              /\ op'[c] = o
              /\ pc'[c] = IF o = "execute" THEN "launch" ELSE "write"
            BY <1>1, <2>1 DEF Begin, Load, Goto
        <3>3. mine'[c].status = Target(o)
            BY <3>1, <3>2, RowWithStatus
        <3>4. QED
            BY <3>2, <3>3 DEF CopyOK, Target, Ops
    <2>2. CASE ~Accepts(o, row.status)
        <3>1. pc'[c] = "done"
            BY <1>1, <2>2 DEF Begin, Load, Goto
        <3>2. QED
            BY <3>1 DEF CopyOK
    <2>3. QED
        BY <2>1, <2>2
<1>2. CASE Reload(c)
    <2>1. CASE Accepts("execute", row.status)
        <3>1. mine'[c] = [row EXCEPT !.status = "running"] /\ pc'[c] = "launch"
            BY <1>2, <2>1 DEF Reload, Load, Goto, Target
        <3>2. mine'[c].status = "running"
            BY <3>1, RowWithStatus DEF Status
        <3>3. QED
            BY <3>1, <3>2 DEF CopyOK
    <2>2. CASE ~Accepts("execute", row.status)
        <3>1. pc'[c] = "done"
            BY <1>2, <2>2 DEF Reload, Load, Goto
        <3>2. QED
            BY <3>1 DEF CopyOK
    <2>3. QED
        BY <2>1, <2>2
\* Where the loop goes, the path ends in the tasks before.
<1>3. ASSUME NEW r \in Row, NEW k \in 1..NTasks + 1, GoOn(c, r, k),
             r.status = "running", EndsIn(r.path, k - 1)
      PROVE  CopyOK(c)'
    <2>1. CASE k <= NTasks
        <3>1. pc'[c] = "next" /\ mine'[c] = r /\ at'[c] = k
            BY <1>3, <2>1 DEF GoOn, Goto
        <3>2. QED
            BY <1>3, <2>1, <3>1 DEF CopyOK
    <2>2. CASE ~(k <= NTasks)
        <3>1. k - 1 = NTasks
            BY <1>3, <2>2, WorkflowAssumption
        <3>2. pc'[c] = "final" /\ mine'[c] = [r EXCEPT !.status = "completed"]
            BY <1>3, <2>2 DEF GoOn, Goto
        <3>3. mine'[c].status = "completed" /\ mine'[c].path = r.path
            BY <3>2, RowWithStatus DEF Status
        <3>4. QED
            BY <1>3, <3>1, <3>2, <3>3 DEF CopyOK
    <2>3. QED
        BY <2>1, <2>2
<1>4. CASE LoadDefinition(c)
    <2>1. CASE listed
        <3>1. 1 \in 1..NTasks + 1 /\ EndsIn(mine[c].path, 1 - 1)
            BY WorkflowAssumption DEF EndsIn, Row
        <3>2. mine[c].status = "running" /\ GoOn(c, mine[c], 1)
            BY <1>0, <1>4, <2>1 DEF CopyOK, LoadDefinition
        <3>3. QED
            BY <3>1, <3>2, <1>3
    <2>2. CASE ~listed
        <3>1. /\ pc'[c] = "final" /\ missed'
              /\ mine'[c] = [mine[c] EXCEPT !.status = "failed"]
            BY <1>4, <2>2 DEF LoadDefinition, Goto
        <3>2. mine'[c].status = "failed"
            BY <3>1, RowWithStatus DEF Status
        <3>3. QED
            BY <3>1, <3>2 DEF CopyOK
    <2>3. QED
        BY <2>1, <2>2
<1>5. CASE EndTask(c)
    <2>1. /\ at[c] \in 1..NTasks /\ EndsIn(mine[c].path, at[c] - 1)
          /\ mine[c].status = "running"
        BY <1>0, <1>5, WorkflowAssumption DEF EndTask, CopyOK
    <2>2. PICK r \in Row : /\ GoOn(c, r, at[c] + 1)
                           /\ r.status = "running" /\ EndsIn(r.path, at[c])
        BY <1>5, <2>1, RowWithTask DEF EndTask
    <2>3. at[c] + 1 \in 1..NTasks + 1 /\ (at[c] + 1) - 1 = at[c]
        BY <2>1, WorkflowAssumption
    <2>4. QED
        BY <2>2, <2>3, <1>3
<1>6. CASE FailTask(c) \/ TimeOut(c)
    <2>1. pc'[c] = "final" /\ mine'[c] = Fail(mine[c])
        BY <1>6 DEF FailTask, TimeOut, Failed, Goto
    <2>2. QED
        BY <2>1, FailedRow DEF CopyOK
<1>7. CASE Launch(c) \/ BeginTask(c)
    BY <1>0, <1>7 DEF Launch, BeginTask, Goto, CopyOK
<1>8. CASE Write(c) \/ Finish(c) \/ Die(c)
    <2>1. pc'[c] \in {"reload", "done", "dead"}
        BY <1>8 DEF Write, Finish, Die, Goto
    <2>2. QED
        BY <2>1 DEF CopyOK
<1>9. QED
    BY <1>1, <1>2, <1>4, <1>5, <1>6, <1>7, <1>8 DEF Steps

LEMMA CopiesKept ==
  ASSUME TypeOK, CopiesOK, [Next]_vars
  PROVE  CopiesOK'
<1>1. ASSUME NEW c \in Calls, Steps(c), NEW d \in Calls
      PROVE  CopyOK(d)'
    <2>1. CASE d = c
        BY <1>1, <2>1, CopyKept
    <2>2. CASE d # c
        <3>1. CopyOK(d)
            BY DEF CopiesOK
        <3>2. /\ pc'[d] = pc[d] /\ op'[d] = op[d] /\ mine'[d] = mine[d]
              /\ at'[d] = at[d] /\ (missed => missed')
            BY <1>1, <2>2, OthersKept
        <3>3. QED
            BY <3>1, <3>2 DEF CopyOK
    <2>3. QED
        BY <2>1, <2>2
<1>2. ASSUME NEW b \in BOOLEAN, List(b)
      PROVE  CopiesOK'
    BY <1>2 DEF List, history, CopiesOK, CopyOK
<1>3. CASE UNCHANGED vars
    BY <1>3 DEF vars, history, CopiesOK, CopyOK
<1>4. CASE \E c \in Calls : Steps(c)
    BY <1>1, <1>4 DEF CopiesOK
<1>5. QED
    BY <1>2, <1>3, <1>4, NextIsSteps

-----------------------------------------------------------------------------
\* The row is written by four steps, each from the call's copy.
LEMMA RowWritten ==
  ASSUME NEW c \in Calls, Steps(c)
  PROVE  \/ row' = row
         \/ row' = mine[c] /\ pc[c] \in {"write", "launch", "next", "final"}
<1>1. ASSUME NEW o \in Ops, Load(c, o)
      PROVE  row' = row
    BY <1>1 DEF Load
<1>2. CASE \E o \in Ops : Begin(c, o)
    BY <1>2, <1>1 DEF Begin
<1>3. CASE Reload(c)
    BY <1>3, <1>1 DEF Reload, Ops
<1>4. CASE Write(c) \/ Launch(c) \/ BeginTask(c) \/ Finish(c)
    BY <1>4 DEF Write, Launch, BeginTask, Finish, Save
<1>5. CASE LoadDefinition(c) \/ EndTask(c) \/ FailTask(c) \/ TimeOut(c) \/ Die(c)
    BY <1>5 DEF LoadDefinition, EndTask, FailTask, TimeOut, Failed, Die
<1>6. QED
    BY <1>2, <1>3, <1>4, <1>5 DEF Steps

LEMMA MissedStays ==
  ASSUME missed, [Next]_vars
  PROVE  missed'
<1>1. ASSUME NEW c \in Calls, Steps(c)
      PROVE  missed'
    <2>1. ASSUME NEW o \in Ops, Load(c, o)
          PROVE  missed'
        BY <2>1 DEF Load, history
    <2>2. CASE (\E o \in Ops : Begin(c, o)) \/ Reload(c)
        BY <2>2, <2>1 DEF Begin, Reload, Ops
    <2>3. CASE ~((\E o \in Ops : Begin(c, o)) \/ Reload(c))
        BY <1>1, <2>3 DEF Steps, Write, Launch, LoadDefinition, BeginTask, Finish,
           EndTask, FailTask, TimeOut, Failed, Die, history
    <2>4. QED
        BY <2>2, <2>3
<1>2. QED
    BY <1>1, NextIsSteps DEF List, vars, history

\* A row that says COMPLETED ran all the tasks, and FAILED is the last word
\* only after the retries (CompletedRanAll and GivesUpLast are kept).
LEMMA RowIsTrue ==
  ASSUME TypeOK, CopiesOK, CompletedRanAll, GivesUpLast, [Next]_vars
  PROVE  CompletedRanAll' /\ GivesUpLast'
<1>1. CASE row' = row
    BY <1>1, MissedStays DEF CompletedRanAll, GivesUpLast
<1>2. ASSUME NEW c \in Calls, Steps(c)
      PROVE  CompletedRanAll' /\ GivesUpLast'
    <2>1. CASE /\ row' = mine[c]
               /\ pc[c] \in {"write", "launch", "next", "final"}
        <3>1. CopyOK(c)
            BY DEF CopiesOK
        <3>2. QED
            BY <2>1, <3>1, MissedStays DEF CopyOK, CompletedRanAll, GivesUpLast
    <2>2. QED
        BY <1>1, <1>2, <2>1, RowWritten
<1>3. QED
    BY <1>1, <1>2, NextIsSteps DEF List, vars

\* A step out of the places where a call executes the instance writes a status
\* other than RUNNING, or is a death.
LEMMA RunningKept ==
  ASSUME TypeOK, CopiesOK, RunningIsOwned, [Next]_vars
  PROVE  RunningIsOwned'
<1> SUFFICES ASSUME row'.status = "running", ~Orphaned'
             PROVE  \E d \in Calls : pc'[d] \in Executing
    BY DEF RunningIsOwned
<1>1. ASSUME NEW c \in Calls, Steps(c)
      PROVE  \E d \in Calls : pc'[d] \in Executing
    <2> USE <1>1 DEF TypeOK, history
    <2>0. CopyOK(c)
        BY DEF CopiesOK
    <2>1. resumed' = resumed \/ Write(c)
        <3>1. ASSUME NEW o \in Ops, Load(c, o)
              PROVE  resumed' = resumed
            BY <3>1 DEF Load
        <3>2. CASE (\E o \in Ops : Begin(c, o)) \/ Reload(c)
            BY <3>2, <3>1 DEF Begin, Reload, Ops
        <3>3. CASE ~((\E o \in Ops : Begin(c, o)) \/ Reload(c))
            BY <3>3 DEF Steps, Launch, LoadDefinition, BeginTask, Finish, EndTask,
               FailTask, TimeOut, Failed, Die
        <3>4. QED
            BY <3>2, <3>3
    <2>2. CASE pc'[c] \in Executing
        BY <2>2
    <2>3. CASE pc'[c] \notin Executing
        <3>1. \/ Write(c) \/ Finish(c) \/ Die(c)
              \/ (pc[c] \notin Executing /\ row' = row /\ resumed' = resumed)
            <4>1. ASSUME NEW o \in Ops, Begin(c, o)
                  PROVE  pc[c] \notin Executing /\ row' = row /\ resumed' = resumed
                BY <4>1 DEF Begin, Load, Executing
            <4>2. CASE Reload(c)
                BY <4>2 DEF Reload, Load, Executing
            <4>3. CASE Launch(c) \/ BeginTask(c) \/ FailTask(c) \/ TimeOut(c)
                BY <4>3, <2>3 DEF Launch, BeginTask, FailTask, TimeOut, Failed, Goto,
                   Executing
            <4>4. ASSUME NEW r, NEW k, GoOn(c, r, k)
                  PROVE  pc'[c] \in Executing
                BY <4>4 DEF GoOn, Goto, Executing
            <4>5. CASE LoadDefinition(c) \/ EndTask(c)
                BY <4>5, <4>4, <2>3 DEF LoadDefinition, EndTask, Goto, Executing
            <4>6. QED
                BY <4>1, <4>2, <4>3, <4>5 DEF Steps
        <3>2. CASE Write(c)
            BY <2>0, <3>2 DEF Write, Save, CopyOK, Orphaned
        <3>3. CASE Finish(c)
            BY <2>0, <3>3 DEF Finish, Save, CopyOK
        <3>4. CASE Die(c)
            BY <3>4 DEF Die, Goto, Orphaned
        <3>5. CASE pc[c] \notin Executing /\ row' = row /\ resumed' = resumed
            <4>1. ASSUME NEW d \in Calls, pc[d] = "dead"
                  PROVE  FALSE
                <5>1. CASE d = c
                    BY <4>1, <5>1
                       DEF Steps, Begin, Write, Reload, Launch, LoadDefinition,
                           BeginTask, Finish, EndTask, FailTask, TimeOut, Die
                <5>2. CASE d # c
                    BY <4>1, <5>2, OthersKept DEF Orphaned
                <5>3. QED
                    BY <5>1, <5>2
            <4>2. PICK d \in Calls : pc[d] \in Executing
                BY <3>5, <4>1 DEF RunningIsOwned, Orphaned
            <4>3. pc'[d] = pc[d]
                BY <3>5, <4>2, OthersKept
            <4>4. QED
                BY <4>2, <4>3
        <3>6. QED
            BY <3>1, <3>2, <3>3, <3>4, <3>5
    <2>4. QED
        BY <2>2, <2>3
<1>2. ASSUME NEW b \in BOOLEAN, List(b)
      PROVE  \E d \in Calls : pc'[d] \in Executing
    BY <1>2 DEF List, history, RunningIsOwned, Orphaned
<1>3. CASE UNCHANGED vars
    BY <1>3 DEF vars, history, RunningIsOwned, Orphaned
<1>4. QED
    BY <1>1, <1>2, <1>3, NextIsSteps

-----------------------------------------------------------------------------
LEMMA InitOK ==
  ASSUME Init
  PROVE  TypeOK /\ CopiesOK
<1>1. PICK s \in {"pending", "scheduled"} :
        row = [status |-> s, path |-> <<>>, retries |-> 0]
    BY DEF Init
<1>2. <<>> \in Seq(1..NTasks) /\ 0 \in 0..MaxRetries /\ 1 \in 1..NTasks + 1
    BY WorkflowAssumption
<1>3. row \in Row
    BY <1>1, <1>2 DEF Row, Status
<1>4. TypeOK
    BY <1>2, <1>3 DEF Init, TypeOK
<1>5. CopiesOK
    BY DEF Init, CopiesOK, CopyOK
<1>6. QED
    BY <1>4, <1>5

LEMMA WorkflowInvariant ==
  Spec => [](TypeOK /\ CopiesOK /\ CompletedRanAll /\ GivesUpLast /\ RunningIsOwned)
<1> DEFINE IndInv == TypeOK /\ CopiesOK /\ CompletedRanAll /\ GivesUpLast /\ RunningIsOwned
<1>1. Init => IndInv
    BY InitOK DEF Init, CompletedRanAll, GivesUpLast, RunningIsOwned
<1>2. IndInv /\ [Next]_vars => IndInv'
    BY Typing, CopiesKept, RowIsTrue, RunningKept
<1>3. QED
    BY <1>1, <1>2, PTL DEF Spec

\* For any number of concurrent calls on an instance, whatever dies and whichever
\* copies overwrite each other (execute_workflow, pause_workflow, resume_workflow,
\* cancel_workflow): the row and its copies stay well-formed.
THEOREM WorkflowTyped == Spec => []TypeOK
BY WorkflowInvariant, PTL

\* Under the same conditions COMPLETED means that the whole task list was carried out
\* in order.
THEOREM CompletedIsTrue == Spec => []CompletedRanAll
BY WorkflowInvariant, PTL

\* FAILED means that the retries were used up or the definition was gone.
THEOREM FailedIsTrue == Spec => []GivesUpLast
BY WorkflowInvariant, PTL

\* RUNNING means that some call executes the instance, or died over it, or that a
\* resumption wrote it.
THEOREM RunningIsTrue == Spec => []RunningIsOwned
BY WorkflowInvariant, PTL

-----------------------------------------------------------------------------
\* What the copies claim happened too.
Backed(r) == \A k \in 1..NTasks : RunsIn(r.path, k) <= ran[k]

\* The call holds a copy of the row.
InFlight(c) == pc[c] \in {"write"} \cup Executing

CopiesBacked == \A c \in Calls : InFlight(c) => Backed(mine[c])

LEMMA RunsAreCounted ==
  ASSUME NEW path \in Seq(1..NTasks), NEW k \in 1..NTasks
  PROVE  /\ IsFiniteSet({i \in DOMAIN path : path[i] = k})
         /\ RunsIn(path, k) \in Nat
<1>1. IsFiniteSet(1..Len(path))
    BY FS_Interval
<1>2. {i \in DOMAIN path : path[i] = k} \subseteq 1..Len(path)
    OBVIOUS
<1>3. IsFiniteSet({i \in DOMAIN path : path[i] = k})
    BY <1>1, <1>2, FS_Subset
<1>4. QED
    BY <1>3, FS_CardinalityType DEF RunsIn

LEMMA RunAppended ==
  ASSUME NEW path \in Seq(1..NTasks), NEW j \in 1..NTasks, NEW k \in 1..NTasks
  PROVE  RunsIn(Append(path, j), k) <= RunsIn(path, k) + (IF j = k THEN 1 ELSE 0)
<1> DEFINE S == {i \in DOMAIN path : path[i] = k}
           T == {i \in DOMAIN Append(path, j) : Append(path, j)[i] = k}
<1>0. RunsIn(path, k) = Cardinality(S) /\ RunsIn(Append(path, j), k) = Cardinality(T)
    BY DEF RunsIn
<1>1. IsFiniteSet(S) /\ Cardinality(S) \in Nat
    BY RunsAreCounted DEF RunsIn
<1>2. CASE j = k
    <2>1. T = S \cup {Len(path) + 1} /\ Len(path) + 1 \notin S
        BY <1>2
    <2> HIDE DEF S, T
    <2>2. Cardinality(T) = Cardinality(S) + 1
        BY <1>1, <2>1, FS_AddElement
    <2>3. QED
        BY <1>0, <1>1, <1>2, <2>2
<1>3. CASE j # k
    <2>1. T = S
        BY <1>3
    <2> HIDE DEF S, T
    <2>2. QED
        BY <1>0, <1>1, <1>3, <2>1
<1>4. QED
    BY <1>2, <1>3

\* Only the end of a task lengthens a path, and it is counted.
LEMMA RanGrows ==
  ASSUME TypeOK, CopiesOK, [Next]_vars, NEW k \in 1..NTasks
  PROVE  ran[k] \in Nat /\ ran'[k] \in Nat /\ ran[k] <= ran'[k]
<1>1. TypeOK'
    BY Typing
<1>2. CASE ran' = ran
    BY <1>2 DEF TypeOK
<1>3. ASSUME NEW c \in Calls, EndTask(c) \/ FailTask(c)
      PROVE  ran[k] \in Nat /\ ran'[k] \in Nat /\ ran[k] <= ran'[k]
    <2>1. ran' = [ran EXCEPT ![at[c]] = @ + 1]
        BY <1>3 DEF EndTask, FailTask
    <2>2. ran[k] \in Nat /\ (ran'[k] = ran[k] \/ ran'[k] = ran[k] + 1)
        BY <2>1 DEF TypeOK
    <2>3. QED
        BY <2>2
<1>4. ran' = ran \/ \E c \in Calls : EndTask(c) \/ FailTask(c)
    <2>1. ASSUME NEW c \in Calls, Steps(c), ~EndTask(c), ~FailTask(c)
          PROVE  ran' = ran
        <3>1. ASSUME NEW o \in Ops, Load(c, o)
              PROVE  ran' = ran
            BY <3>1 DEF Load, history
        <3>2. CASE (\E o \in Ops : Begin(c, o)) \/ Reload(c)
            BY <3>2, <3>1 DEF Begin, Reload, Ops
        <3>3. CASE ~((\E o \in Ops : Begin(c, o)) \/ Reload(c))
            BY <2>1, <3>3 DEF Steps, Write, Launch, LoadDefinition, BeginTask, Finish,
               TimeOut, Die, history
        <3>4. QED
            BY <3>2, <3>3
    <2>2. QED
        BY <2>1, NextIsSteps DEF List, vars, history
<1>5. QED
    BY <1>2, <1>3, <1>4

LEMMA StillBacked ==
  ASSUME TypeOK, CopiesOK, [Next]_vars, NEW r \in Row, Backed(r),
         NEW s \in Row, s.path = r.path
  PROVE  \A k \in 1..NTasks : RunsIn(s.path, k) <= ran'[k]
<1> TAKE k \in 1..NTasks
<1>1. r.path \in Seq(1..NTasks)
    BY DEF Row
<1>2. RunsIn(r.path, k) \in Nat /\ RunsIn(r.path, k) <= ran[k]
    BY <1>1, RunsAreCounted DEF Backed
<1>3. QED
    BY <1>2, RanGrows

\* Where a moving call holds a copy, the copy is the row's, its own of before,
\* or its own with the task that just ended.
LEMMA CopySource ==
  ASSUME TypeOK, CopiesOK, NEW c \in Calls, Steps(c), InFlight(c)'
  PROVE  \/ mine'[c] \in Row /\ mine'[c].path = row.path
         \/ InFlight(c) /\ mine'[c] \in Row /\ mine'[c].path = mine[c].path
         \/ EndTask(c)
<1> USE DEF TypeOK, history
<1>1. ASSUME NEW o \in Ops, Load(c, o)
      PROVE  mine'[c] \in Row /\ mine'[c].path = row.path
    <2>1. CASE Accepts(o, row.status)
        <3>1. Target(o) \in Status /\ mine'[c] = [row EXCEPT !.status = Target(o)]
            BY <1>1, <2>1 DEF Load, Ops, Target, Status
        <3>2. QED
            BY <3>1, RowWithStatus
    <2>2. CASE ~Accepts(o, row.status)
        BY <1>1, <2>2 DEF Load, Goto, InFlight, Executing
    <2>3. QED
        BY <2>1, <2>2
<1>2. CASE (\E o \in Ops : Begin(c, o)) \/ Reload(c)
    BY <1>2, <1>1 DEF Begin, Reload, Ops
<1>3. CASE LoadDefinition(c)
    <2>1. InFlight(c)
        BY <1>3 DEF LoadDefinition, InFlight, Executing
    <2>2. PICK s \in Status : mine'[c] = mine[c] \/ mine'[c] = [mine[c] EXCEPT !.status = s]
        BY <1>3 DEF LoadDefinition, GoOn, Status
    <2>3. mine[c] \in Row
        OBVIOUS
    <2>4. [mine[c] EXCEPT !.status = s] \in Row /\ [mine[c] EXCEPT !.status = s].path = mine[c].path
        BY <2>3, RowWithStatus
    <2>5. QED
        BY <2>1, <2>2, <2>3, <2>4
<1>4. CASE FailTask(c) \/ TimeOut(c)
    <2>1. InFlight(c) /\ mine'[c] = Fail(mine[c])
        BY <1>4 DEF FailTask, TimeOut, Failed, InFlight, Executing
    <2>2. QED
        BY <2>1, FailedRow DEF Fail, Row
<1>5. CASE Launch(c) \/ BeginTask(c)
    BY <1>5 DEF Launch, BeginTask, InFlight, Executing
<1>6. CASE Write(c) \/ Finish(c) \/ Die(c)
    BY <1>6 DEF Write, Finish, Die, Goto, InFlight, Executing
<1>7. QED
    BY <1>2, <1>3, <1>4, <1>5, <1>6 DEF Steps

LEMMA TaskBacked ==
  ASSUME TypeOK, CopiesOK, CopiesBacked, NEW c \in Calls, EndTask(c)
  PROVE  Backed(mine[c])'
<1>1. at[c] \in 1..NTasks /\ Backed(mine[c]) /\ mine[c] \in Row
    BY WorkflowAssumption
       DEF EndTask, CopiesOK, CopyOK, TypeOK, CopiesBacked, InFlight, Executing
<1>2. EndsIn(mine[c].path, at[c] - 1)
    BY DEF EndTask, CopiesOK, CopyOK
<1>3. PICK r \in Row : /\ r = [mine[c] EXCEPT !.path = Append(@, at[c])]
                       /\ GoOn(c, r, at[c] + 1)
    BY <1>1, <1>2, RowWithTask DEF EndTask
<1>4. r.path = Append(mine[c].path, at[c]) /\ mine[c].path \in Seq(1..NTasks)
    BY <1>1, <1>3 DEF Row
<1>5. mine'[c].path = r.path
    <2>1. mine'[c] = r \/ mine'[c] = [r EXCEPT !.status = "completed"]
        BY <1>3 DEF GoOn, TypeOK
    <2>2. "completed" \in Status
        BY DEF Status
    <2>3. [r EXCEPT !.status = "completed"].path = r.path
        BY <2>2, RowWithStatus
    <2>4. QED
        BY <2>1, <2>3
<1>6. ASSUME NEW k \in 1..NTasks
      PROVE  RunsIn(mine'[c].path, k) <= ran'[k]
    <2>1. ran'[k] = ran[k] + (IF at[c] = k THEN 1 ELSE 0) /\ ran[k] \in Nat
        BY <1>1 DEF EndTask, TypeOK
    <2>2. /\ RunsIn(mine[c].path, k) \in Nat /\ RunsIn(mine[c].path, k) <= ran[k]
          /\ RunsIn(Append(mine[c].path, at[c]), k) <=
               RunsIn(mine[c].path, k) + (IF at[c] = k THEN 1 ELSE 0)
        BY <1>1, <1>4, RunsAreCounted, RunAppended DEF Backed
    <2>3. RunsIn(Append(mine[c].path, at[c]), k) \in Nat
        <3>1. Append(mine[c].path, at[c]) \in Seq(1..NTasks)
            BY <1>1, <1>4
        <3>2. QED
            BY <3>1, RunsAreCounted
    <2>4. QED
        BY <1>4, <1>5, <2>1, <2>2, <2>3
<1>7. QED
    BY <1>6 DEF Backed

LEMMA BackedKept ==
  ASSUME TypeOK, CopiesOK, CopiesBacked, PathIsBacked, [Next]_vars
  PROVE  CopiesBacked' /\ PathIsBacked'
<1> USE DEF TypeOK
<1>0. Backed(row)
    BY DEF PathIsBacked, Backed
<1>1. ASSUME NEW c \in Calls, InFlight(c), NEW s \in Row, s.path = mine[c].path
      PROVE  \A k \in 1..NTasks : RunsIn(s.path, k) <= ran'[k]
    BY <1>1, StillBacked DEF CopiesBacked
<1>2. ASSUME NEW s \in Row, s.path = row.path
      PROVE  \A k \in 1..NTasks : RunsIn(s.path, k) <= ran'[k]
    BY <1>0, <1>2, StillBacked
<1>3. PathIsBacked'
    <2>1. row' = row \/ \E c \in Calls : InFlight(c) /\ row' = mine[c]
        BY NextIsSteps, RowWritten DEF List, vars, InFlight, Executing
    <2>2. QED
        BY <2>1, <1>1, <1>2 DEF PathIsBacked
<1>4. ASSUME NEW d \in Calls, InFlight(d)'
      PROVE  Backed(mine[d])'
    <2>1. ASSUME NEW c \in Calls, Steps(c)
          PROVE  Backed(mine[d])'
        <3>1. CASE d # c
            <4>1. InFlight(d) /\ mine'[d] = mine[d]
                BY <1>4, <2>1, <3>1, OthersKept DEF InFlight
            <4>2. QED
                BY <4>1, <1>1 DEF Backed
        <3>2. CASE d = c
            <4>1. CASE mine'[d] \in Row /\ mine'[d].path = row.path
                BY <4>1, <1>2 DEF Backed
            <4>2. CASE InFlight(d) /\ mine'[d] \in Row /\ mine'[d].path = mine[d].path
                BY <4>2, <1>1 DEF Backed
            <4>3. CASE EndTask(d)
                BY <4>3, TaskBacked
            <4>4. QED
                BY <1>4, <2>1, <3>2, <4>1, <4>2, <4>3, CopySource
        <3>3. QED
            BY <3>1, <3>2
    <2>2. CASE \E b \in BOOLEAN : List(b)
        <3>1. InFlight(d) /\ mine'[d] = mine[d]
            BY <1>4, <2>2 DEF List, InFlight
        <3>2. QED
            BY <3>1, <1>1 DEF Backed
    <2>3. CASE UNCHANGED vars
        <3>1. InFlight(d) /\ mine'[d] = mine[d]
            BY <1>4, <2>3 DEF vars, InFlight
        <3>2. QED
            BY <3>1, <1>1 DEF Backed
    <2>4. QED
        BY <2>1, <2>2, <2>3, NextIsSteps
<1>5. QED
    BY <1>3, <1>4 DEF CopiesBacked

\* However executions overlap and rows are overwritten, the execution path
\* claims no run of a task that did not take place (execution_path.append).
THEOREM PathIsTrue == Spec => []PathIsBacked
<1> DEFINE IndInv == TypeOK /\ CopiesOK /\ CopiesBacked /\ PathIsBacked
<1>1. Init => CopiesBacked /\ PathIsBacked
    <2> SUFFICES ASSUME Init PROVE CopiesBacked /\ PathIsBacked
        OBVIOUS
    <2>1. CopiesBacked
        BY DEF Init, CopiesBacked, InFlight, Executing
    <2>2. row.path = <<>>
        BY DEF Init
    <2>3. ASSUME NEW k \in 1..NTasks
          PROVE  RunsIn(row.path, k) <= ran[k]
        <3>1. {i \in DOMAIN row.path : row.path[i] = k} = {}
            BY <2>2
        <3>2. QED
            BY <3>1, FS_EmptySet DEF RunsIn, Init
    <2>4. QED
        BY <2>1, <2>3 DEF PathIsBacked
<1>2. Init => TypeOK /\ CopiesOK
    BY InitOK
<1>3. IndInv /\ [Next]_vars => IndInv'
    BY Typing, CopiesKept, BackedKept
<1>4. QED
    BY <1>1, <1>2, <1>3, PTL DEF Spec

-----------------------------------------------------------------------------
\* A call that is not engaged begins, and is turned away if the row is final.
LEMMA TurnedAway ==
  ASSUME TypeOK, Final, NEW c \in Calls, Steps(c), c \notin Engaged
  PROVE  pc'[c] = "done" /\ UNCHANGED <<row, ran>>
<1>1. pc[c] \in {"new", "done", "dead"}
    BY DEF Engaged
<1>2. PICK o \in Ops : Begin(c, o)
    BY <1>1 DEF Steps, Write, Reload, Launch, LoadDefinition, BeginTask, Finish, EndTask,
                FailTask, TimeOut, Die
<1>3. ~Accepts(o, row.status)
    BY <1>2 DEF Final, Accepts, Ops
<1>4. QED
    BY <1>2, <1>3 DEF Begin, Load, Goto, TypeOK, history

\* Whoever is engaged when the row is final was engaged before.
LEMMA StepFinal ==
  ASSUME TypeOK, [Next]_vars, Final
  PROVE  Engaged' \subseteq Engaged /\ (Engaged = {} => UNCHANGED <<row, ran>>)
<1>1. ASSUME NEW c \in Calls, Steps(c)
      PROVE  Engaged' \subseteq Engaged /\ (Engaged = {} => UNCHANGED <<row, ran>>)
    <2>1. \A d \in Calls \ {c} : pc'[d] = pc[d]
        BY <1>1, OthersKept
    <2>2. c \notin Engaged => pc'[c] = "done" /\ UNCHANGED <<row, ran>>
        BY <1>1, TurnedAway
    <2>3. QED
        BY <2>1, <2>2 DEF Engaged
<1>2. CASE UNCHANGED vars \/ \E b \in BOOLEAN : List(b)
    BY <1>2 DEF vars, history, List, Engaged
<1>3. QED
    BY <1>1, <1>2, NextIsSteps

\* For any number of calls, tasks and retries: a completed or cancelled instance is
\* changed only by calls that read it before, and by nobody once they are over.
THEOREM FinalIsFinal == Spec => FinalStays
<1>1. TypeOK /\ [Next]_vars =>
        [Final => Engaged' \subseteq Engaged /\ (Engaged = {} => UNCHANGED <<row, ran>>)]_vars
    BY StepFinal
<1>2. QED
    BY <1>1, WorkflowTyped, PTL DEF Spec, FinalStays
=============================================================================
