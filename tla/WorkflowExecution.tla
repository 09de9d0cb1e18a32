-------------------------- MODULE WorkflowExecution --------------------------
(***************************************************************************)
(* The workflow engine (workflow-engine/src/services/workflow_engine.py):  *)
(* one workflow instance, its row in the database, and the calls that      *)
(* execute, pause, resume and cancel it.  Every call runs in an engine of  *)
(* its own (routes.py makes one per request, each worker has one), reads   *)
(* the row, decides, and writes the whole row back from its copy; between  *)
(* any two of its awaits the others run.  A process may die.               *)
(***************************************************************************)
EXTENDS Integers, FiniteSets, Sequences

CONSTANTS Calls,      \* requests and queue messages, each handled once
          NTasks,     \* length of the definition's task list
          MaxRetries, \* the definition's max_retries
          Optional    \* positions of the tasks with continue_on_error

ASSUME WorkflowAssumption ==
  /\ NTasks \in Nat
  /\ MaxRetries \in Nat
  /\ Optional \subseteq 1..NTasks

VARIABLES row,     \* the row of the instance
          listed,  \* the definition is enabled and not deleted
          pc,      \* per call, where it is
          op,      \* per call, the operation it was accepted for
          mine,    \* per call, its copy of the row
          at,      \* per call that executes, the position of its task
          ran,     \* per position, how often the task was carried out (history)
          missed,  \* an execution found no definition (history)
          resumed  \* a resume wrote its status (history)

history == <<ran, missed, resumed>>
vars == <<row, listed, pc, op, mine, at, history>>

Status == {"pending", "scheduled", "running", "paused",
           "completed", "failed", "cancelled"}
Ops == {"execute", "pause", "resume", "cancel"}
Executing == {"launch", "start", "next", "task", "final"}
Row == [status : Status, path : Seq(1..NTasks), retries : 0..MaxRetries]

TypeOK ==
  /\ row \in Row
  /\ listed \in BOOLEAN
  /\ pc \in [Calls -> {"new", "write", "reload", "done", "dead"} \cup Executing]
  /\ op \in [Calls -> Ops \cup {"none"}]
  /\ mine \in [Calls -> Row]
  /\ at \in [Calls -> 1..NTasks + 1]
  /\ ran \in [1..NTasks -> Nat]
  /\ missed \in BOOLEAN
  /\ resumed \in BOOLEAN

\* create_workflow_instance has stored the instance; its definition was listed.
Init ==
  /\ row \in [status : {"pending", "scheduled"}, path : {<<>>}, retries : {0}]
  /\ listed = TRUE
  /\ pc = [c \in Calls |-> "new"]
  /\ op = [c \in Calls |-> "none"]
  /\ mine = [c \in Calls |-> row]
  /\ at = [c \in Calls |-> 1]
  /\ ran = [k \in 1..NTasks |-> 0]
  /\ missed = FALSE
  /\ resumed = FALSE

-----------------------------------------------------------------------------
\* Near misses for the mutation runs.
SaveStatus(c) == row' = [row EXCEPT !.status = mine[c].status]

FailOneEarly(r) ==
  IF r.retries + 1 < MaxRetries
    THEN [r EXCEPT !.status = "pending", !.retries = @ + 1]
    ELSE [r EXCEPT !.status = "failed"]

AcceptsUnlessRunning(o, s) == \* of the two checks of execute_workflow, the first
  CASE o = "execute" -> s # "running"
    [] o = "pause"   -> s = "running"
    [] o = "resume"  -> s = "paused"
    [] o = "cancel"  -> s \notin {"completed", "cancelled"}

FinishOnSuccess(c) ==
  /\ pc[c] = "final"
  /\ row' = IF mine[c].status = "completed" THEN mine[c] ELSE row
  /\ pc' = [pc EXCEPT ![c] = "done"]
  /\ UNCHANGED <<listed, op, mine, at, history>>

-----------------------------------------------------------------------------
Goto(c, place) == pc' = [pc EXCEPT ![c] = place]

\* The statuses in which each operation is accepted, and what it then writes.
Accepts(o, s) ==
  CASE o = "execute" -> s \in {"pending", "scheduled", "failed"}
    [] o = "pause"   -> s = "running"
    [] o = "resume"  -> s = "paused"
    [] o = "cancel"  -> s \notin {"completed", "cancelled"}

Target(o) ==
  CASE o \in {"execute", "resume"} -> "running"
    [] o = "pause"                 -> "paused"
    [] o = "cancel"                -> "cancelled"

\* _update_workflow_instance: every column from the call's copy.
Save(c) == row' = mine[c]

\* What the except branch of _execute_workflow_async makes of a failure.
Fail(r) ==
  IF r.retries < MaxRetries
    THEN [status |-> "pending", path |-> r.path, retries |-> r.retries + 1]
    ELSE [r EXCEPT !.status = "failed"]

\* The loop of _execute_workflow_tasks goes on to position k of the list, or
\* ends, and the execution with it.
GoOn(c, r, k) ==
  IF k <= NTasks
    THEN /\ mine' = [mine EXCEPT ![c] = r]
         /\ at' = [at EXCEPT ![c] = k]
         /\ Goto(c, "next")
    ELSE /\ mine' = [mine EXCEPT ![c] = [r EXCEPT !.status = "completed"]]
         /\ Goto(c, "final")
         /\ UNCHANGED at

\* Call c, of operation o, loads the instance and checks its status.
Load(c, o) ==
  /\ IF Accepts(o, row.status)
       THEN /\ mine' = [mine EXCEPT ![c] = [row EXCEPT !.status = Target(o)]]
            /\ Goto(c, IF o = "execute" THEN "launch" ELSE "write")
       ELSE /\ Goto(c, "done")
            /\ UNCHANGED mine
  /\ UNCHANGED <<row, listed, at, history>>

Begin(c, o) ==
  /\ pc[c] = "new"
  /\ op' = [op EXCEPT ![c] = IF Accepts(o, row.status) THEN o ELSE @]
  /\ Load(c, o)

\* pause_workflow, resume_workflow and cancel_workflow write their status.  The
\* engine of a cancelling request is new and has no running task to cancel.
Write(c) ==
  /\ pc[c] = "write"
  /\ Save(c)
  /\ resumed' = (resumed \/ op[c] = "resume")
  /\ Goto(c, IF op[c] = "resume" THEN "reload" ELSE "done")
  /\ UNCHANGED <<listed, op, mine, at, ran, missed>>

\* resume_workflow goes on by calling execute_workflow, which reads again.
Reload(c) ==
  /\ pc[c] = "reload"
  /\ Load(c, "execute")
  /\ UNCHANGED op

\* execute_workflow stores RUNNING and starts _execute_workflow_async.
Launch(c) ==
  /\ pc[c] = "launch"
  /\ Save(c)
  /\ Goto(c, "start")
  /\ UNCHANGED <<listed, op, mine, at, history>>

\* Without a definition the except branch fails too, and only the finally
\* branch stores the failure: no retry.
LoadDefinition(c) ==
  /\ pc[c] = "start"
  /\ IF listed
       THEN GoOn(c, mine[c], 1) /\ UNCHANGED missed
       ELSE /\ mine' = [mine EXCEPT ![c].status = "failed"]
            /\ missed' = TRUE
            /\ Goto(c, "final")
            /\ UNCHANGED at
  /\ UNCHANGED <<row, listed, op, ran, resumed>>

BeginTask(c) ==
  /\ pc[c] = "next"
  /\ Save(c)
  /\ Goto(c, "task")
  /\ UNCHANGED <<listed, op, mine, at, history>>

\* The task returned, or it failed and its configuration tolerates that.
EndTask(c) ==
  /\ pc[c] = "task"
  /\ ran' = [ran EXCEPT ![at[c]] = @ + 1]
  /\ GoOn(c, [mine[c] EXCEPT !.path = Append(@, at[c])], at[c] + 1)
  /\ UNCHANGED <<row, listed, op, missed, resumed>>

FailedInPath(c) == \* near miss
  /\ mine' = [mine EXCEPT ![c] = [Fail(@) EXCEPT !.path = Append(@, at[c])]]
  /\ Goto(c, "final")
  /\ UNCHANGED <<row, listed, op, at, missed, resumed>>

Failed(c) ==
  /\ mine' = [mine EXCEPT ![c] = Fail(@)]
  /\ Goto(c, "final")
  /\ UNCHANGED <<row, listed, op, at, missed, resumed>>

FailTask(c) ==
  /\ pc[c] = "task"
  /\ at[c] \notin Optional
  /\ ran' = [ran EXCEPT ![at[c]] = @ + 1]
  /\ Failed(c)

TimeOutBetween(c) == \* near miss
  /\ pc[c] = "next"
  /\ Failed(c)
  /\ UNCHANGED ran

\* wait_for cancels the tasks at whichever await they are.
TimeOut(c) ==
  /\ pc[c] \in {"next", "task"}
  /\ Failed(c)
  /\ UNCHANGED ran

\* The finally branch of _execute_workflow_async.
Finish(c) ==
  /\ pc[c] = "final"
  /\ Save(c)
  /\ Goto(c, "done")
  /\ UNCHANGED <<listed, op, mine, at, history>>

\* The process of the call dies.
Die(c) ==
  /\ pc[c] \notin {"new", "done", "dead"}
  /\ Goto(c, "dead")
  /\ UNCHANGED <<row, listed, op, mine, at, history>>

\* The definition is disabled or deleted, or enabled again.
List(b) ==
  /\ listed # b
  /\ listed' = b
  /\ UNCHANGED <<row, pc, op, mine, at, history>>

Engine(c) ==
  \/ Write(c)
  \/ Reload(c)
  \/ Launch(c)
  \/ LoadDefinition(c)
  \/ BeginTask(c)
  \/ Finish(c)

Next ==
  \/ \E c \in Calls :
       \/ \E o \in Ops : Begin(c, o)
       \/ Engine(c)
       \/ EndTask(c)
       \/ FailTask(c)
       \/ TimeOut(c)
       \/ Die(c)
  \/ \E b \in BOOLEAN : List(b)

\* The engine's steps are single awaits on the database; a task may hang, its
\* timer fires; nobody promises a request, a death or a change of definition.
Fairness == \A c \in Calls : WF_vars(Engine(c)) /\ WF_vars(TimeOut(c))

Spec == Init /\ [][Next]_vars /\ Fairness

-----------------------------------------------------------------------------
\* The path ends in a run of the tasks 1 to n.
EndsIn(path, n) ==
  /\ Len(path) >= n
  /\ \A k \in 1..n : path[Len(path) - n + k] = k

\* A row that says COMPLETED ends in a run of the whole task list, whichever
\* copies were written over each other: "completed" is never put on an
\* execution that skipped or lost a task.
CompletedRanAll == row.status = "completed" => EndsIn(row.path, NTasks)

\* The execution path claims no run of a task that did not happen, although
\* rows are written from stale copies and executions overlap.
RunsIn(path, k) == Cardinality({i \in DOMAIN path : path[i] = k})

PathIsBacked == \A k \in 1..NTasks : RunsIn(row.path, k) <= ran[k]

\* FAILED is the last word only after all the retries, or because the
\* definition was gone.
GivesUpLast == row.status = "failed" => row.retries = MaxRetries \/ missed

\* A row that says RUNNING has a call that executes it, unless a process died
\* or a resume wrote the status by itself.
Orphaned == resumed \/ \E c \in Calls : pc[c] = "dead"

RunningIsOwned ==
  row.status = "running" /\ ~Orphaned => \E c \in Calls : pc[c] \in Executing

\* An instance that runs does not run for ever, even if a task hangs.
StopsRunning == row.status = "running" ~> row.status # "running" \/ Orphaned

\* What is left of CancelledStays, whichever calls, deaths and redeliveries come: only
\* calls that read the row before it was completed or cancelled may still change it.
\* They never get more, not even by a resume that reads again, and when the last of
\* them is over the row stays and no task is carried out (the checks of
\* execute_workflow, pause_workflow, resume_workflow and cancel_workflow).
Final == row.status \in {"completed", "cancelled"}
Engaged == {c \in Calls : pc[c] \notin {"new", "done", "dead"}}

FinalStays ==
  [][Final => /\ Engaged' \subseteq Engaged
              /\ Engaged = {} => UNCHANGED <<row, ran>>]_vars

\* "Stops the workflow execution. The workflow cannot be resumed after
\* cancellation." (routes.py): a cancelled instance stays cancelled.
CancelledStays == [][row.status = "cancelled" => row'.status = "cancelled"]_vars
=============================================================================
