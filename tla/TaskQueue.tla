------------------------------- MODULE TaskQueue -------------------------------
(***************************************************************************)
(* The workflow engine's task queue: RabbitMQService (workflow-engine/src/ *)
(* services/rabbitmq_service.py) and the handler of the worker process     *)
(* (workers/task_worker.py), on a RabbitMQ with a task queue and a dead-   *)
(* letter queue.  A slot is one message being handled; a worker has as     *)
(* many as its prefetch count.  RabbitMQ gives a message back to the queue *)
(* when the connection it was delivered on is lost, whether or not the     *)
(* process that handles it is alive.                                       *)
(***************************************************************************)
EXTENDS Integers, FiniteSets

CONSTANTS Tasks,       \* the tasks the engine publishes, each once
          Slots,       \* messages that can be handled at one time
          MaxRetries,  \* settings.TASK_MAX_RETRIES
          Limit,       \* the limit of one reprocessing
          MaxFailures, \* bound: attempts that fail
          MaxFaults    \* bound: deaths, lost connections, refused publishes,
                       \* messages that expire unread

ASSUME QueueAssumption ==
  /\ Tasks # {}
  /\ IsFiniteSet(Slots)
  /\ MaxRetries \in Nat
  /\ Limit \in Nat \ {0}
  /\ MaxFailures \in Nat
  /\ MaxFaults \in Nat

VARIABLES queue,    \* how many copies of each message the task queue holds
          dlq,      \* and the dead-letter queue
          slot,     \* per slot: where its handler is, its message, and
                    \* whether the broker still waits for its answer
          drain,    \* reprocess_dlq_messages: where it is, its message, count
          fresh,    \* tasks not yet published
          failures, faults,     \* what the bounds limit
          tries, done, again,   \* per task: attempts, completions, and events
                                \* that put a second copy to work (history)
          lost      \* tasks of which a copy was given up (history)

history == <<tries, done, again, lost>>
vars == <<queue, dlq, slot, drain, fresh, failures, faults, history>>

Message == [task : Tasks, retries : 0..MaxRetries]
NoMessage == CHOOSE m \in Message : TRUE \* never looked at
Idle == [at |-> "idle", msg |-> NoMessage, held |-> FALSE]
Undrained == [at |-> "idle", msg |-> NoMessage, count |-> 0]

TypeOK ==
  /\ queue \in [Message -> Nat]
  /\ dlq \in [Message -> Nat]
  /\ slot \in [Slots -> [at : {"idle", "handling", "failed", "ack", "reject"},
                         msg : Message, held : BOOLEAN]]
  /\ drain \in [at : {"idle", "waiting", "got", "ack"}, msg : Message,
                count : 0..Limit]
  /\ fresh \subseteq Tasks
  /\ failures \in 0..MaxFailures
  /\ faults \in 0..MaxFaults
  /\ tries \in [Tasks -> Nat]
  /\ done \in [Tasks -> Nat]
  /\ again \in [Tasks -> Nat]
  /\ lost \subseteq Tasks

Init ==
  /\ queue = [m \in Message |-> 0]
  /\ dlq = [m \in Message |-> 0]
  /\ slot = [s \in Slots |-> Idle]
  /\ drain = Undrained
  /\ fresh = Tasks
  /\ failures = 0
  /\ faults = 0
  /\ tries = [t \in Tasks |-> 0]
  /\ done = [t \in Tasks |-> 0]
  /\ again = [t \in Tasks |-> 0]
  /\ lost = {}

-----------------------------------------------------------------------------
Add(q, m) == [q EXCEPT ![m] = @ + 1]
Take(q, m) == [q EXCEPT ![m] = @ - 1]
Once(f, t) == [f EXCEPT ![t] = @ + 1]

\* publish_task puts the count 0 into every message, of a retry too.
New(t) == [task |-> t, retries |-> 0]

Publish(t) ==
  /\ t \in fresh
  /\ fresh' = fresh \ {t}
  /\ queue' = Add(queue, New(t))
  /\ UNCHANGED <<dlq, slot, drain, failures, faults, history>>

Goto(s, place) == slot' = [slot EXCEPT ![s].at = place]
Leave(s) == slot' = [slot EXCEPT ![s] = Idle]

Deliver(s, m) ==
  /\ slot[s].at = "idle"
  /\ queue[m] > 0
  /\ queue' = Take(queue, m)
  /\ slot' = [slot EXCEPT ![s] = [at |-> "handling", msg |-> m, held |-> TRUE]]
  /\ tries' = Once(tries, m.task)
  /\ UNCHANGED <<dlq, drain, fresh, failures, faults, done, again, lost>>

\* _process_task returns; message.process() will acknowledge.
Succeed(s) ==
  /\ slot[s].at = "handling"
  /\ Goto(s, "ack")
  /\ done' = Once(done, slot[s].msg.task)
  /\ UNCHANGED <<queue, dlq, drain, fresh, failures, faults, tries, again, lost>>

\* _process_task raises.
Fail(s) ==
  /\ slot[s].at = "handling"
  /\ failures < MaxFailures
  /\ failures' = failures + 1
  /\ Goto(s, "failed")
  /\ UNCHANGED <<queue, dlq, drain, fresh, faults, history>>

\* A JSONDecodeError, of the message or out of the handler: no retry.
Misread(s) ==
  /\ slot[s].at = "handling"
  /\ failures < MaxFailures
  /\ failures' = failures + 1
  /\ Goto(s, "reject")
  /\ UNCHANGED <<queue, dlq, drain, fresh, faults, history>>

RetryTwice(m) == \* near miss
  /\ queue' = [queue EXCEPT ![New(m.task)] = @ + 2]
  /\ UNCHANGED dlq

\* The retry: a new message.  _publish_to_dlq publishes under a key to which
\* the task queue is bound as well.
Retry(m) ==
  IF m.retries + 1 <= MaxRetries
    THEN /\ queue' = Add(queue, New(m.task))
         /\ UNCHANGED dlq
    ELSE /\ queue' = Add(queue, m)
         /\ dlq' = Add(dlq, m)

Republish(s) ==
  /\ slot[s].at = "failed"
  /\ Retry(slot[s].msg)
  /\ Goto(s, "reject")
  /\ UNCHANGED <<drain, fresh, failures, faults, history>>

\* Publishing raises; message.process() rejects.
RepublishFails(s) ==
  /\ slot[s].at = "failed"
  /\ faults < MaxFaults
  /\ faults' = faults + 1
  /\ Goto(s, "reject")
  /\ UNCHANGED <<queue, dlq, drain, fresh, failures, history>>

Ack(s) ==
  /\ slot[s].at = "ack"
  /\ Leave(s)
  /\ UNCHANGED <<queue, dlq, drain, fresh, failures, faults, history>>

\* reject(requeue=False): the broker dead-letters the message it still holds.
Drop(m) == UNCHANGED dlq \* near miss

DeadLetter(m) == dlq' = Add(dlq, m)

RejectIfHeld(s) == \* near miss
  /\ slot[s].at = "reject"
  /\ slot[s].held
  /\ Leave(s)
  /\ DeadLetter(slot[s].msg)
  /\ UNCHANGED <<queue, drain, fresh, failures, faults, history>>

Reject(s) ==
  /\ slot[s].at = "reject"
  /\ Leave(s)
  /\ IF slot[s].held THEN DeadLetter(slot[s].msg) ELSE UNCHANGED dlq
  /\ UNCHANGED <<queue, drain, fresh, failures, faults, history>>

\* A copy goes back to the queue although the work is over or goes on.
Repeats(s) == again' = Once(again, slot[s].msg.task)

\* The worker dies.
Die(s) ==
  /\ slot[s].at # "idle"
  /\ faults < MaxFaults
  /\ faults' = faults + 1
  /\ Leave(s)
  /\ IF slot[s].held
       THEN /\ queue' = Add(queue, slot[s].msg)
            /\ IF slot[s].at \in {"ack", "reject"}
                 THEN Repeats(s)
                 ELSE UNCHANGED again
       ELSE UNCHANGED <<queue, again>>
  /\ UNCHANGED <<dlq, drain, fresh, failures, tries, done, lost>>

\* The connection is lost and restored (connect_robust): the message goes back
\* to the queue, the handler goes on and its answer will mean nothing.
Disconnect(s) ==
  /\ slot[s].at # "idle"
  /\ slot[s].held
  /\ faults < MaxFaults
  /\ faults' = faults + 1
  /\ slot' = [slot EXCEPT ![s].held = FALSE]
  /\ queue' = Add(queue, slot[s].msg)
  /\ Repeats(s)
  /\ UNCHANGED <<dlq, drain, fresh, failures, tries, done, lost>>

\* The time to live of the task queue passes.
Expire(m) ==
  /\ queue[m] > 0
  /\ faults < MaxFaults
  /\ faults' = faults + 1
  /\ queue' = Take(queue, m)
  /\ DeadLetter(m)
  /\ UNCHANGED <<slot, drain, fresh, failures, history>>

-----------------------------------------------------------------------------
\* reprocess_dlq_messages.  Its iterator waits for the next message for ever.
BeginReprocess ==
  /\ drain.at = "idle"
  /\ drain' = [drain EXCEPT !.at = "waiting"]
  /\ UNCHANGED <<queue, dlq, slot, fresh, failures, faults, history>>

TakeAllDead(m) == \* near miss
  /\ drain.at = "waiting"
  /\ dlq[m] > 0
  /\ dlq' = Take(dlq, m)
  /\ drain' = [drain EXCEPT !.at = "got", !.msg = m]
  /\ UNCHANGED <<queue, slot, fresh, failures, faults, history>>

TakeDead(m) ==
  /\ drain.at = "waiting"
  /\ drain.count < Limit
  /\ dlq[m] > 0
  /\ dlq' = Take(dlq, m)
  /\ drain' = [drain EXCEPT !.at = "got", !.msg = m]
  /\ UNCHANGED <<queue, slot, fresh, failures, faults, history>>

RepublishDead ==
  /\ drain.at = "got"
  /\ queue' = Add(queue, New(drain.msg.task))
  /\ again' = Once(again, drain.msg.task)
  /\ drain' = [drain EXCEPT !.at = "ack", !.count = @ + 1]
  /\ UNCHANGED <<dlq, slot, fresh, failures, faults, tries, done, lost>>

\* process() rejects the message, which the dead-letter queue drops; rejecting
\* it a second time raises.
RepublishDeadFails ==
  /\ drain.at = "got"
  /\ faults < MaxFaults
  /\ faults' = faults + 1
  /\ drain' = Undrained
  /\ lost' = lost \cup {drain.msg.task}
  /\ UNCHANGED <<queue, dlq, slot, fresh, failures, tries, done, again>>

AckDead ==
  /\ drain.at = "ack"
  /\ drain' = [drain EXCEPT !.at = "waiting", !.msg = NoMessage]
  /\ UNCHANGED <<queue, dlq, slot, fresh, failures, faults, history>>

\* The message that comes after the limit is given back.
EndReprocess(m) ==
  /\ drain.at = "waiting"
  /\ drain.count = Limit
  /\ dlq[m] > 0
  /\ drain' = Undrained
  /\ UNCHANGED <<queue, dlq, slot, fresh, failures, faults, history>>

DieReprocessing ==
  /\ drain.at # "idle"
  /\ faults < MaxFaults
  /\ faults' = faults + 1
  /\ drain' = Undrained
  /\ dlq' = IF drain.at = "waiting" THEN dlq ELSE Add(dlq, drain.msg)
  /\ UNCHANGED <<queue, slot, fresh, failures, history>>

\* The time to live of the dead-letter queue passes.
Forget(m) ==
  /\ dlq[m] > 0
  /\ dlq' = Take(dlq, m)
  /\ lost' = lost \cup {m.task}
  /\ UNCHANGED <<queue, slot, drain, fresh, failures, faults, tries, done, again>>

In(q) == {m.task : m \in {n \in Message : q[n] > 0}}

PurgeTasks ==
  /\ In(queue) # {}
  /\ queue' = [m \in Message |-> 0]
  /\ lost' = lost \cup In(queue)
  /\ UNCHANGED <<dlq, slot, drain, fresh, failures, faults, tries, done, again>>

PurgeDead ==
  /\ In(dlq) # {}
  /\ dlq' = [m \in Message |-> 0]
  /\ lost' = lost \cup In(dlq)
  /\ UNCHANGED <<queue, slot, drain, fresh, failures, faults, tries, done, again>>

-----------------------------------------------------------------------------
Work(s) ==
  \/ Succeed(s)
  \/ Republish(s)
  \/ Ack(s)
  \/ Reject(s)

Next ==
  \/ \E t \in Tasks : Publish(t)
  \/ \E s \in Slots :
       \/ Work(s)
       \/ \E m \in Message : Deliver(s, m)
       \/ Fail(s)
       \/ Misread(s)
       \/ RepublishFails(s)
       \/ Die(s)
       \/ Disconnect(s)
  \/ \E m \in Message :
       \/ Expire(m)
       \/ TakeDead(m)
       \/ EndReprocess(m)
       \/ Forget(m)
  \/ BeginReprocess
  \/ RepublishDead
  \/ RepublishDeadFails
  \/ AckDead
  \/ DieReprocessing
  \/ PurgeTasks
  \/ PurgeDead

\* Handlers have timeouts and end, the broker delivers in order and so every
\* message in the end; whether anything is reprocessed is nobody's promise.
Fairness ==
  /\ WF_vars(RepublishDead) /\ WF_vars(AckDead)
  /\ \A s \in Slots : WF_vars(Work(s))
  /\ \A m \in Message : SF_vars(\E s \in Slots : Deliver(s, m))

Spec == Init /\ [][Next]_vars /\ Fairness

-----------------------------------------------------------------------------
\* A published task is carried out, or a copy of it is in a queue or in the
\* hands of a handler whose answer the broker awaits, or of the reprocessing,
\* unless a copy was given up knowingly or in RepublishDeadFails: no order of
\* failures, deaths, retries and rejections drops one.
Kept(t) ==
  \/ t \in In(queue) \cup In(dlq)
  \/ \E s \in Slots : slot[s].at # "idle" /\ slot[s].held /\ slot[s].msg.task = t
  \/ drain.at = "got" /\ drain.msg.task = t

NothingLost == \A t \in Tasks \ fresh : done[t] > 0 \/ t \in lost \/ Kept(t)

\* A task is carried out twice only after a copy was put to work a second time:
\* by a death after the work, a lost connection or a reprocessing.  Retries and
\* dead letters alone do not repeat finished work.
RunsOnce == \A t \in Tasks : done[t] <= 1 + again[t]

\* Once failures and faults have stopped, a task is carried out, or rests with
\* the dead letters: the chain of retries is never broken.
Resting(t) ==
  /\ t \in In(dlq)
  /\ t \notin In(queue)
  /\ \A s \in Slots : slot[s].at # "idle" => slot[s].msg.task # t

CarriedOut ==
  \A t \in Tasks : t \notin fresh ~> done[t] > 0 \/ t \in lost \/ Resting(t)

\* "TASK_MAX_RETRIES: int = 3" (config.py): a task that nobody put to work a
\* second time is tried no more often than once and the number of retries.
RetriesBounded == \A t \in Tasks : tries[t] <= 1 + MaxRetries + again[t]
=============================================================================
