---------------------------- MODULE TaskQueueProofs ----------------------------
(***************************************************************************)
(* No order of deliveries, failures, deaths, lost connections, retries and *)
(* rejections makes a published task vanish, or repeats finished work:     *)
(* TaskQueue keeps NothingLost and RunsOnce.                               *)
(***************************************************************************)
EXTENDS TaskQueue, FiniteSetTheorems, TLAPS

\* A handler whose answer will be an acknowledgement has done its work.
Acknowledged ==
  \A s \in Slots : slot[s].at = "ack" => done[slot[s].msg.task] > 0

\* The reprocessing takes no message beyond its limit.
BelowLimit == drain.at = "got" => drain.count < Limit

Typed == TypeOK /\ BelowLimit

QInv == Typed /\ Acknowledged /\ NothingLost

-----------------------------------------------------------------------------
\* The message that fills unused fields is one.
LEMMA NoMessageIsOne == NoMessage \in Message
  <1>1. PICK t \in Tasks : TRUE
    BY QueueAssumption
  <1>2. [task |-> t, retries |-> 0] \in Message
    BY QueueAssumption, SMT DEF Message
  <1> QED
    BY <1>2 DEF NoMessage

LEMMA NewIsMessage == ASSUME NEW t \in Tasks PROVE New(t) \in Message
  BY QueueAssumption, SMT DEF New, Message

\* Adding a copy of a message puts its task into the queue and removes none.
LEMMA AddKeeps ==
  ASSUME NEW q \in [Message -> Nat], NEW m \in Message
  PROVE  /\ Add(q, m) \in [Message -> Nat]
         /\ \A t : t \in In(q) \/ t = m.task => t \in In(Add(q, m))
  BY DEF Add, In

\* Taking one out removes no other task.
LEMMA TakeKeeps ==
  ASSUME NEW q \in [Message -> Nat], NEW m \in Message, q[m] > 0
  PROVE  /\ Take(q, m) \in [Message -> Nat]
         /\ \A t : t \in In(q) => t \in In(Take(q, m)) \/ t = m.task
  BY DEF Take, In

LEMMA TasksIn == ASSUME NEW q PROVE In(q) \subseteq Tasks
  BY DEF In, Message

-----------------------------------------------------------------------------
LEMMA InitTyped == Init => QInv
  <1> SUFFICES ASSUME Init PROVE QInv
    OBVIOUS
  <1>1. Typed
    BY NoMessageIsOne, QueueAssumption
    DEF Init, Typed, TypeOK, BelowLimit, Idle, Undrained
  <1>2. Acknowledged
    BY DEF Init, Acknowledged, Idle
  <1>3. NothingLost
    BY DEF Init, NothingLost
  <1> QED
    BY <1>1, <1>2, <1>3 DEF QInv

\* Every step keeps the types.
LEMMA NextTyped == Typed /\ [Next]_vars => Typed'
  <1> SUFFICES ASSUME Typed, [Next]_vars PROVE Typed'
    OBVIOUS
  <1> USE QueueAssumption DEF Typed, BelowLimit
  <1>a. \A s \in Slots : slot[s].msg \in Message /\ slot[s].msg.task \in Tasks
    BY DEF TypeOK, Message
  <1>b. drain.msg \in Message /\ drain.msg.task \in Tasks
    BY DEF TypeOK, Message
  <1>c. \A t \in Tasks : New(t) \in Message
    BY NewIsMessage
  <1>1. ASSUME NEW t \in Tasks, Publish(t) PROVE Typed'
    <2>1. queue' \in [Message -> Nat]
      BY <1>1, <1>c, AddKeeps DEF Publish, TypeOK
    <2> QED
      BY <1>1, <2>1 DEF Publish, TypeOK, history
  <1>2. ASSUME NEW s \in Slots, NEW m \in Message, Deliver(s, m) PROVE Typed'
    <2>1. queue' \in [Message -> Nat]
      BY <1>2, TakeKeeps DEF Deliver, TypeOK
    <2>2. m.task \in Tasks
      BY DEF Message
    <2> QED
      BY <1>2, <2>1, <2>2 DEF Deliver, TypeOK, Once
  <1>3. ASSUME NEW s \in Slots, Succeed(s) PROVE Typed'
    BY <1>3, <1>a DEF Succeed, TypeOK, Goto, Once
  <1>4. ASSUME NEW s \in Slots, Fail(s) PROVE Typed'
    BY <1>4 DEF Fail, TypeOK, Goto, history
  <1>5. ASSUME NEW s \in Slots, Misread(s) PROVE Typed'
    BY <1>5 DEF Misread, TypeOK, Goto, history
  <1>6. ASSUME NEW s \in Slots, Republish(s) PROVE Typed'
    <2>1. queue' \in [Message -> Nat] /\ dlq' \in [Message -> Nat]
      BY <1>6, <1>a, <1>c, AddKeeps DEF Republish, Retry, TypeOK
    <2> QED
      BY <1>6, <2>1 DEF Republish, TypeOK, Goto, history
  <1>7. ASSUME NEW s \in Slots, RepublishFails(s) PROVE Typed'
    BY <1>7 DEF RepublishFails, TypeOK, Goto, history
  <1>8. ASSUME NEW s \in Slots, Ack(s) PROVE Typed'
    BY <1>8, NoMessageIsOne DEF Ack, TypeOK, Leave, Idle, history
  <1>9. ASSUME NEW s \in Slots, Reject(s) PROVE Typed'
    <2>1. dlq' \in [Message -> Nat]
      BY <1>9, <1>a, AddKeeps DEF Reject, DeadLetter, TypeOK
    <2> QED
      BY <1>9, <2>1, NoMessageIsOne DEF Reject, TypeOK, Leave, Idle, history
  <1>10. ASSUME NEW s \in Slots, Die(s) PROVE Typed'
    <2>1. queue' \in [Message -> Nat]
      BY <1>10, <1>a, AddKeeps DEF Die, TypeOK
    <2>2. again' \in [Tasks -> Nat]
      BY <1>10, <1>a DEF Die, TypeOK, Repeats, Once
    <2> QED
      BY <1>10, <2>1, <2>2, NoMessageIsOne DEF Die, TypeOK, Leave, Idle
  <1>11. ASSUME NEW s \in Slots, Disconnect(s) PROVE Typed'
    <2>1. queue' \in [Message -> Nat]
      BY <1>11, <1>a, AddKeeps DEF Disconnect, TypeOK
    <2>2. again' \in [Tasks -> Nat]
      BY <1>11, <1>a DEF Disconnect, TypeOK, Repeats, Once
    <2>3. slot' \in [Slots -> [at : {"idle", "handling", "failed", "ack", "reject"},
                              msg : Message, held : BOOLEAN]]
      BY <1>11 DEF Disconnect, TypeOK
    <2>4. faults' \in 0..MaxFaults
      BY <1>11 DEF Disconnect, TypeOK
    <2> QED
      BY <1>11, <2>1, <2>2, <2>3, <2>4 DEF Disconnect, TypeOK
  <1>12. ASSUME NEW m \in Message, Expire(m) PROVE Typed'
    <2>1. queue' \in [Message -> Nat] /\ dlq' \in [Message -> Nat]
      BY <1>12, AddKeeps, TakeKeeps DEF Expire, DeadLetter, TypeOK
    <2> QED
      BY <1>12, <2>1 DEF Expire, TypeOK, history
  <1>13. ASSUME BeginReprocess PROVE Typed'
    BY <1>13 DEF BeginReprocess, TypeOK, history
  <1>14. ASSUME NEW m \in Message, TakeDead(m) PROVE Typed'
    <2>1. dlq' \in [Message -> Nat]
      BY <1>14, TakeKeeps DEF TakeDead, TypeOK
    <2> QED
      BY <1>14, <2>1 DEF TakeDead, TypeOK, history
  <1>15. ASSUME RepublishDead PROVE Typed'
    <2>1. queue' \in [Message -> Nat]
      BY <1>15, <1>b, <1>c, AddKeeps DEF RepublishDead, TypeOK
    <2>2. again' \in [Tasks -> Nat]
      BY <1>15, <1>b DEF RepublishDead, TypeOK, Once
    <2>3. drain' \in [at : {"idle", "waiting", "got", "ack"}, msg : Message,
                     count : 0..Limit] /\ drain'.at = "ack"
      <3>1. drain \in [at : {"idle", "waiting", "got", "ack"}, msg : Message,
                      count : 0..Limit]
        BY DEF TypeOK
      <3>2. drain' = [drain EXCEPT !.at = "ack", !.count = drain.count + 1]
        BY <1>15 DEF RepublishDead
      <3>3. drain.count + 1 \in 0..Limit
        BY <1>15, <3>1 DEF RepublishDead
      <3> QED
        BY <3>1, <3>2, <3>3
    <2> QED
      BY <1>15, <2>1, <2>2, <2>3 DEF RepublishDead, TypeOK
  <1>16. ASSUME RepublishDeadFails PROVE Typed'
    BY <1>16, <1>b, NoMessageIsOne DEF RepublishDeadFails, TypeOK, Undrained
  <1>17. ASSUME AckDead PROVE Typed'
    BY <1>17, NoMessageIsOne DEF AckDead, TypeOK, history
  <1>18. ASSUME NEW m \in Message, EndReprocess(m) PROVE Typed'
    BY <1>18, NoMessageIsOne DEF EndReprocess, TypeOK, Undrained, history
  <1>19. ASSUME DieReprocessing PROVE Typed'
    <2>1. dlq' \in [Message -> Nat]
      BY <1>19, <1>b, AddKeeps DEF DieReprocessing, TypeOK
    <2> QED
      BY <1>19, <2>1, NoMessageIsOne DEF DieReprocessing, TypeOK, Undrained, history
  <1>20. ASSUME NEW m \in Message, Forget(m) PROVE Typed'
    <2>1. dlq' \in [Message -> Nat]
      BY <1>20, TakeKeeps DEF Forget, TypeOK
    <2>2. m.task \in Tasks
      BY DEF Message
    <2> QED
      BY <1>20, <2>1, <2>2 DEF Forget, TypeOK
  <1>21. ASSUME PurgeTasks PROVE Typed'
    BY <1>21, TasksIn DEF PurgeTasks, TypeOK
  <1>22. ASSUME PurgeDead PROVE Typed'
    BY <1>22, TasksIn DEF PurgeDead, TypeOK
  <1>23. ASSUME UNCHANGED vars PROVE Typed'
    BY <1>23 DEF vars, history, TypeOK
  <1> QED
    BY <1>1, <1>2, <1>3, <1>4, <1>5, <1>6, <1>7, <1>8, <1>9, <1>10, <1>11,
       <1>12, <1>13, <1>14, <1>15, <1>16, <1>17, <1>18, <1>19, <1>20, <1>21,
       <1>22, <1>23
    DEF Next, Work

-----------------------------------------------------------------------------
\* What Kept is made of, each part for itself.
LEMMA StaysAcknowledged == Typed /\ Acknowledged /\ [Next]_vars => Acknowledged'
  <1> SUFFICES ASSUME Typed, Acknowledged, [Next]_vars, NEW r \in Slots,
                      slot'[r].at = "ack"
               PROVE  done'[slot'[r].msg.task] > 0
    BY DEF Acknowledged
  <1> USE DEF Typed, TypeOK, Acknowledged
  <1>1. \A s \in Slots : slot[s].msg.task \in Tasks
    BY DEF Message
  <1>2. CASE \E s \in Slots : Succeed(s)
    BY <1>1, <1>2 DEF Succeed, Goto, Once
  <1>3. CASE \E s \in Slots : Work(s) /\ ~Succeed(s)
    BY <1>1, <1>3
    DEF Work, Republish, Ack, Reject, Goto, Leave, Idle, history
  <1>4. CASE \E s \in Slots : \/ \E m \in Message : Deliver(s, m)
                             \/ Fail(s)
                             \/ Misread(s)
                             \/ RepublishFails(s)
                             \/ Die(s)
                             \/ Disconnect(s)
    BY <1>1, <1>4
    DEF Deliver, Fail, Misread, RepublishFails, Die, Disconnect, Goto, Leave,
        Idle, history
  <1>5. CASE UNCHANGED <<slot, done>>
    BY <1>5
  <1>6. CASE UNCHANGED vars
    BY <1>5, <1>6 DEF vars, history
  <1> QED
    BY <1>2, <1>3, <1>4, <1>5, <1>6
    DEF Next, Publish, Expire, TakeDead, EndReprocess, Forget, BeginReprocess,
        RepublishDead, RepublishDeadFails, AckDead, DieReprocessing, PurgeTasks,
        PurgeDead, history

-----------------------------------------------------------------------------
\* The parts of Kept that a step does not touch.
Hand(t) == \E s \in Slots : slot[s].at # "idle" /\ slot[s].held /\ slot[s].msg.task = t
Drained(t) == drain.at = "got" /\ drain.msg.task = t

LEMMA KeptIs == ASSUME NEW t
                PROVE  Kept(t) <=> t \in In(queue) \/ t \in In(dlq) \/ Hand(t) \/ Drained(t)
  BY DEF Kept, Hand, Drained

\* No step loses a task: what was kept stays kept, was carried out or is given up.
LEMMA StaysKept ==
  ASSUME Typed, Acknowledged, [Next]_vars,
         NEW t \in Tasks, done[t] > 0 \/ t \in lost \/ Kept(t)
  PROVE  done'[t] > 0 \/ t \in lost' \/ Kept(t)'
  <1> DEFINE Safe == done[t] > 0 \/ t \in lost \/ Kept(t)
  <1> USE DEF Typed, TypeOK
  <1>a. \A s \in Slots : slot[s].msg \in Message /\ slot[s].msg.task \in Tasks
    BY DEF Message
  <1>b. drain.msg \in Message /\ drain.msg.task \in Tasks
    BY DEF Message
  <1>c. \A u \in Tasks : New(u) \in Message /\ New(u).task = u
    BY NewIsMessage DEF New
  <1>d. Kept(t)' <=> t \in In(queue') \/ t \in In(dlq') \/ Hand(t)' \/ Drained(t)'
    BY DEF Kept, Hand, Drained, In
  <1>1. ASSUME NEW u \in Tasks, Publish(u) PROVE Safe'
    <2>1. t \in In(queue) => t \in In(queue')
      BY <1>1, <1>c, AddKeeps DEF Publish
    <2>2. Hand(t) => Hand(t)'
      BY <1>1 DEF Publish, Hand
    <2> QED
      BY <1>1, <1>d, <2>1, <2>2, KeptIs DEF Publish, Drained, history
  <1>2. ASSUME NEW s \in Slots, NEW m \in Message, Deliver(s, m) PROVE Safe'
    <2>1. t \in In(queue) => t \in In(queue') \/ t = m.task
      BY <1>2, TakeKeeps DEF Deliver
    <2>2. Hand(m.task)'
      BY <1>2 DEF Deliver, Hand
    <2>3. Hand(t) => Hand(t)'
      BY <1>2 DEF Deliver, Hand
    <2> QED
      BY <1>2, <1>d, <2>1, <2>2, <2>3, KeptIs DEF Deliver, Drained
  <1>3. ASSUME NEW s \in Slots, Succeed(s) PROVE Safe'
    <2>1. Hand(t) => Hand(t)'
      BY <1>3 DEF Succeed, Goto, Hand
    <2>2. done[t] > 0 => done'[t] > 0
      BY <1>3, <1>a DEF Succeed, Once
    <2> QED
      BY <1>3, <1>d, <2>1, <2>2, KeptIs DEF Succeed, Drained
  <1>4. ASSUME NEW s \in Slots, Fail(s) \/ Misread(s) \/ RepublishFails(s) PROVE Safe'
    <2>1. Hand(t) => Hand(t)'
      BY <1>4 DEF Fail, Misread, RepublishFails, Goto, Hand
    <2> QED
      BY <1>4, <1>d, <2>1, KeptIs DEF Fail, Misread, RepublishFails, Drained, history
  <1>5. ASSUME NEW s \in Slots, Republish(s) PROVE Safe'
    <2>1. Hand(t) => Hand(t)'
      BY <1>5 DEF Republish, Goto, Hand
    <2>2. /\ t \in In(queue) => t \in In(queue')
          /\ t \in In(dlq) => t \in In(dlq')
      BY <1>5, <1>a, <1>c, AddKeeps DEF Republish, Retry
    <2> QED
      BY <1>5, <1>d, <2>1, <2>2, KeptIs DEF Republish, Drained, history
  <1>6. ASSUME NEW s \in Slots, Ack(s) PROVE Safe'
    <2>1. Hand(t) => Hand(t)' \/ slot[s].msg.task = t
      BY <1>6 DEF Ack, Leave, Hand
    <2>2. done[slot[s].msg.task] > 0
      BY <1>6 DEF Ack, Acknowledged
    <2> QED
      BY <1>6, <1>d, <2>1, <2>2, KeptIs DEF Ack, Drained, history
  <1>7. ASSUME NEW s \in Slots, Reject(s) PROVE Safe'
    <2>1. Hand(t) => Hand(t)' \/ (slot[s].msg.task = t /\ slot[s].held)
      BY <1>7 DEF Reject, Leave, Hand
    <2>2. /\ t \in In(dlq) => t \in In(dlq')
          /\ slot[s].held => slot[s].msg.task \in In(dlq')
      BY <1>7, <1>a, AddKeeps DEF Reject, DeadLetter
    <2> QED
      BY <1>7, <1>d, <2>1, <2>2, KeptIs DEF Reject, Drained, history
  <1>8. ASSUME NEW s \in Slots, Die(s) PROVE Safe'
    <2>1. Hand(t) => Hand(t)' \/ (slot[s].msg.task = t /\ slot[s].held)
      BY <1>8 DEF Die, Leave, Hand
    <2>2. /\ t \in In(queue) => t \in In(queue')
          /\ slot[s].held => slot[s].msg.task \in In(queue')
      BY <1>8, <1>a, AddKeeps DEF Die
    <2> QED
      BY <1>8, <1>d, <2>1, <2>2, KeptIs DEF Die, Drained
  <1>9. ASSUME NEW s \in Slots, Disconnect(s) PROVE Safe'
    <2>1. Hand(t) => Hand(t)' \/ slot[s].msg.task = t
      BY <1>9 DEF Disconnect, Hand
    <2>2. /\ t \in In(queue) => t \in In(queue')
          /\ slot[s].msg.task \in In(queue')
      BY <1>9, <1>a, AddKeeps DEF Disconnect
    <2> QED
      BY <1>9, <1>d, <2>1, <2>2, KeptIs DEF Disconnect, Drained
  <1>10. ASSUME NEW m \in Message, Expire(m) PROVE Safe'
    <2>1. /\ t \in In(queue) => t \in In(queue') \/ t = m.task
          /\ t \in In(dlq) \/ t = m.task => t \in In(dlq')
      BY <1>10, AddKeeps, TakeKeeps DEF Expire, DeadLetter
    <2>2. Hand(t) => Hand(t)'
      BY <1>10 DEF Expire, Hand
    <2> QED
      BY <1>10, <1>d, <2>1, <2>2, KeptIs DEF Expire, Drained, history
  <1>11. ASSUME NEW m \in Message, TakeDead(m) PROVE Safe'
    <2>1. t \in In(dlq) => t \in In(dlq') \/ t = m.task
      BY <1>11, TakeKeeps DEF TakeDead
    <2>2. Hand(t) => Hand(t)'
      BY <1>11 DEF TakeDead, Hand
    <2>3. Drained(m.task)' /\ ~Drained(t)
      BY <1>11 DEF TakeDead, Drained
    <2> QED
      BY <1>11, <1>d, <2>1, <2>2, <2>3, KeptIs DEF TakeDead, history
  <1>12. ASSUME RepublishDead PROVE Safe'
    <2>1. t \in In(queue) \/ t = drain.msg.task => t \in In(queue')
      BY <1>12, <1>b, <1>c, AddKeeps DEF RepublishDead
    <2>2. Hand(t) => Hand(t)'
      BY <1>12 DEF RepublishDead, Hand
    <2> QED
      BY <1>12, <1>d, <2>1, <2>2, KeptIs DEF RepublishDead, Drained
  <1>13. ASSUME RepublishDeadFails PROVE Safe'
    <2>1. Hand(t) => Hand(t)'
      BY <1>13 DEF RepublishDeadFails, Hand
    <2> QED
      BY <1>13, <1>d, <2>1, KeptIs DEF RepublishDeadFails, Drained
  <1>14. ASSUME DieReprocessing PROVE Safe'
    <2>1. /\ t \in In(dlq) => t \in In(dlq')
          /\ Drained(t) => t \in In(dlq')
      BY <1>14, <1>b, AddKeeps DEF DieReprocessing, Drained
    <2>2. Hand(t) => Hand(t)'
      BY <1>14 DEF DieReprocessing, Hand
    <2> QED
      BY <1>14, <1>d, <2>1, <2>2, KeptIs DEF DieReprocessing, history
  <1>15. ASSUME NEW m \in Message, BeginReprocess \/ AckDead \/ EndReprocess(m) PROVE Safe'
    <2>1. ~Drained(t)
      BY <1>15 DEF BeginReprocess, AckDead, EndReprocess, Drained
    <2>2. Hand(t) => Hand(t)'
      BY <1>15 DEF BeginReprocess, AckDead, EndReprocess, Hand
    <2> QED
      BY <1>15, <1>d, <2>1, <2>2, KeptIs
      DEF BeginReprocess, AckDead, EndReprocess, history
  <1>16. ASSUME NEW m \in Message, Forget(m) PROVE Safe'
    <2>1. t \in In(dlq) => t \in In(dlq') \/ t = m.task
      BY <1>16, TakeKeeps DEF Forget
    <2>2. Hand(t) => Hand(t)'
      BY <1>16 DEF Forget, Hand
    <2> QED
      BY <1>16, <1>d, <2>1, <2>2, KeptIs DEF Forget, Drained
  <1>17. ASSUME PurgeTasks \/ PurgeDead PROVE Safe'
    <2>1. Hand(t) => Hand(t)'
      BY <1>17 DEF PurgeTasks, PurgeDead, Hand
    <2> QED
      BY <1>17, <1>d, <2>1, KeptIs DEF PurgeTasks, PurgeDead, Drained
  <1>18. ASSUME UNCHANGED vars PROVE Safe'
    <2>1. Hand(t) => Hand(t)'
      BY <1>18 DEF vars, Hand
    <2> QED
      BY <1>18, <1>d, <2>1, KeptIs DEF vars, Drained, history
  <1>19. NoMessage \in Message
    BY NoMessageIsOne
  <1> QED
    BY <1>1, <1>2, <1>3, <1>4, <1>5, <1>6, <1>7, <1>8, <1>9, <1>10, <1>11,
       <1>12, <1>13, <1>14, <1>15, <1>16, <1>17, <1>18, <1>19
    DEF Next, Work

\* The tasks that are not fresh grow only by a task put into the queue.
LEMMA StaysNothingLost == QInv /\ [Next]_vars => NothingLost'
  <1> SUFFICES ASSUME QInv, [Next]_vars, NEW t \in Tasks, t \notin fresh'
               PROVE  done'[t] > 0 \/ t \in lost' \/ Kept(t)'
    BY DEF NothingLost
  <1>1. CASE t \in fresh
    <2>1. Publish(t)
      BY <1>1
      DEF Next, vars, Work, Publish, Deliver, Succeed, Fail, Misread, Republish,
          RepublishFails, Ack, Reject, Die, Disconnect, Expire, BeginReprocess,
          TakeDead, RepublishDead, RepublishDeadFails, AckDead, EndReprocess,
          DieReprocessing, Forget, PurgeTasks, PurgeDead
    <2>2. New(t) \in Message /\ New(t).task = t
      BY NewIsMessage DEF New
    <2>3. t \in In(queue')
      BY <2>1, <2>2, AddKeeps DEF Publish, QInv, Typed, TypeOK
    <2> QED
      BY <2>3 DEF Kept, In
  <1>2. CASE t \notin fresh
    BY <1>2, StaysKept DEF QInv, NothingLost
  <1> QED
    BY <1>1, <1>2

-----------------------------------------------------------------------------
LEMMA QueueInvariant == Spec => []QInv
  <1>1. QInv /\ [Next]_vars => QInv'
    BY NextTyped, StaysAcknowledged, StaysNothingLost DEF QInv
  <1> QED
    BY InitTyped, <1>1, PTL DEF Spec

\* For any number of tasks, handlers, failures and faults: queues, handlers and the
\* reprocessing stay well-formed, which counts no message below 0 or beyond its limit.
THEOREM QueueTyped == Spec => []TypeOK
  <1>1. QInv => TypeOK
    BY DEF QInv, Typed
  <1> QED
    BY <1>1, QueueInvariant, PTL

\* For any number of tasks, handlers, failures and faults: a published task was
\* carried out, is in a queue or in somebody's hands, or a copy of it was given
\* up by expiry, purge or a failing reprocessing.
THEOREM QueueKeepsTasks == Spec => []NothingLost
  <1>1. QInv => NothingLost
    BY DEF QInv
  <1> QED
    BY <1>1, QueueInvariant, PTL

-----------------------------------------------------------------------------
\* Every message counts no retries, because every retry is a new message: so the
\* copies of a task in the queue are the copies of one message.
CountsNoRetries ==
  /\ \A m \in Message : queue[m] > 0 => m.retries = 0
  /\ \A s \in Slots : slot[s].at # "idle" => slot[s].msg.retries = 0

LEMMA NewIsOnly ==
  ASSUME NEW m \in Message, m.retries = 0
  PROVE  m = New(m.task)
  BY DEF New, Message

LEMMA StaysCountsNoRetries ==
  Typed /\ CountsNoRetries /\ [Next]_vars => CountsNoRetries'
  <1> SUFFICES ASSUME Typed, CountsNoRetries, [Next]_vars PROVE CountsNoRetries'
    OBVIOUS
  <1> USE DEF Typed, TypeOK
  <1>a. \A s \in Slots : slot[s].msg \in Message /\ slot[s].msg.task \in Tasks
    BY DEF Message
  <1>b. drain.msg \in Message /\ drain.msg.task \in Tasks
    BY DEF Message
  <1>c. \A t \in Tasks : New(t) \in Message /\ New(t).retries = 0
    BY NewIsMessage DEF New
  <1>d. \A m, n \in Message : Add(queue, m)[n] > 0 => queue[n] > 0 \/ n = m
    BY DEF Add
  <1>e. \A m, n \in Message : queue[m] > 0 /\ Take(queue, m)[n] > 0 => queue[n] > 0
    BY DEF Take
  <1> DEFINE InQueue == \A m \in Message : queue[m] > 0 => m.retries = 0
             InSlots == \A s \in Slots : slot[s].at # "idle" => slot[s].msg.retries = 0
  <1>f. InQueue /\ InSlots
    BY DEF CountsNoRetries
  <1>1. ASSUME NEW t \in Tasks, Publish(t) PROVE InQueue' /\ InSlots'
    BY <1>1, <1>c, <1>d, <1>f DEF Publish
  <1>2. ASSUME NEW s \in Slots, NEW m \in Message, Deliver(s, m)
        PROVE  InQueue' /\ InSlots'
    BY <1>2, <1>e, <1>f DEF Deliver
  <1>3. ASSUME NEW s \in Slots,
               Succeed(s) \/ Fail(s) \/ Misread(s) \/ RepublishFails(s)
        PROVE  InQueue' /\ InSlots'
    BY <1>3, <1>f DEF Succeed, Fail, Misread, RepublishFails, Goto
  <1>4. ASSUME NEW s \in Slots, Republish(s) PROVE InQueue' /\ InSlots'
    <2>1. InSlots'
      BY <1>4, <1>f DEF Republish, Goto
    <2>2. InQueue'
      BY <1>4, <1>a, <1>c, <1>d, <1>f DEF Republish, Retry
    <2> QED
      BY <2>1, <2>2
  <1>5. ASSUME NEW s \in Slots, Ack(s) \/ Reject(s) PROVE InQueue' /\ InSlots'
    BY <1>5, <1>f DEF Ack, Reject, Leave, Idle
  <1>6. ASSUME NEW s \in Slots, Die(s) PROVE InQueue' /\ InSlots'
    <2>1. InSlots'
      BY <1>6, <1>f DEF Die, Leave, Idle
    <2>2. InQueue'
      BY <1>6, <1>a, <1>d, <1>f DEF Die
    <2> QED
      BY <2>1, <2>2
  <1>7. ASSUME NEW s \in Slots, Disconnect(s) PROVE InQueue' /\ InSlots'
    <2>1. InSlots'
      BY <1>7, <1>f DEF Disconnect
    <2>2. InQueue'
      BY <1>7, <1>a, <1>d, <1>f DEF Disconnect
    <2> QED
      BY <2>1, <2>2
  <1>8. ASSUME NEW m \in Message, Expire(m) PROVE InQueue' /\ InSlots'
    BY <1>8, <1>e, <1>f DEF Expire
  <1>9. ASSUME RepublishDead PROVE InQueue' /\ InSlots'
    BY <1>9, <1>b, <1>c, <1>d, <1>f DEF RepublishDead
  <1>10. ASSUME PurgeTasks PROVE InQueue' /\ InSlots'
    BY <1>10, <1>f DEF PurgeTasks
  <1>11. ASSUME UNCHANGED <<queue, slot>> PROVE InQueue' /\ InSlots'
    BY <1>11, <1>f
  <1>12. InQueue' /\ InSlots'
    BY <1>1, <1>2, <1>3, <1>4, <1>5, <1>6, <1>7, <1>8, <1>9, <1>10, <1>11
    DEF Next, Work, vars, BeginReprocess, TakeDead, EndReprocess, Forget,
        RepublishDeadFails, AckDead, DieReprocessing, PurgeDead
  <1> QED
    BY <1>12 DEF CountsNoRetries

\* The handlers that have a task still to carry out, or to hand on.
Busy(t) ==
  {s \in Slots : slot[s].at \in {"handling", "failed"} /\ slot[s].msg.task = t}

\* Each task may still be carried out once for every copy in the queue and in the
\* hands of such a handler, and for its first publication.
OneToRun ==
  \A t \in Tasks :
    done[t] + queue[New(t)] + Cardinality(Busy(t)) + (IF t \in fresh THEN 1 ELSE 0)
      <= 1 + again[t]

LEMMA BusyFinite ==
  ASSUME NEW t
  PROVE  IsFiniteSet(Busy(t)) /\ Cardinality(Busy(t)) \in Nat
  BY QueueAssumption, FS_Subset, FS_CardinalityType DEF Busy

\* How a step on one slot changes their number.
LEMMA BusyChanges ==
  ASSUME NEW t, NEW s \in Slots
  PROVE  /\ Busy(t)' = Busy(t) => Cardinality(Busy(t)') = Cardinality(Busy(t))
         /\ Busy(t)' = Busy(t) \ {s} =>
              Cardinality(Busy(t)') = Cardinality(Busy(t)) - (IF s \in Busy(t) THEN 1 ELSE 0)
         /\ Busy(t)' = Busy(t) \cup {s} /\ s \notin Busy(t) =>
              Cardinality(Busy(t)') = Cardinality(Busy(t)) + 1
  BY BusyFinite, FS_RemoveElement, FS_AddElement

LEMMA StaysOneToRun ==
  Typed /\ CountsNoRetries /\ OneToRun /\ [Next]_vars => OneToRun'
  <1> SUFFICES ASSUME Typed, CountsNoRetries, OneToRun, [Next]_vars, NEW t \in Tasks
               PROVE  done'[t] + queue'[New(t)] + Cardinality(Busy(t)')
                        + (IF t \in fresh' THEN 1 ELSE 0) <= 1 + again'[t]
    BY DEF OneToRun
  <1> DEFINE n == Cardinality(Busy(t))
             first == IF t \in fresh THEN 1 ELSE 0
             Bounded == done[t] + queue[New(t)] + n + first <= 1 + again[t]
  <1>a. \A s \in Slots : /\ slot[s].msg \in Message
                         /\ slot[s].msg.task \in Tasks
                         /\ slot[s].at # "idle" => slot[s].msg = New(slot[s].msg.task)
    BY NewIsOnly DEF Typed, TypeOK, Message, CountsNoRetries
  <1>b. drain.msg.task \in Tasks
    BY DEF Typed, TypeOK, Message
  <1>c. \A u \in Tasks : New(u) \in Message /\ (New(u) = New(t) <=> u = t)
    BY NewIsMessage DEF New
  <1>d. /\ done[t] \in Nat /\ queue[New(t)] \in Nat /\ again[t] \in Nat
        /\ n \in Nat /\ Bounded
    BY <1>c, BusyFinite DEF Typed, TypeOK, OneToRun
  <1>q. \A m \in Message : /\ Add(queue, m)[New(t)] =
                               (IF m = New(t) THEN queue[New(t)] + 1 ELSE queue[New(t)])
                           /\ Take(queue, m)[New(t)] =
                               (IF m = New(t) THEN queue[New(t)] - 1 ELSE queue[New(t)])
    BY <1>c DEF Add, Take, Typed, TypeOK
  <1>o. \A f \in [Tasks -> Nat], u \in Tasks :
          Once(f, u)[t] = (IF u = t THEN f[t] + 1 ELSE f[t])
    BY DEF Once
  <1>h. done \in [Tasks -> Nat] /\ again \in [Tasks -> Nat]
    BY DEF Typed, TypeOK
  <1>i. /\ first \in Nat
        /\ (IF t \in fresh' THEN 1 ELSE 0) = first'
    OBVIOUS
  <1>s. slot \in [Slots -> [at : {"idle", "handling", "failed", "ack", "reject"},
                           msg : Message, held : BOOLEAN]]
    BY DEF Typed, TypeOK
  <1> HIDE DEF n, first
  <1>1. ASSUME NEW u \in Tasks, Publish(u) PROVE Bounded'
    <2>1. /\ n' = n /\ UNCHANGED <<done, again>>
      BY <1>1, BusyChanges DEF Publish, Busy, n, history
    <2>2. queue'[New(t)] = IF u = t THEN queue[New(t)] + 1 ELSE queue[New(t)]
      BY <1>1, <1>c, <1>q DEF Publish
    <2>3. first' = IF u = t THEN first - 1 ELSE first
      BY <1>1 DEF Publish, first
    <2> QED
      BY <1>d, <1>i, <2>1, <2>2, <2>3
  <1>2. ASSUME NEW s \in Slots, NEW m \in Message, Deliver(s, m) PROVE Bounded'
    <2>1. m = New(m.task) /\ m.task \in Tasks
      BY <1>2, NewIsOnly DEF Deliver, CountsNoRetries, Message
    <2>2. queue'[New(t)] = IF m.task = t THEN queue[New(t)] - 1 ELSE queue[New(t)]
      BY <1>2, <1>c, <1>q, <2>1 DEF Deliver
    <2>3. /\ s \notin Busy(t)
          /\ Busy(t)' = IF m.task = t THEN Busy(t) \cup {s} ELSE Busy(t)
      BY <1>2, <1>s DEF Deliver, Busy
    <2>4. n' = IF m.task = t THEN n + 1 ELSE n
      BY <2>3, BusyChanges DEF n
    <2>5. first' = first /\ UNCHANGED <<done, again>>
      BY <1>2 DEF Deliver, first
    <2> QED
      BY <1>d, <1>i, <2>2, <2>4, <2>5
  <1>3. ASSUME NEW s \in Slots, Succeed(s) PROVE Bounded'
    <2>1. /\ s \in Busy(t) <=> slot[s].msg.task = t
          /\ Busy(t)' = Busy(t) \ {s}
      BY <1>3, <1>s DEF Succeed, Goto, Busy
    <2>2. n' = IF slot[s].msg.task = t THEN n - 1 ELSE n
      BY <2>1, BusyChanges DEF n
    <2>3. done'[t] = IF slot[s].msg.task = t THEN done[t] + 1 ELSE done[t]
      BY <1>3, <1>a, <1>h, <1>o DEF Succeed
    <2>4. first' = first /\ UNCHANGED <<queue, again>>
      BY <1>3 DEF Succeed, first
    <2> QED
      BY <1>d, <1>i, <2>2, <2>3, <2>4
  <1>4. ASSUME NEW s \in Slots, Fail(s) PROVE Bounded'
    <2>1. Busy(t)' = Busy(t)
      BY <1>4, <1>s DEF Fail, Goto, Busy
    <2>2. n' = n
      BY <1>4, <2>1, BusyChanges DEF n
    <2>3. first' = first /\ UNCHANGED <<queue, done, again>>
      BY <1>4 DEF Fail, first, history
    <2> QED
      BY <1>d, <1>i, <2>2, <2>3
  <1>5. ASSUME NEW s \in Slots, Misread(s) \/ RepublishFails(s) PROVE Bounded'
    <2>1. Busy(t)' = Busy(t) \ {s}
      BY <1>5, <1>s DEF Misread, RepublishFails, Goto, Busy
    <2>2. n' = IF s \in Busy(t) THEN n - 1 ELSE n
      BY <2>1, BusyChanges DEF n
    <2>3. first' = first /\ UNCHANGED <<queue, done, again>>
      BY <1>5 DEF Misread, RepublishFails, first, history
    <2> QED
      BY <1>d, <1>i, <2>2, <2>3
  <1>6. ASSUME NEW s \in Slots, Republish(s) PROVE Bounded'
    <2>1. /\ s \in Busy(t) <=> slot[s].msg.task = t
          /\ Busy(t)' = Busy(t) \ {s}
      BY <1>6, <1>s DEF Republish, Goto, Busy
    <2>2. n' = IF slot[s].msg.task = t THEN n - 1 ELSE n
      BY <2>1, BusyChanges DEF n
    <2>3. queue' = Add(queue, New(slot[s].msg.task))
      BY <1>6, <1>a DEF Republish, Retry
    <2>4. queue'[New(t)] =
            IF slot[s].msg.task = t THEN queue[New(t)] + 1 ELSE queue[New(t)]
      BY <1>a, <1>c, <1>q, <2>3
    <2>5. first' = first /\ UNCHANGED <<done, again>>
      BY <1>6 DEF Republish, first, history
    <2> QED
      BY <1>d, <1>i, <2>2, <2>4, <2>5
  <1>7. ASSUME NEW s \in Slots, Ack(s) \/ Reject(s) PROVE Bounded'
    <2>1. Busy(t)' = Busy(t)
      BY <1>7, <1>s DEF Ack, Reject, Leave, Idle, Busy
    <2>2. n' = n
      BY <1>7, <2>1, BusyChanges DEF n
    <2>3. first' = first /\ UNCHANGED <<queue, done, again>>
      BY <1>7 DEF Ack, Reject, first, history
    <2> QED
      BY <1>d, <1>i, <2>2, <2>3
  <1>8. ASSUME NEW s \in Slots, Die(s) PROVE Bounded'
    <2>1. first' = first /\ UNCHANGED done
      BY <1>8 DEF Die, first
    <2>2. Busy(t)' = Busy(t) \ {s}
      BY <1>8, <1>s DEF Die, Leave, Idle, Busy
    <2>3. n' = IF s \in Busy(t) THEN n - 1 ELSE n
      BY <2>2, BusyChanges DEF n
    <2>4. CASE ~slot[s].held
      <3>1. UNCHANGED <<queue, again>>
        BY <1>8, <2>4 DEF Die
      <3> QED
        BY <1>d, <1>i, <2>1, <2>3, <3>1
    <2>5. CASE slot[s].held
      <3>1. queue' = Add(queue, New(slot[s].msg.task))
        BY <1>8, <1>a, <2>5 DEF Die
      <3>2. queue'[New(t)] =
              IF slot[s].msg.task = t THEN queue[New(t)] + 1 ELSE queue[New(t)]
        BY <1>a, <1>c, <1>q, <3>1
      <3>3. CASE slot[s].at \in {"ack", "reject"}
        <4>1. again'[t] = IF slot[s].msg.task = t THEN again[t] + 1 ELSE again[t]
          BY <1>8, <1>a, <1>h, <1>o, <2>5, <3>3 DEF Die, Repeats
        <4> QED
          BY <1>d, <1>i, <2>1, <2>3, <3>2, <4>1
      <3>4. CASE slot[s].at \in {"handling", "failed"}
        <4>1. again' = again
          BY <1>8, <2>5, <3>4 DEF Die
        <4>2. s \in Busy(t) <=> slot[s].msg.task = t
          BY <3>4 DEF Busy
        <4> QED
          BY <1>d, <1>i, <2>1, <2>3, <3>2, <4>1, <4>2
      <3> QED
        BY <1>8, <1>s, <3>3, <3>4 DEF Die
    <2> QED
      BY <2>4, <2>5
  <1>9. ASSUME NEW s \in Slots, Disconnect(s) PROVE Bounded'
    <2>1. first' = first /\ UNCHANGED done
      BY <1>9 DEF Disconnect, first
    <2>2. Busy(t)' = Busy(t)
      BY <1>9, <1>s DEF Disconnect, Busy
    <2>3. n' = n
      BY <1>9, <2>2, BusyChanges DEF n
    <2>4. queue' = Add(queue, New(slot[s].msg.task))
      BY <1>9, <1>a DEF Disconnect
    <2>5. queue'[New(t)] =
            IF slot[s].msg.task = t THEN queue[New(t)] + 1 ELSE queue[New(t)]
      BY <1>a, <1>c, <1>q, <2>4
    <2>6. again'[t] = IF slot[s].msg.task = t THEN again[t] + 1 ELSE again[t]
      BY <1>9, <1>a, <1>h, <1>o DEF Disconnect, Repeats
    <2> QED
      BY <1>d, <1>i, <2>1, <2>3, <2>5, <2>6
  <1>10. ASSUME UNCHANGED <<slot, done, fresh>>,
                queue'[New(t)] - queue[New(t)] <= again'[t] - again[t],
                queue'[New(t)] \in Int, again'[t] \in Int
         PROVE  Bounded'
    <2>1. n' = n /\ first' = first
      BY <1>10 DEF n, first, Busy
    <2> QED
      BY <1>d, <1>i, <1>10, <2>1
  <1>11. ASSUME NEW m \in Message, Expire(m) PROVE Bounded'
    <2>1. queue'[New(t)] \in Int /\ queue'[New(t)] <= queue[New(t)]
      BY <1>11, <1>d, <1>q DEF Expire
    <2> QED
      BY <1>11, <1>d, <1>10, <2>1 DEF Expire, history
  <1>12. ASSUME RepublishDead PROVE Bounded'
    <2>1. queue'[New(t)] =
            IF drain.msg.task = t THEN queue[New(t)] + 1 ELSE queue[New(t)]
      BY <1>12, <1>b, <1>c, <1>q DEF RepublishDead
    <2>2. again'[t] = IF drain.msg.task = t THEN again[t] + 1 ELSE again[t]
      BY <1>12, <1>b, <1>h, <1>o DEF RepublishDead
    <2> QED
      BY <1>12, <1>d, <1>10, <2>1, <2>2 DEF RepublishDead
  <1>13. ASSUME PurgeTasks PROVE Bounded'
    <2>1. queue'[New(t)] = 0
      BY <1>13, <1>c DEF PurgeTasks
    <2> QED
      BY <1>13, <1>d, <1>10, <2>1 DEF PurgeTasks
  <1>14. ASSUME UNCHANGED <<queue, slot, done, fresh, again>> PROVE Bounded'
    BY <1>14, <1>d, <1>10
  <1>15. Bounded'
    BY <1>1, <1>2, <1>3, <1>4, <1>5, <1>6, <1>7, <1>8, <1>9, <1>11, <1>12, <1>13, <1>14
    DEF Next, Work, vars, history, BeginReprocess, TakeDead, EndReprocess, Forget,
        RepublishDeadFails, AckDead, DieReprocessing, PurgeDead
  <1> QED
    BY <1>15, <1>i DEF n

\* For any number of tasks, handlers, failures and faults: a task is carried out once,
\* and once more only for every time a copy was put to work although another one was
\* over or under way; retries and dead letters alone repeat nothing.
THEOREM QueueRunsOnce == Spec => []RunsOnce
  <1> DEFINE RInv == QInv /\ CountsNoRetries /\ OneToRun
  <1>1. Init => RInv
    <2> SUFFICES ASSUME Init PROVE RInv
      OBVIOUS
    <2>1. CountsNoRetries
      BY DEF Init, CountsNoRetries, Idle
    <2>2. \A t \in Tasks : Cardinality(Busy(t)) = 0
      <3>1. \A t \in Tasks : Busy(t) = {}
        BY DEF Init, Busy, Idle
      <3> QED
        BY <3>1, FS_EmptySet
    <2>3. OneToRun
      BY <2>2, NewIsMessage DEF Init, OneToRun
    <2> QED
      BY InitTyped, <2>1, <2>3
  <1>2. RInv /\ [Next]_vars => RInv'
    BY NextTyped, StaysAcknowledged, StaysNothingLost, StaysCountsNoRetries,
       StaysOneToRun
    DEF QInv
  <1>3. RInv => RunsOnce
    <2> SUFFICES ASSUME RInv, NEW t \in Tasks PROVE done[t] <= 1 + again[t]
      BY DEF RunsOnce
    <2>1. /\ done[t] \in Nat /\ queue[New(t)] \in Nat /\ again[t] \in Nat
          /\ Cardinality(Busy(t)) \in Nat
      BY NewIsMessage, BusyFinite DEF QInv, Typed, TypeOK
    <2>2. done[t] + queue[New(t)] + Cardinality(Busy(t)) + (IF t \in fresh THEN 1 ELSE 0)
            <= 1 + again[t]
      BY DEF OneToRun
    <2> QED
      BY <2>1, <2>2
  <1> QED
    BY <1>1, <1>2, <1>3, PTL DEF Spec
=============================================================================
