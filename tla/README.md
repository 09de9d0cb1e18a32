# Verification of MAMS (vpams)

MAMS is a media asset management system: some fifty FastAPI services behind an
API gateway, with PostgreSQL, Redis and RabbitMQ underneath. This directory
holds TLA+ models of its concurrent parts, TLC configurations that check them on
small instances, and TLAPS proofs of the results that hold for every instance.

Paths below are relative to `src/services/` unless they start with `src/`.
`PROJECT.json` lists the runs, the lines each definition models, the hazards and
the theorems.

## 1. The system

### How the parts interact

A client request enters the **API gateway** (`api-gateway`). Its middleware
consults the **rate limiter** (state in Redis, shared by all gateway workers) and
`proxy_request` hands it to a **service client**, which picks an instance from
the **service registry** through the **load balancer** and sends the request
under the service's **circuit breaker**, with **retries**. A **health check task**
probes the registered instances and writes what it finds into the registry and,
for an instance that becomes unhealthy, into the breaker. The management API
registers and deregisters instances and resets breakers. All of this except the
limiter is memory of one asyncio event loop: code runs undisturbed between two
awaits and anything may happen at an await.

The **workflow engine** (`workflow-engine`) executes task lists. API requests and
the worker that consumes its RabbitMQ queue each make an engine of their own;
what they share is the row of the workflow instance in PostgreSQL, which each
reads, works on as a copy, and writes back whole. The **task queue** carries the
work to the worker: a message that fails is published again as a new one and
rejected into a dead-letter queue, from which an operator can have it reprocessed.

The **storage abstraction** (`storage-abstraction`) puts drivers for object
stores behind one interface. A **resumable upload** collects chunks in a
temporary file, keeps its sessions in memory and in one session file, and hands
the whole to a driver. **Tier migration** changes the storage tier of objects in
a driver or moves them between drivers, for requests and for an hourly worker.

The **failover manager** (`failover`) stands alone: it checks the regions, and
moves DNS, load balancer and ingress from one to another by itself or when an
operator asks. As committed its check of a region always raises, so that every
failover rolls back; it is modelled as it runs.

### Components

| Component | State | Operations | What makes it correct |
|---|---|---|---|
| Circuit breaker, `api-gateway/src/core/circuit_breaker.py` | mode, failure and success counts, time of the last failure; per service | `call` (before and after the awaited function), `reset`, the health task's `_record_failure` | opens, half-opens and closes exactly at its thresholds; never stuck, whatever order outcomes arrive in |
| Service client, `core/service_discovery.py`, `core/retry.py` | per request: attempt, instance; per instance: `active_connections` | `request`, retry loop, backoff | sends only where allowed at that moment; counts connections exactly; ends; serves again after an outage |
| Load balancer, `core/load_balancer.py` | one cursor per strategy | `select_instance`, `set_service_strategy`, `update_instance_metrics` | fair in turn, or by weight |
| Registry and health task, `core/service_discovery.py` | lists of instances, index of ids, position of the task in two loops | register, deregister, probe | index and lists agree; every instance is probed again |
| Rate limiter, `core/rate_limiter.py` | sorted set, counters or bucket in Redis; per check what it has read | three algorithms | no more than the limit in a window, as far as concurrency allows |
| Middleware, routes, validation, `core/middleware.py`, `main.py` | none shared | rewriting, error mapping | the documented answer |
| Workflow execution, `workflow-engine/src/services/workflow_engine.py` | the instance's row; per call a copy of it | execute, pause, resume, cancel, timeout, retry | the row tells the truth about the work done |
| Task queue and worker, `rabbitmq_service.py`, `workers/task_worker.py` | task queue, dead-letter queue, messages in handlers, retry counts in the messages | publish, process, retry, reject, reprocess, purge | a task is neither lost nor repeated without a reason |
| Workflow locks and checkpoints, `state_manager.py` | Redis keys with expiry | acquire, release, extend, checkpoint | one holder |
| Approvals, escalations, triggers, designer, templates | database records | CRUD, timers | — |
| Resumable uploads, `storage-abstraction/src/services/resume_upload_service.py` | sessions, a temporary file each, one session file | start, upload chunk, complete, abort, expire, save, load | what is stored is every chunk; what is listed is written; a restart goes on |
| Tier migration, `storage-abstraction/src/services/tier_migration_service.py` | objects per driver, one lock, tasks and their queues of objects | migrate, batch, apply policy, worker | the newest version is never deleted; every call is answered |
| Failover manager, `failover/src/services/failover_manager.py`, `api/routes.py` | state, active region, health of regions; where traffic goes | automatic and background failovers, rollback, configuration, restart | whatever overlaps, a failover that fails leaves state and traffic as they were |
| Ingest jobs and queue, `ingest-service` | job objects, retry and dead-letter queues | process, cancel, retry | a cancelled job stays so; a message is retried a bounded number of times |
| Edge cache, `edge-cache/src/core` | memory and disk levels, statistics | get, set, evict, prefetch | levels agree |
| Everything else | see section 7 | | |

### What is hard in this code

The list with its lines is in `PROJECT.json` under `hazards`. The themes are:

* **Outcomes that outlive the mode they began in.** A call admitted by a closed
  breaker reports when the breaker is open, half-open or reset.
* **State used after an await.** The health task applies a verdict to an instance
  that is gone; a retry wakes up in a changed registry; every workflow call
  writes a row from a copy it read earlier; an upload is aborted while one of its
  chunks is written.
* **Check, then act, across an await.** The sliding window counts in one pipeline
  and adds in another; the bucket is read with `GET` and written with `SET`, by
  checks whose clocks may run behind what others have stored; two
  executions pass one status check; two chunks both find no file and create it.
* **Loops over what others change.** The health task is suspended inside two
  `for` loops whose dictionary and lists change.
* **Copies.** A failed task exists as its retry and as the message not yet
  rejected; a migrated object exists in two drivers until the source is deleted;
  the sessions exist in memory, in snapshots on their way to the file, and in the
  file. A death or a failure may come between any two of them.
* **Nobody excludes anybody.** Failovers started by operators and by the monitoring
  loop move the same traffic step by step, and undo each other's steps.
* **Half-way.** A check lost before or after Redis executed it; a file that is
  emptied before it is written, and removed when the writing fails; a process that
  dies while it executes a workflow, saves its sessions, copies an object or rolls
  back a failover; a broker connection lost while the handler goes on.

## 2. Modules

| Module | Models |
|---|---|
| `BreakerOps` | The methods of `CircuitBreaker` as operators on a record. Used by both modules below. |
| `CircuitBreaker` | One breaker and the tasks that call through it: `Call` up to the await, `Succeed`, `Fail`, `Cancel` after it, failures of the health task, resets, time. |
| `BreakerContract` | Abstract specification: what a breaker promises over runs of reported outcomes, without counters. |
| `CircuitBreakerHistory` | `CircuitBreaker` with those runs as history variables, its refinement of the contract, and what the guide says of a half-open breaker. |
| `ServiceClient` | Composition for one service: requests, retries, breaker, instances, health verdicts, registration. Refines `CircuitBreaker`. |
| `RoundRobin` | The two strategies with a cursor, for several services that share it. |
| `ServiceRegistry` | Lists, index, ids, and the health task's walk over them. |
| `Selection` | What the gateway selects an instance with: `RoundRobin` and `ServiceRegistry` under one specification; a behaviour is of one or the other. |
| `LimiterParams` | Parameters shared by the limiter's strategies, and the assumptions on them. |
| `SlidingWindow`, `FixedWindow`, `TokenBucket` | One strategy each: the clock, what Redis holds, and concurrent checks with their local variables. |
| `RateLimiter` | `check_rate_limit`: composes the three by the strategy of the rule. |
| `MCGateway` | Instances of `CircuitBreakerHistory`, `Selection` and `RateLimiter` for one run. They share no state: `acting` says which of them a behaviour is of. |
| `WorkflowExecution` | One workflow instance: its row, and calls that execute, pause, resume and cancel it. |
| `TaskQueue` | RabbitMQ's two queues, the handlers of the worker, and the reprocessing of dead letters. |
| `ResumeUpload` | Sessions, temporary files, the session file, requests, the cleanup task, crashes and restarts. |
| `Failover` | The monitoring loop, its own and background failovers, which roll back, the configuration, death and restart. `MCFailover` gives it an instance. |
| `TierMigration` | Drivers and their objects, migrations by requests and worker, and clients that write meanwhile. |
| `GatewayProofs` | Theorems about `ServiceClient`, `ServiceRegistry`, `RoundRobin` and `Selection`. |
| `CircuitBreakerProofs`, `RateLimiterProofs`, `WorkflowExecutionProofs`, `TaskQueueProofs`, `ResumeUploadProofs`, `FailoverProofs`, `TierMigrationProofs` | Theorems about the module they are named after and those it is composed of. |

How state and actions correspond to the code:

* A **step** runs from one await that really suspends to the next. The breaker's
  methods await only an uncontended lock, and choosing an instance awaits nothing
  that suspends, so they are parts of the step that calls them. A Redis pipeline,
  a `GET`, a `SET`, a database update, a call to a driver and an operation of
  `aiofiles` are one step each.
* **Breaker.** `_failure_count` is only compared with the threshold, so it is
  counted up to `FailureCountCap`. `_last_failure_time` is only used as an
  elapsed time, so it is kept as an age, up to `RecoveryTimeout`; `NoFailure` is
  the code's `None`.
* **ServiceClient.** `Start` and `WakeUp` are an attempt up to its HTTP exchange:
  enter the breaker, choose any healthy instance, count the connection. `Respond`,
  `FailAttempt` (timeout, connection error, 5xx), `Break` (any other exception:
  recorded by the breaker, not retried) and `Cancel` (recorded by nobody, the
  `finally` block still runs) end the exchange. Which healthy instance is chosen
  is left open there and decided in `RoundRobin`.
* **Balancer.** `picks` is history: the selections of each service since anything
  changed for it. A pick by another service with the same strategy moves the
  shared cursor, so it counts as such a change.
* **Registry.** `pass` is the position of the health task in its two loops. The
  list iterator goes on by position and so skips an instance after a removal; the
  dictionary iterator raises `RuntimeError` after an insertion and ends the pass.
* **Limiter.** A member of the sorted set is named after the time at which the
  check began, which is also its score; a key past its expiry counts as empty;
  amounts of tokens are multiplied by the window, so that they are integers. A
  check of a bucket is three steps, `ReadClock`, `Take` (`GET` and the verdict) and
  `Allow` (`SET`), of any number of checks at once, so a later `SET` overwrites an
  earlier one and the time passed may be negative. History: `counted` is how many of
  the allowed checks the stored bucket has accounted for, `prompt` that no check
  took longer than a window from its clock to its `GET`.
* **Workflow.** `mine[c]` is the object `_load_workflow_instance` returned to call
  `c`; `Save` is `_update_workflow_instance`, which writes every column. `Launch`,
  `LoadDefinition`, `BeginTask`, `EndTask`, `FailTask`, `TimeOut` and `Finish` are
  `execute_workflow` and `_execute_workflow_async` await by await. A cancelling
  request has a new engine with an empty `running_workflows`
  (`api/routes.py:596`), so cancellation is the write of a status and nothing
  else. `Die` is the death of a process; the redelivery that may follow is one
  more call.
* **Task queue.** The queues are bags: `queue[m]` copies of message `m`. A slot is
  one delivered message: its handler (`handling`, then `failed` until the retry is
  published, then `ack` or `reject`) and `held`, whether the broker still waits
  for the answer. `Die` returns a held message, `Disconnect` returns it and lets
  the handler go on. `drain` is `reprocess_dlq_messages` with its counter. History:
  `tries` and `done` count attempts and completions, `again` the events by which a
  second copy of a task is put to work, `lost` holds the tasks of which a copy was
  given up: purged, expired among the dead letters, or dropped when republishing
  a dead letter fails.
* **ResumeUpload.** A temporary file is the set of chunks whose bytes it holds. A
  request is at one of its awaits; `creates` is the mode chosen before the file is
  opened, `snapshot` the dictionary serialised before the session file is opened.
  The file's text is whole, empty (opened with `'w'`, not yet written) or torn (two
  writers over each other); only a whole one is read after a restart. History:
  `clean` holds the uploads whose client kept to the discipline "no chunk sent
  twice at once, nothing beside the first chunk"; `alone` says that the latest
  saves did not overlap.
* **Failover.** `run[t].at` is the place of task `t` in `execute_failover` or
  `_rollback_failover`; the monitoring loop is one of these tasks, because it awaits
  the failover inside its pass. `_check_region_health` evaluates
  `RegionStatus.UNKNOWN` whenever it is called (`failover_manager.py:142`), a member
  that `models/schemas.py:12`–`17` does not have. So `gather` hands the loop an
  exception for every region, `_handle_region_failure` (`:247`–`258`) is what a
  pass does (`Counted`, `HandleUpToActive`, `EndPass`), and the last step of a
  failover, which checks the target again, always fails (`VerifyServices`). DNS and
  load balancer change between the same two awaits and are one variable; `ingress`
  is what `_redirect_traffic` changes. `auto` and `threshold` are the settings
  `PUT /configuration` changes. History: `watched` says that a pass has ended since the
  start, `cut` that a death left traffic elsewhere and no failover has begun since.
* **TierMigration.** A task is at one driver call of `_execute_migration`, or at one
  await of `put_object_stream`: `Open` empties the destination's file, `Fill` opens
  the source's stream, `Put` is the end of the stream. Until then the object is
  `Torn`; a failure removes it, or not, and a death leaves it. The lock is held at
  exactly those places, so it is no variable. `kind` says what a driver is an
  adapter of: S3, whose class names the service misreads (`Reads`) and whose puts
  appear whole, or local files, whose `change_storage_tier` is not implemented. Clients
  write, delete and retier without the lock; a put of a client to the local driver
  is two steps too (`putting`). History: `newest` is the version a client has put
  last, `spoiled` the keys where clients wrote in the middle of a migration or beside
  a copy elsewhere, or which were moved over another version.

The definitions marked "near miss" are variants with a plausible slip. No action
uses them; they are substituted one at a time to see that each property can tell
the code from such a bug.

## 3. Runs

| Run | Instance | Shows |
|---|---|---|
| `gateway` | breaker: 3 calls, thresholds 3 and 2, timeout 2; balancer: 2 services with a common cursor, 3 instances of weights 3, 1, 0, 9 picks; registry: 2 services, 2 URLs, one service configured at start; limiter: 2 concurrent checks under each strategy, limit 1, window 3, clock to 6 | `Consistent`, `Recovers`, `KeepsContract`; `Fair` (`Evenly` and `ByWeight`), `TrackedIsRegistered`, `ProbedAgain`; `NothingForgotten`, `OverrunBounded`, `ExactInWindow`, `OverrunIsUndone` |
| `half_open` | the breaker of `gateway` | finding: `HalfOpenReopens` is violated |
| `bucket` | the limiter of `gateway`, limit 2 | finding: `LongTermLimit` is violated |
| `client` | 2 requests, 2 instances, 2 attempts, thresholds 2 and 1, timeout 1 | `ConnectionsMatch`, `SentWhereAllowed`, `RequestEnds`, `ServedAgain`, `ImplementsBreaker` |
| `workflow` | 3 calls, 2 tasks (the second with `continue_on_error`), 1 retry | `CompletedRanAll`, `PathIsBacked`, `GivesUpLast`, `RunningIsOwned`, `FinalStays`, `StopsRunning` |
| `workflow_cancel` | 2 calls, 1 task | finding: `CancelledStays` is violated |
| `task_queue` | 1 task, 2 handlers, 1 retry, reprocessing of 1, 3 failures, 2 faults | `NothingLost`, `RunsOnce`, `CarriedOut` |
| `task_queue_retries` | 1 task, 1 handler, 1 retry, 2 failures, no faults | finding: `RetriesBounded` is violated |
| `upload` | 1 upload of 2 chunks, 2 requests, the cleanup task, 1 crash, restart or failure of the object store | `ListedIsWritten`, `StoredWhole`, `SavedAtRest`, `NothingTruncated`, `Finishes`, `Swept` |
| `upload_race` | the same, without faults | finding: `AllUploaded` is violated |
| `failover` | 3 regions, of which the manager's own is not the first, the loop and 2 background tasks, 2 failovers asked for, thresholds 1 and 2, 1 death | `HomeAtRest`, `ComesHome`, `AutomaticOnlyAtStart` (with a finding: what it says of the code contradicts the README) |
| `tier` | 1 object, 2 drivers of either kind, 2 requests and the worker, 2 calls, 2 writes of clients, 1 fault | `Kept`, `Answered` |

The runs `gateway`, `client`, `task_queue` and `tier` also check the types
(`TypeOK` is the breaker's and the client's, `LimiterTypeOK` the limiter's); for
the others the types are left to the proofs, whose invariants contain them.

### Bounds, and why they are enough

* **Breaker.** Thresholds 3 and 2 are the smallest at which a run of outcomes can
  be interrupted both in closed and in half-open mode and be one short of its
  threshold; three calls let two late outcomes of an earlier mode meet a new one.
  `FailureCountCap` and `RunCap` exceed the thresholds by one: larger counts are
  never told apart. Time is capped at the timeout for the same reason.
* **Client.** Two requests and two instances are needed for a request to be in
  flight to a deregistered instance while another is sent elsewhere; two attempts
  for a retry in a changed world. The theorems remove these bounds for all the
  safety properties.
* **Selection.** `MaxPicks` = 9 is three turns of three instances and more than two
  weighted turns; after a full turn the cursor repeats. Weight 3 lets one instance
  take several turns running, weight 0 must take none. In the registry, two
  services make the outer loop change service and be cut short; two URLs per
  service make the inner loop skip. The theorems remove the bounds for `Fair`
  and `TrackedIsRegistered`.
* **Limiter.** `MaxTime` = 6 is two windows: long enough for a member, a counter
  and a key to expire, the bucket's after two windows, and a new window to fill.
  With limit 1 the second of two concurrent checks is already too much; two are
  enough for one to overwrite the other or to have the older time. At its bound the
  clock stands still. The theorems remove these bounds.
* **Workflow.** Three calls are one execution with two others that interfere or
  follow it (two executions and a cancellation; pause, execution, resume).
  Each call is handled once, so nothing has to be cut off. The theorems remove
  the bounds for all the safety properties.
* **Task queue.** Tasks do not affect each other, so one is enough; its copies are
  what meets, and two handlers, the reprocessing and the queues hold up to five of
  them. `MaxFailures` and `MaxFaults` bound the copies: every failure makes one more
  by the dead letter and every lost connection one more by redelivery. Three failures
  are enough to fail, be retried, be reprocessed and fail again; two faults for
  a death that follows a lost connection. The theorems remove all bounds for
  `NothingLost` and `RunsOnce`.
* **Upload.** Uploads share only the session file, where one upload in several
  states already makes a newer and an older dictionary differ. Two chunks are the
  first and the last one; two requests and the cleanup task can send both, complete
  beside a chunk, abort beside a completion, and let three saves overlap. The
  theorems remove the bounds for `ListedIsWritten`, `StoredWhole`,
  `SavedAtRest` and `NothingTruncated`.
* **Failover.** Three regions put the active one in the middle of the list, so that a
  pass has failed one possible target and not yet the other when it stops. Thresholds 1
  and 2 make it stop in its first and in its second pass; counts above them are not
  told apart (`Cap`). Two background tasks and the loop can all overlap. The
  theorems remove the bounds for `HomeAtRest` and `AutomaticOnlyAtStart`.
* **Tier migration.** Keys share only the lock, and a second request holds it just
  as well as a second key. Two calls can move an object away and back at the same
  time; two writes are one before and one during or after a migration, or one that
  fails half-way. `WARM` is the one target that S3 reports as another tier. The theorem removes the bounds for
  `Kept`.

`CHECK_DEADLOCK FALSE` stands in the runs of `TaskQueue`, where all work may be
done and all copies gone, and of `ResumeUpload`, where an expired upload is the last
thing to happen to the only one.

### Fairness

`MCGateway` puts together the fairness of its parts.

* `CircuitBreaker`: an awaited function ends (the HTTP client has a timeout),
  calls keep coming, time passes. Nothing is assumed about which outcome.
* `ServiceClient`: exchanges and sleeps end, requests keep coming, time passes,
  and the health task comes to every instance that stays registered. The last is
  strong fairness: between two probes of an instance the task is at others.
  `ServedAgain` and `Recovers` speak of behaviours in which failures stop; they do
  not assume that they do.
* `ServiceRegistry`: probes have a timeout and the sleep between passes ends.
* `WorkflowExecution`: the engine's own database steps happen, and the timer of
  `asyncio.wait_for` fires (every execution has one: `timeout or
  DEFAULT_WORKFLOW_TIMEOUT`). A task may hang for ever, a process may die, no
  request is promised.
* `TaskQueue`: handlers end and answer; RabbitMQ delivers in order, so a message
  that waits for one of several handlers is delivered in the end (strong fairness
  per message: a handler is free again and again). Nobody promises a
  reprocessing, a purge or an expiry; one that is begun goes on.
* `ResumeUpload`: file operations and calls of the object store end. The cleanup
  task comes round every hour and sweeps what it finds (strong: it may be busy
  saving whenever the upload expires). `Finishes` is about a client that goes on:
  it sends a missing chunk, or completes, if it can do so again and again (strong:
  requests may be busy with the others meanwhile).
* `Failover`: passes go on, notifications and the sleeps of a failover end, and a
  background task that was queued runs. Nothing is assumed about what operators ask.
* `TierMigration`: calls of a driver end; `asyncio.Lock` serves its waiters first
  come, first served, hence strong fairness of `Acquire`. Neither the worker's next
  round nor a request is promised.

`Tick`, `Expire`, faults and requests are environment. There is no fairness in
`RoundRobin` and the limiter, which state safety only.

## 4. What is proved

Every invariant, action property and refinement that a passing run checks is a
theorem: nothing of safety is only model-checked. TLAPS checks them for every number
of calls, requests, instances, services, checks, tasks, handlers, uploads, chunks,
regions, drivers and objects, and every threshold, limit, window, cost, retry count
and number of faults that satisfies the named assumptions:

| Assumption | Says |
|---|---|
| `ThresholdsAssumption`, `HistoryAssumption` | thresholds and timeout are positive; caps of counts are no lower |
| `ClientAssumption` | at least one attempt; finitely many requests, because connections are counted |
| `LimiterAssumption` | limit, window and cost are positive (the code divides by the window); finitely many checks, at least one |
| `WorkflowAssumption` | optional tasks are tasks |
| `QueueAssumption` | there are tasks; finitely many handlers (`prefetch_count`), because deliveries are counted; reprocessing takes at least one message |
| `UploadAssumption` | there are uploads; the cleanup task is no request |
| `SelectionAssumption` | the number of instances and their weights are natural numbers (the registration API validates `ge=0`, `service_management.py:27`) |
| `FailoverAssumption` | the list of regions is not empty and names none twice; the manager's own is one of them; thresholds are integers (the configuration accepts any); the loop is no operator's request |
| `TierAssumption` | there are objects; the default driver is a driver; the worker is no request; targets are tiers |

Bounds that only keep TLC's state space finite (`MaxFaults`, `MaxTime`, `MaxAsked`
and their like) may be any natural number.

* **Breaker** (`CircuitBreakerProofs`). `BreakerTyped` and `BreakerSafety`
  (`Consistent`): together they are inductive; one lemma for each method of the
  breaker says that it keeps them. `BreakerKeepsContract`: the counters implement
  `BreakerContract`. `RunsAgree` ties them to the runs the contract speaks of: the
  two counts of failures are equal or both at the threshold, the successes agree
  while half-open, and the time since the last failure is at most the time open. A
  step of the breaker is then the contract's step or a stutter, action by action.
* **Client** (`GatewayProofs`). `ClientTyped`; `ClientSafety` (`ConnectionsMatch`):
  the invariant adds to the types that a request that awaits has an instance, since
  otherwise `Release` would not be defined. Each step changes the set of exchanges
  in flight by one request, and the count of one instance by one.
  `ClientSendsWhereAllowed` is the action property, from the fact that only the
  third branch of `Attempt` starts an exchange. `ClientRefinesBreaker`: the client
  implements `CircuitBreaker`, with the exchanges in flight as its running calls;
  an attempt without an instance is `CallFails`, a health verdict is
  `HealthFailure` or a stutter.
* **Registry** (`GatewayProofs`). `RegistryTracks` (`TrackedIsRegistered`): inductive
  with the types of lists and index. An entry that stays when an instance is dropped
  has another id, hence another position; its instance only moves up in the list.
* **Balancer** (`GatewayProofs`). `RoundRobinIsEven` (`Evenly`, the first half of
  `Fair`). `InTurn`: since the count began every instance was picked *q* times, and
  once more where the turn under way has come to, a stretch of the list that may go
  over its end. The list exists because an element can be placed by the number of
  elements not above it (`OrderExists`): a bijection, by counting.
  `WeightedIsFair` (`ByWeight`, the second half). `InProportion`: either the cursor
  is past the total weight and nothing was picked since, or every instance was
  picked *q* times its weight, plus its share of the turn up to the cursor, minus its
  share of the part before the count began, and the first instance once more if the
  cursor was put back. A pick moves the share of exactly one instance, the one whose
  cumulated weight the cursor has just not reached (`ShareMoves`, `HitExists`). A sum
  is the number of elements of a union of columns (`Total`), so the theorems about
  finite sets say how it grows (`SumsAdd`), which a fold would leave to induction.
* **Selection** (`GatewayProofs`). `SelectionIsFair` (`Fair`) and `SelectionTracks`
  (`TrackedIsRegistered`): the two theorems about the balancer and the one about the
  registry, for the specification the run checks. A step of the composition is a
  step or a stutter of each part, so the invariants of the parts carry over.
* **Limiter** (`RateLimiterProofs`, all of `RateLimiter`, one invariant for each
  strategy). `LimiterTyped`. *Sliding window*: `SlidingRemembers`
  (`NothingForgotten`) and `SlidingOverrun` (`OverrunBounded`). The bound alone is
  not inductive. The invariant says that no score and no reading of the clock lies in
  the future (`Past`), that the key outlives the window of each of its members
  (`Covered`), and that every recent allowed check is still a member
  (`Remembered`). A check that has counted but not yet added holds a place in the
  bound; so adding one keeps it, and counting can raise it only while it is below.
  *Fixed window*: `FixedIsExact` (`ExactInWindow`). The counter is at least what was
  allowed as long as the key lives, and the key lives at least as long as its window,
  because the last increment came after the window began. *Bucket*: `BucketKept`
  (`OverrunIsUndone`), for any number of checks that read and write the bucket at
  once. What the stored bucket has accounted for and what is left in it, refilled
  to now, stay within a full bucket and a refill of all the time (`Within`), and
  each check that has taken its tokens carries the same claim about what it will
  store, at its own time. Refilling is linear in time, so a clock that runs
  backwards between two checks takes away what it gave. A key that expires has left
  time for a whole bucket more, so that the full one that replaces it is paid for,
  as long as the check that finds it gone does not date it back by more than a
  window (`prompt`); that premise is in the property.
* **Workflow** (`WorkflowExecutionProofs`). `WorkflowTyped`, `CompletedIsTrue`
  (`CompletedRanAll`), `FailedIsTrue` (`GivesUpLast`), `RunningIsTrue`
  (`RunningIsOwned`). The row is only ever written from copies, so the invariant
  (`CopiesOK`) says what a call knows of its copy at each place where it may write it
  back: while it executes, the path ends in the tasks before its position.
  `PathIsTrue` (`PathIsBacked`): the same claim made of every copy in flight.
  `FinalIsFinal` (`FinalStays`): what is left of the violated `CancelledStays`. A row
  that is COMPLETED or CANCELLED turns away every call that reads it, so only those
  that read it before may write, and none when they are over.
* **Task queue** (`TaskQueueProofs`). `QueueTyped`; `QueueKeepsTasks`
  (`NothingLost`): a copy leaves the queues only into a handler or the reprocessing,
  and leaves these only by an acknowledgement, a rejection, a republication or a
  return. What is missing for induction is that a handler that is about to
  acknowledge has done its work (`Acknowledged`), and that the reprocessing takes no
  message beyond its limit (`BelowLimit`), where it would have nowhere to count it.
  `QueueRunsOnce` (`RunsOnce`): a potential. What was carried out, what waits in the
  queue, what a handler still has to do or to hand on, and the first publication
  together never exceed one and the number of second copies put to work
  (`OneToRun`). It needs that all copies of a task are copies of one message
  (`CountsNoRetries`), which is the defect of section 5: retries count from 0.
* **Uploads** (`ResumeUploadProofs`). `UploadsTyped`, `ListedWasWritten`
  (`ListedIsWritten`), `UploadsAreWhole` (`StoredWhole`). Sessions are copied into
  snapshots and the file and come back from there after a restart, so the claim
  about the list is made of every dictionary wherever it is (`Backed`); it survives
  because files only grow as long as their directory exists. For each request the
  invariant says what it knows at its await (`Sound`: after the write its chunk is
  in the file, a completion that reads finds all chunks). `Apart` is what the
  client's discipline gives: requests in flight send different chunks that are not
  listed yet, and the one that creates the file is alone; without it opening the file
  could truncate what another one wrote. `UploadsAreSaved` (`SavedAtRest`): as long
  as the latest save met no other, there is one saver at most, its snapshot is the
  sessions as they are, and the file is empty while it writes (`OnlySaver`).
  `UploadsOnlyGrow` (`NothingTruncated`): the lemma that files only grow (`Grows`)
  is itself the action property, for stored objects too, since before and after a
  step they are whole.
* **Failover** (`FailoverProofs`). `FailoverTyped`. `FailoverComesHome`
  (`HomeAtRest`): the claim is about rest, so the invariant says who will restore
  what is not as it was: a task before its rollback's first step for DNS, before the
  second for the rest (`WillBeRestored`); and that every failover, asked for or begun
  by the loop, leaves from the region that was always active (`FromHome`). That holds
  whatever overlaps. `FailoverOnlyAtStart` (`AutomaticOnlyAtStart`): once a pass has
  ended, every region is failed, and so is every region up to the position of the
  pass under way (`PassedFailed`), for any thresholds and any changes of them.
* **Tier migration** (`TierMigrationProofs`). `MigrationTyped`; `MigrationKeeps`
  (`Kept`). That some driver holds the newest version whole and no other is anywhere
  is not inductive: what a task is about to put could be an older one, and what it
  empties or removes the only one. `Intact` says of an object that what is whole in a
  driver is the newest version (`Standing`), that nothing is on its way while a
  client writes (`Writing`), and of the task that carries it that it has read, or put,
  what its source has, and that its destination has nothing, a torn file or the same
  (`Carried`, `Faithful`); so the destination may be emptied, filled or removed at
  any point of the put, and the source once the destination has the same. `OneHolder`
  says that one task is between taking and releasing the lock; `TwoDrivers` that
  source and destination differ.

The invariants of the last two were checked by TLC on the instances of section 3
before they were proved, and so were `InTurn` and `InProportion`.

**Only model-checked:**

* Liveness (`Recovers`, `RequestEnds`, `ComesHome`,
  `ServedAgain`, `ProbedAgain`, `StopsRunning`, `CarriedOut`, `Finishes`, `Swept`,
  `Answered`): fairness and `ENABLED` are out of the prover's reach. All other
  properties of the passing runs are theorems.

## 5. What the checks found

Runs that show a disagreement between code and documentation:

* `half_open`: after a success a half-open breaker counts failures from 0
  (`circuit_breaker.py:128,148`), so one failed probe does not reopen it, as
  `docs/request-routing.md:132`–`141` has it. `BreakerContract` states what the code
  does; the run shows that this is not what the guide says.
* `bucket`: two checks read one balance of the token bucket and spend it twice
  (`rate_limiter.py:205`–`242`); `docs/rate-limiting.md:43,349` promise a long-term limit
  and atomic operations. `OverrunIsUndone` and its theorem say that no more is
  overspent than what the checks' `SET`s undo of one another.
* `failover` (a property that passes): every check of a region raises
  (`failover_manager.py:142`), so every region is failed after the first pass, the
  loop then finds nowhere to fail over to, and every failover rolls back; the
  service's README promises automatic failover to healthy regions.
  `AutomaticOnlyAtStart` states what is left of it.
* `workflow_cancel`: a cancellation is overwritten by the execution it should
  have stopped. `FinalStays` and its theorem say when it can no longer be.
* `task_queue_retries`: the retry goes through `publish_task`, which writes a retry
  count of 0 into the new message (`rabbitmq_service.py:117`). A task that fails is
  retried for ever, the code that sends it to the dead-letter queue after the last
  retry is never reached, and meanwhile every failed attempt leaves a dead letter,
  because it is rejected without requeueing (`:212`).
* `upload_race`: whether the file is opened with `'wb'` is decided before it is
  opened, so of two first chunks the second truncates what the first wrote. Both
  are listed, and the object is stored with zeros for a chunk. `StoredWhole` and its
  theorem state the discipline under which this cannot happen.

Divergences met while modelling that no run is spent on:

* A timed-out request and a request refused by the open breaker are both answered
  502; the documentation promises 504 and 503. `request()` raises classes of
  `retry.py`, `proxy_request` (`api-gateway/src/api/routes.py:183`) catches those
  of `httpx`.
* All services turn one cursor (`load_balancer.py:69,236`), so a service is not
  served in turn while another one is used, as `docs/request-routing.md:60` has it.
  `Fair` speaks of picks in a row.
* A check of cost *n* adds one member *n* times and is charged 1
  (`rate_limiter.py:137`). Both callers in the gateway pass cost 1 at present.
* `request-routing.md:136` opens the breaker at "failures > threshold", the code
  at `>=`; line 130 limits the probes in half-open mode, the code does not.
* Ids are the length of the list plus one, so after a deregistration an id is
  given twice, and the second instance replaces the first in the health index
  though both are registered (`service_discovery.py:140`). `TrackedIsRegistered`
  is the direction that holds.
* Counting and adding are not atomic in the sliding window, though
  `docs/rate-limiting.md:25,349` have it so; `OverrunBounded` says by how much
  concurrent checks overrun.
* `resume_workflow` writes RUNNING and then calls `execute_workflow`, which finds
  RUNNING and returns. If the execution that was paused is over, nobody continues
  it. A pause that read RUNNING just before the execution finished has the same
  effect without any death: it writes PAUSED over COMPLETED. `RunningIsOwned` and
  `StopsRunning` except rows a resume wrote.
* A workflow's retry time is neither stored nor read; the retry happens only if
  something outside sends a `retry_workflow` message, which nothing in the
  repository does.
* As committed, the workflow engine's database package cannot be imported:
  `db/__init__.py:5` imports a `SessionLocal` that `db/base.py` does not define
  (it defines `AsyncSessionLocal`), and the models declare columns named
  `metadata` (`db/models.py:98`), a name SQLAlchemy's declarative base reserves.
  `WorkflowExecution` models the engine with those two names mended; nothing else
  in it depends on them.
* A definition that was deleted after the instance was created makes the error
  handler itself fail (`workflow_engine.py:219`): FAILED without retries.
  `GivesUpLast` names this exception (`missed`).
* Reprocessing dead letters puts copies of tasks to work that were carried out long
  ago, since every failed attempt of a task that succeeded later is among them;
  `RunsOnce` counts them (`again`). If republishing fails, the message is already
  rejected and gone (`rabbitmq_service.py:288`); `NothingLost` names it (`lost`).
* Saves of the session file overlap: each truncates and rewrites the one file. An
  older snapshot can win, or the text can be torn, after which a restart loads
  nothing. `SavedAtRest` holds when the latest save was alone.
* Nothing keeps failovers apart. "Failover already in progress"
  (`failover_manager.py:590`) guards a method no route calls; the routes
  (`api/routes.py:102`) and the monitoring loop call `execute_failover` directly.
  `HomeAtRest` holds although they overlap, because all of them roll back.
* The failover service needs `jwt` (`core/deps.py:9`), which its `requirements.txt` does
  not list; with that package it runs as modelled.
* Policies of tier migration move nothing. The age of an object is a difference of
  a time without zone and the driver's `last_modified`; S3 returns times with a zone,
  so the first object that is not archived raises `TypeError` and ends the policy
  (`tier_migration_service.py:455`). The local driver returns times without one, and
  cannot change tiers. The driver of the tests does both.
* Of the other drivers, those for Azure and Google call `_ensure_initialized`
  (`drivers/azure_blob.py:143`), which is defined nowhere, in every operation; those
  for Dropbox, OneDrive, FTP and SFTP leave abstract methods undefined and cannot
  be instantiated.
* As committed, the services of the storage abstraction cannot be imported:
  `tier_migration_service.py:19` and `resume_upload_service.py:22` import a
  `StorageOperationError` that `core/interfaces.py` does not define.
  `TierMigration` and `ResumeUpload` model them with that name mended; it is an
  exception class, and nothing else in them depends on it.
* The local driver empties a file before it writes it, and when a stream cannot be
  stored removes what is there (`drivers/local.py:197`–`240`): a failed copy deletes an
  object that stood at its destination. `Kept` holds because of an unspoiled
  object nothing is there that the source has not.
* The service misreads S3's class names (`:492`–`517`): `STANDARD_IA` contains
  "standard" and is taken for HOT, `GLACIER_IR` for ARCHIVE, so a second migration
  to WARM is carried out again.
* A failed migration is set to PENDING, "Will retry", and moved to the history
  (`:424`); nobody retries it. A migration onto a driver without tiers copies the
  object, fails at the tier and leaves the copy there.
* What a client writes while its object is migrated may be deleted with the source
  (`:406`). `Kept` excepts these keys (`spoiled`).
* Met in parts that are not modelled: the watcher of hot folders calls
  `asyncio.create_task` from a thread without an event loop
  (`ingest-service/src/services/hot_folder_service.py:69`), and the handling of a
  file moves or deletes it after `process_job` returned, whether or not the job
  failed (`:466`–`472`); `subscribe_to_queue` of the ingest queue service has no
  caller but its tests.

## 6. Abstractions in the modelled parts

* **Client:** length of the backoff, response-time metrics, the content of
  requests, status codes. The downstream service is an arbitrary outcome.
* **Balancer:** strategies without state of their own (least connections, random,
  hash) are any choice among the healthy instances; response-time is planned.
* **Limiter:** rules, tiers and address lists choose the parameters and are left
  out. Two checks do not read the same time from the clock. Clocks of the workers
  and of Redis agree.
* **Workflow:** a task runs or fails as a whole (conditional, parallel and loop
  tasks are planned); variables, outputs, events and task rows are left out;
  database writes succeed.
* **Task queue:** what a task does is its success or failure. Priorities and delays
  are left out: any message of a queue may be delivered next. So is the filter on
  task types, which no caller uses. The time to live of either queue may pass at
  any moment.
* **Uploads:** sizes are numbers of chunks; a chunk shorter than the chunk size,
  which the code does not notice either, is left out. No session is given a
  checksum, so verifying it verifies nothing. Expiry may come at any moment, in
  any order. A driver's put is one step: the object is stored whole or not at all,
  which the local driver does not ensure (section 5).
* **Failover:** the priorities that order the targets are left open. What is only
  reported is left out: the active event, the history, metrics, notifications, and the
  consistency check, which changes nothing. So is what line 142 keeps the program
  from reaching: verdicts of checks, `_update_region_health`, the end of a successful
  failover, failback after a delay, the save to Redis (`:371` on). Repairing that line
  would call for a larger model.
* **Tier migration:** ages, sizes, names and windows only decide which objects a
  policy lists and are left open where the listing succeeds; adding and removing
  policies, task reports and statistics are left out. Reading an archived object,
  which real clouds refuse until it is restored, is one of the failing calls. The puts
  of clients to one object take turns, and of two writers of one local file, a client
  and a copy, the one that ends last decides what it holds; `Kept` excepts such
  objects.

## 7. Not modelled, and the plan

| Order | Module | Question | Abstract specification, theorem |
|---|---|---|---|
| done | breaker, client, balancer, registry, limiter, workflow, task queue, resumable uploads, failover, tier migration | sections 3 and 4 | |
| 1 | `WorkflowTasks` | Parallel and loop tasks: shared contexts, exceptions, batches | composes with `WorkflowExecution` |
| 2 | `IngestJob` | A cancellation beside the processing of a job; hot folders that hand the same file over twice | a job's status only moves forward |
| 3 | `HybridCache`, `WorkflowLock` | Levels of the cache that disagree; a lock that expired and is deleted by its former holder | mutual exclusion while the expiry is not reached |
| 4 | `RateLimitMiddleware`, `ResponseTime` | Redis failing in the middle of a request; balancer by measured time | |

The repository is far larger than its concurrent core: most of its lines are
request and response schemas, routes that read and write single records, and
adapters around FFmpeg, Elasticsearch and cloud services. The models cover the
parts that have a protocol of their own, and so a small share of all lines.

Left out for good: the media services (assets, metadata, search, proxies,
rights), which are CRUD over databases that do their own concurrency control;
protocol adapters (MOS, NRCS, playout, broadcast); accounts, tenants, billing,
compliance; AI, analytics, monitoring and scanning pipelines; the blockchain,
metaverse, holographic and quantum prototypes; `src/frontend`, `src/mobile`,
`src/sdk`, `src/infrastructure`, scripts and documentation sites.

## 8. Running

    tlc -config MCGateway.cfg MCGateway
    tlc -config HalfOpen.cfg CircuitBreakerHistory
    tlc -config TokenBucket.cfg RateLimiter
    tlc -config ServiceClient.cfg ServiceClient
    tlc -config WorkflowExecution.cfg WorkflowExecution
    tlc -config WorkflowCancel.cfg WorkflowExecution
    tlc -config TaskQueue.cfg TaskQueue
    tlc -config TaskQueueRetries.cfg TaskQueue
    tlc -config ResumeUpload.cfg ResumeUpload
    tlc -config ResumeUploadRace.cfg ResumeUpload
    tlc -config Failover.cfg MCFailover
    tlc -config TierMigration.cfg TierMigration
    tlapm GatewayProofs.tla

The largest state spaces are those of `TierMigration`, about 566 000 states and two
minutes, and `MCFailover`, about 525 000 and one; the others take about a minute or
less. `tlapm` is run in the same way on the other proof modules of section 2.
