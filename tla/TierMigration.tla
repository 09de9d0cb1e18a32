---------------------------- MODULE TierMigration ----------------------------
(***************************************************************************)
(* Tier migration: TierMigrationService of storage-abstraction/src/        *)
(* services/tier_migration_service.py over the drivers of the storage      *)
(* service.  The hourly worker and the requests share one lock, which is   *)
(* held for one object at a time; clients write, delete and retier the     *)
(* same objects without it.  A step runs from one driver call to the next, *)
(* except in what takes several: a copy, and a put of the local driver,    *)
(* which empties the file before it writes it.                             *)
(*                                                                         *)
(* The drivers that work are the local one and S3's.  Those for Azure and  *)
(* Google call _ensure_initialized, which nothing defines; the others      *)
(* cannot be instantiated.  The age of an object only decides whether a    *)
(* policy lists it and is left open.  What a migration task reports is     *)
(* left out.                                                               *)
(***************************************************************************)
EXTENDS Integers, FiniteSets

CONSTANTS Keys, Drivers, Default,
          Requests,  \* calls of the API
          Worker,
          Targets,   \* the tiers that are asked for
          MaxAsked,  \* bound: migrations and policies that are asked for
          MaxWrites, \* bound: what clients do to objects directly
          MaxFaults  \* bound: failing driver calls, deaths of the process

ASSUME TierAssumption ==
  /\ Keys # {}
  /\ Default \in Drivers
  /\ Worker \notin Requests
  /\ Targets \subseteq {"HOT", "WARM", "COLD", "ARCHIVE"}
  /\ {MaxAsked, MaxWrites, MaxFaults} \subseteq Nat

VARIABLES kind,    \* what each driver is an adapter of
          store,   \* per driver and key: the object there
          task,    \* per worker or request: where it is
          putting, \* per key: the version a client is writing, 0 when none
          newest,  \* per key: the version a client has put, 0 when it was deleted or its
                   \* put has failed or not ended (history)
          spoiled, \* keys written in a migration or moved in a write, written beside a
                   \* copy elsewhere, or moved over another version (history)
          asked, writes, faults \* what the bounds limit

bounds == <<asked, writes, faults>>
history == <<newest, spoiled>>
vars == <<kind, store, task, putting, history, bounds>>

Tasks == Requests \cup {Worker}
Kinds == {"s3", "local"}
Tiers == {"HOT", "WARM", "COLD", "ARCHIVE"}
Versions == 0..MaxWrites
Torn == -1 \* a file that is there and not whole
Contents == Versions \cup {Torn}
None == [version |-> 0, tier |-> "HOT"]
Entry == [key : Keys, target : Tiers]

Idle == [at |-> "idle", source |-> Default, dest |-> Default, force |-> FALSE,
         todo |-> {}, key |-> CHOOSE k \in Keys : TRUE, target |-> "HOT", read |-> 0]

TypeOK ==
  /\ kind \in [Drivers -> Kinds]
  /\ store \in [Drivers -> [Keys -> [version : Contents, tier : Tiers]]]
  /\ task \in [Tasks -> [at : {"idle", "list", "next", "info", "change", "read", "open",
                               "fill", "put", "settle", "remove"},
                         source : Drivers, dest : Drivers, force : BOOLEAN,
                         todo : SUBSET Entry, key : Keys, target : Tiers, read : Contents]]
  /\ putting \in [Keys -> Versions]
  /\ newest \in [Keys -> Versions]
  /\ spoiled \subseteq Keys
  /\ asked \in 0..MaxAsked
  /\ writes \in 0..MaxWrites
  /\ faults \in 0..MaxFaults

Init ==
  /\ kind \in [Drivers -> Kinds]
  /\ store = [d \in Drivers |-> [k \in Keys |-> None]]
  /\ task = [t \in Tasks |-> Idle]
  /\ putting = [k \in Keys |-> 0]
  /\ newest = [k \in Keys |-> 0]
  /\ spoiled = {}
  /\ asked = 0
  /\ writes = 0
  /\ faults = 0

-----------------------------------------------------------------------------
Has(d, k) == store[d][k].version # 0
Whole(d, k) == store[d][k].version \notin {0, Torn}

\* async with _migration_lock: held while one object is migrated.
Holds(t) == task[t].at \in {"info", "change", "read", "open", "fill", "put", "settle", "remove"}

\* What _get_tier_from_storage_class makes of S3's classes: STANDARD_IA contains
\* "standard", GLACIER_IR "glacier".  A local object has none.
Reads(d, tier) ==
  IF kind[d] = "local" \/ tier \in {"HOT", "WARM"} THEN "HOT" ELSE "ARCHIVE"

Stored(d, k, object) == store' = [store EXCEPT ![d][k] = object]

Goto(t, place) == task' = [task EXCEPT ![t].at = place]

\* The object is done with, one way or another, and the lock released.
Release(t) ==
  task' = [task EXCEPT ![t] = [@ EXCEPT !.at = "next", !.key = Idle.key,
                                        !.target = Idle.target, !.read = 0]]

\* migrate_object and migrate_objects_batch (which has no force).
Migrate(t, keys, target, source, dest, force) ==
  /\ asked < MaxAsked
  /\ task[t].at = "idle"
  /\ keys # {}
  /\ force => Cardinality(keys) = 1
  /\ asked' = asked + 1
  /\ task' = [task EXCEPT ![t] =
       [Idle EXCEPT !.at = "next", !.source = source, !.dest = dest, !.force = force,
                    !.todo = [key : keys, target : {target}]]]
  /\ UNCHANGED <<kind, store, putting, history, writes, faults>>

\* apply_policy, asked for with a driver or called by the worker.
AskPolicy(t, d) ==
  /\ asked < MaxAsked
  /\ task[t].at = "idle"
  /\ asked' = asked + 1
  /\ task' = [task EXCEPT ![t] = [Idle EXCEPT !.at = "list", !.source = d, !.dest = d]]
  /\ UNCHANGED <<kind, store, putting, history, writes, faults>>

WakeUp ==
  /\ task[Worker].at = "idle"
  /\ Goto(Worker, "list")
  /\ UNCHANGED <<kind, store, putting, history, bounds>>

\* _find_eligible_objects, without the lock.  S3 returns times with a time zone, from
\* which the age of an object cannot be computed: one object that is not archived
\* ends the policy.  Local objects are all HOT.
Eligible(d) ==
  IF kind[d] = "local" THEN SUBSET {[key |-> k, target |-> "WARM"] : k \in {l \in Keys : Has(d, l)}}
                       ELSE {{}}

List(t) ==
  /\ task[t].at = "list"
  /\ \E old \in Eligible(task[t].source) :
       task' = [task EXCEPT ![t].at = "next", ![t].todo = old]
  /\ UNCHANGED <<kind, store, putting, history, bounds>>

AcquireAnyway(t) == \* near miss
  /\ task[t].at = "next"
  /\ \E e \in task[t].todo :
       task' = [task EXCEPT ![t].at = "info", ![t].todo = @ \ {e}, ![t].key = e.key,
                            ![t].target = e.target]
  /\ UNCHANGED <<kind, store, putting, history, bounds>>

\* The next object; a batch's order is a matter of the list.
Acquire(t) ==
  /\ task[t].at = "next"
  /\ \A o \in Tasks : ~Holds(o)
  /\ \E e \in task[t].todo :
       task' = [task EXCEPT ![t].at = "info", ![t].todo = @ \ {e}, ![t].key = e.key,
                            ![t].target = e.target]
  /\ UNCHANGED <<kind, store, putting, history, bounds>>

End(t) ==
  /\ task[t].at = "next"
  /\ task[t].todo = {}
  /\ task' = [task EXCEPT ![t] = Idle]
  /\ UNCHANGED <<kind, store, putting, history, bounds>>

Info(t) ==
  LET c == task[t] IN
  /\ c.at = "info"
  /\ IF Has(c.source, c.key)
        /\ (Reads(c.source, store[c.source][c.key].tier) # c.target \/ c.force)
       THEN Goto(t, IF c.dest = c.source THEN "change" ELSE "read")
       ELSE Release(t)
  /\ UNCHANGED <<kind, store, putting, history, bounds>>

RetierByClass(d, k, target) == \* near miss: the provider's name for the tier
  IF Has(d, k) /\ kind[d] # "local"
    THEN store' = [store EXCEPT ![d][k].tier = "NEARLINE"]
    ELSE UNCHANGED store

\* change_storage_tier of the drivers.
Retier(d, k, target) ==
  IF Has(d, k) /\ kind[d] # "local"
    THEN store' = [store EXCEPT ![d][k].tier = target]
    ELSE UNCHANGED store

RetriesAtOnce(t) == \* near miss: without a limit
  /\ task[t].at = "change"
  /\ Retier(task[t].source, task[t].key, task[t].target)
  /\ IF kind[task[t].source] = "local" THEN UNCHANGED task ELSE Release(t)
  /\ UNCHANGED <<kind, putting, history, bounds>>

ChangeTier(t) ==
  /\ task[t].at = "change"
  /\ Retier(task[t].source, task[t].key, task[t].target)
  /\ Release(t)
  /\ UNCHANGED <<kind, putting, history, bounds>>

\* StorageService.copy_object between drivers, and put_object_stream of the one copied
\* to.  First the object is looked up at the source.
Read(t) ==
  LET c == task[t]
      version == store[c.source][c.key].version
  IN
  /\ c.at = "read"
  /\ IF Has(c.source, c.key)
       THEN /\ Goto(t, "open")
            /\ spoiled' = IF \/ putting[c.key] # 0
                             \/ Whole(c.dest, c.key) /\ store[c.dest][c.key].version # version
                            THEN spoiled \cup {c.key} ELSE spoiled
       ELSE Release(t) /\ UNCHANGED spoiled
  /\ UNCHANGED <<kind, store, putting, newest, bounds>>

\* A local file is opened 'wb', what it held gone; S3 begins a multipart upload.
Open(t) ==
  LET c == task[t] IN
  /\ c.at = "open"
  /\ IF kind[c.dest] = "local" THEN Stored(c.dest, c.key, [None EXCEPT !.version = Torn])
                               ELSE UNCHANGED store
  /\ Goto(t, "fill")
  /\ UNCHANGED <<kind, putting, history, bounds>>

\* The stream of the source is opened only now.  When it is gone, a local file is
\* removed and an upload aborted.
Fill(t) ==
  LET c == task[t] IN
  /\ c.at = "fill"
  /\ IF Has(c.source, c.key)
       THEN /\ task' = [task EXCEPT ![t].at = "put",
                                    ![t].read = store[c.source][c.key].version]
            /\ UNCHANGED store
       ELSE /\ Release(t)
            /\ IF kind[c.dest] = "local" THEN Stored(c.dest, c.key, None) ELSE UNCHANGED store
  /\ UNCHANGED <<kind, putting, history, bounds>>

\* What has been read when the stream ends: a local file that was written over while it
\* was read gives some of each.
Gathered(t) ==
  LET c == task[t] IN
  {c.read} \cup (IF kind[c.source] = "local" /\ store[c.source][c.key].version # c.read
                   THEN {Torn} ELSE {})

Put(t) ==
  LET c == task[t] IN
  /\ c.at = "put"
  /\ \E version \in Gathered(t) :
       /\ Stored(c.dest, c.key, [None EXCEPT !.version = version])
       /\ task' = [task EXCEPT ![t].at = "settle", ![t].read = version]
  /\ UNCHANGED <<kind, putting, history, bounds>>

Settle(t) ==
  LET c == task[t] IN
  /\ c.at = "settle"
  /\ Retier(c.dest, c.key, c.target)
  /\ IF Has(c.dest, c.key) /\ kind[c.dest] # "local"
       THEN Goto(t, "remove")
       ELSE Release(t)
  /\ UNCHANGED <<kind, putting, history, bounds>>

Remove(t) ==
  /\ task[t].at = "remove"
  /\ Stored(task[t].source, task[t].key, None)
  /\ Release(t)
  /\ UNCHANGED <<kind, putting, history, bounds>>

-----------------------------------------------------------------------------
Fault == faults < MaxFaults /\ faults' = faults + 1

\* A driver call fails, before or after it had its effect: the task waits for a retry
\* nobody makes.  When a local file cannot be opened or filled, what stands there is
\* removed, an earlier object too, unless that fails as well.
Fails(t) ==
  LET c == task[t] IN
  /\ Holds(t) \/ c.at = "list"
  /\ Fault
  /\ \/ UNCHANGED store
     \/ /\ c.at \in {"open", "fill", "put"}
        /\ kind[c.dest] = "local"
        /\ Stored(c.dest, c.key, None)
     \/ /\ c.at = "put"
        /\ \E version \in Gathered(t) :
             Stored(c.dest, c.key, [None EXCEPT !.version = version])
     \/ /\ c.at = "change"
        /\ Retier(c.source, c.key, c.target)
     \/ /\ c.at = "settle"
        /\ Retier(c.dest, c.key, c.target)
     \/ /\ c.at = "remove"
        /\ Stored(c.source, c.key, None)
  /\ Release(t)
  /\ UNCHANGED <<kind, putting, history, asked, writes>>

\* The process dies; nothing of a task is stored anywhere, and a file that was being
\* written stays as it is.
Crash ==
  /\ Fault
  /\ task' = [t \in Tasks |-> Idle]
  /\ putting' = [k \in Keys |-> 0]
  /\ UNCHANGED <<kind, store, history, asked, writes>>

-----------------------------------------------------------------------------
\* A migration of k has looked it up and is not done.
UnderWay(k) ==
  \E t \in Tasks : task[t].at \in {"open", "fill", "put", "settle", "remove"} /\ task[t].key = k

\* Bound: the clients of one object take turns.
Write(k) == putting[k] = 0 /\ writes < MaxWrites /\ writes' = writes + 1

Spoils(k) == UnderWay(k) \/ \E d \in Drivers \ {Default} : Whole(d, k)

\* A client writes through the default driver, in the driver's default tier.  S3 stores
\* the object in one request; the local driver opens the file 'wb' and then fills it.
PutObject(k) ==
  /\ Write(k)
  /\ IF kind[Default] = "local"
       THEN /\ Stored(Default, k, [None EXCEPT !.version = Torn])
            /\ putting' = [putting EXCEPT ![k] = writes']
            /\ newest' = [newest EXCEPT ![k] = 0]
       ELSE /\ Stored(Default, k, [None EXCEPT !.version = writes'])
            /\ newest' = [newest EXCEPT ![k] = writes']
            /\ UNCHANGED putting
  /\ spoiled' = IF Spoils(k) THEN spoiled \cup {k} ELSE spoiled \ {k}
  /\ UNCHANGED <<kind, task, asked, faults>>

EndPut(k) ==
  /\ putting[k] # 0
  /\ Stored(Default, k, [None EXCEPT !.version = putting[k]])
  /\ newest' = [newest EXCEPT ![k] = putting[k]]
  /\ putting' = [putting EXCEPT ![k] = 0]
  /\ UNCHANGED <<kind, task, spoiled, bounds>>

\* put_object removes nothing: the file stays as far as it was written.
PutFails(k) ==
  /\ putting[k] # 0
  /\ Fault
  /\ \/ UNCHANGED store
     \/ Stored(Default, k, [None EXCEPT !.version = putting[k]])
  /\ putting' = [putting EXCEPT ![k] = 0]
  /\ UNCHANGED <<kind, task, history, asked, writes>>

DeleteObject(d, k) ==
  /\ Write(k)
  /\ Has(d, k)
  /\ Stored(d, k, None)
  /\ newest' = [newest EXCEPT ![k] = 0]
  /\ spoiled' = IF UnderWay(k) THEN spoiled \cup {k} ELSE spoiled
  /\ UNCHANGED <<kind, task, putting, asked, faults>>

\* The route /tier.
ChangeStorageTier(d, k, target) ==
  /\ Write(k)
  /\ Has(d, k)
  /\ kind[d] # "local"
  /\ Retier(d, k, target)
  /\ UNCHANGED <<kind, task, putting, history, asked, faults>>

-----------------------------------------------------------------------------
Step(t) ==
  \/ List(t)
  \/ End(t)
  \/ Info(t)
  \/ ChangeTier(t)
  \/ Read(t)
  \/ Open(t)
  \/ Fill(t)
  \/ Put(t)
  \/ Settle(t)
  \/ Remove(t)

Next ==
  \/ WakeUp
  \/ \E t \in Tasks : Step(t) \/ Acquire(t) \/ Fails(t)
  \/ \E t \in Requests :
       \/ \E keys \in SUBSET Keys, target \in Targets, source, dest \in Drivers,
             force \in BOOLEAN : Migrate(t, keys, target, source, dest, force)
       \/ \E d \in Drivers : AskPolicy(t, d)
  \/ Crash
  \/ \E k \in Keys :
       \/ PutObject(k)
       \/ EndPut(k)
       \/ PutFails(k)
       \/ \E d \in Drivers :
            \/ DeleteObject(d, k)
            \/ \E target \in Targets : ChangeStorageTier(d, k, target)

\* Driver calls end; asyncio.Lock is first come, first served.
Fairness ==
  \A t \in Tasks : WF_vars(Step(t)) /\ SF_vars(Acquire(t))

Spec == Init /\ [][Next]_vars /\ Fairness

-----------------------------------------------------------------------------
\* Whatever fails or dies at whatever point, and whoever migrates at the same time, in
\* either direction: the version a client has put last is whole in some driver, and
\* what else there is of the object is no other version but at most a torn file that a
\* copy left (copy, settle and delete of _execute_migration; put_object_stream).  Not
\* when a client wrote while the object was moved, or beside a copy elsewhere, or when
\* it was moved over another version.
Kept ==
  \A k \in Keys \ spoiled :
    newest[k] # 0 => {store[d][k].version : d \in Drivers} \ {0, Torn} = {newest[k]}

\* Once no more is asked for (MaxAsked), every call is answered: no failure keeps the
\* lock, and the worker's objects do not keep requests waiting for ever.
Answered == <>[](\A t \in Requests : task[t].at = "idle")
=============================================================================
