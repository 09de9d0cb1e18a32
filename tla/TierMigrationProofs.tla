------------------------- MODULE TierMigrationProofs -------------------------
(***************************************************************************)
(* No migration loses what a client has put: TierMigration keeps Kept, for *)
(* any number of objects, drivers, requests, writes, failures and deaths.  *)
(***************************************************************************)
EXTENDS TierMigration, TLAPS

Place == {"idle", "list", "next", "info", "change", "read", "open", "fill", "put",
          "settle", "remove"}
Task == [at : Place, source : Drivers, dest : Drivers, force : BOOLEAN,
         todo : SUBSET Entry, key : Keys, target : Tiers, read : Contents]
Object == [version : Contents, tier : Tiers]

Version(s, d, k) == s[d][k].version

\* Of the record of a task: it has the lock; it copies between two drivers; it has
\* looked up what it copies.
Locks(r) == r.at \in {"info", "change", "read", "open", "fill", "put", "settle", "remove"}
Carries(r) == r.at \in {"open", "fill", "put", "settle", "remove"}
Copies(r) == Carries(r) \/ r.at = "read"

OneHolder == \A s, t \in Tasks : Locks(task[s]) /\ Locks(task[t]) => s = t

TwoDrivers == \A t \in Tasks : Copies(task[t]) => task[t].source # task[t].dest

\* A copy has as its source what it will store or has stored, and its destination has
\* no other version, and that one when the copy is done.
Faithful(r, from, there) ==
  /\ there \in {0, Torn, from}
  /\ r.at \in {"put", "settle", "remove"} => r.read = from
  /\ r.at \in {"settle", "remove"} => there = from

\* What a client has put is somewhere, and no other version is anywhere.
Standing(k) ==
  newest[k] # 0 => /\ \E d \in Drivers : Version(store, d, k) = newest[k]
                   /\ \A d \in Drivers : Version(store, d, k) \in {0, Torn, newest[k]}

\* While a client puts, there is no version anywhere and none on its way.
Writing(k) ==
  putting[k] # 0 => /\ newest[k] = 0
                    /\ \A d \in Drivers : Version(store, d, k) \in {0, Torn}
                    /\ \A t \in Tasks : ~(Carries(task[t]) /\ task[t].key = k)

Carried(k) ==
  \A t \in Tasks : Carries(task[t]) /\ task[t].key = k =>
    Faithful(task[t], Version(store, task[t].source, k), Version(store, task[t].dest, k))

Intact(k) == Standing(k) /\ Writing(k) /\ Carried(k)

AllIntact == \A k \in Keys \ spoiled : Intact(k)

Safe == OneHolder /\ TwoDrivers /\ AllIntact

TInv == TypeOK /\ Safe

-----------------------------------------------------------------------------
LEMMA Constants ==
  /\ Idle \in Task /\ Idle.at = "idle" /\ None \in Object /\ None.version = 0
  /\ 0 \in Versions /\ Versions \subseteq Nat /\ Contents = Versions \cup {Torn}
  /\ Torn \notin Versions /\ Torn # 0 /\ None.tier \in Tiers
  /\ Requests \subseteq Tasks /\ Worker \in Tasks
  /\ 0 \in 0..MaxAsked /\ 0 \in 0..MaxWrites /\ 0 \in 0..MaxFaults
  /\ MaxAsked \in Nat /\ MaxWrites \in Nat /\ MaxFaults \in Nat
  /\ Targets \subseteq Tiers /\ Default \in Drivers
  <1>1. /\ MaxAsked \in Nat /\ MaxWrites \in Nat /\ MaxFaults \in Nat
    BY TierAssumption
  <1>2. (CHOOSE k \in Keys : TRUE) \in Keys
    BY TierAssumption
  <1>3. Idle \in Task /\ Idle.at = "idle"
    BY <1>1, <1>2, TierAssumption DEF Idle, Task, Place, Tiers, Versions, Contents
  <1> QED
    BY <1>1, <1>3, TierAssumption DEF None, Object, Versions, Contents, Torn, Tasks, Tiers

\* What the steps do to a task and to the stores, in the terms of the invariant.
LEMMA GotoIs ==
  ASSUME TypeOK, NEW t \in Tasks, NEW place \in Place, Goto(t, place)
  PROVE  /\ task' \in [Tasks -> Task]
         /\ \A o \in Tasks \ {t} : task'[o] = task[o]
         /\ task'[t].at = place /\ task'[t].source = task[t].source
         /\ task'[t].dest = task[t].dest /\ task'[t].key = task[t].key
         /\ task'[t].read = task[t].read
  <1> DEFINE r == [task[t] EXCEPT !.at = place]
  <1>1. task[t] \in Task /\ task \in [Tasks -> Task]
    BY DEF TypeOK, Task, Place
  <1>2. /\ r \in Task /\ r.at = place /\ r.source = task[t].source
        /\ r.dest = task[t].dest /\ r.key = task[t].key /\ r.read = task[t].read
    BY <1>1 DEF Task
  <1>3. task' = [task EXCEPT ![t] = r]
    BY DEF Goto
  <1> HIDE DEF r
  <1> QED
    BY <1>1, <1>2, <1>3

LEMMA ReleaseIs ==
  ASSUME TypeOK, NEW t \in Tasks, Release(t)
  PROVE  /\ task' \in [Tasks -> Task]
         /\ \A o \in Tasks \ {t} : task'[o] = task[o]
         /\ task'[t].at = "next"
  <1> DEFINE r == [task[t] EXCEPT !.at = "next", !.key = Idle.key,
                                  !.target = Idle.target, !.read = 0]
  <1>1. task[t] \in Task /\ task \in [Tasks -> Task]
    BY DEF TypeOK, Task, Place
  <1>2. Idle.key \in Keys /\ Idle.target \in Tiers /\ 0 \in Contents
    BY Constants DEF Task
  <1>3. r \in Task /\ r.at = "next"
    BY <1>1, <1>2 DEF Task, Place
  <1>4. task' = [task EXCEPT ![t] = r]
    BY DEF Release
  <1> HIDE DEF r
  <1> QED
    BY <1>1, <1>3, <1>4

LEMMA StoredObject ==
  ASSUME TypeOK, NEW d \in Drivers, NEW k \in Keys, NEW object \in Object,
         Stored(d, k, object)
  PROVE  /\ store' \in [Drivers -> [Keys -> Object]]
         /\ \A e \in Drivers, l \in Keys :
              store'[e][l] = IF e = d /\ l = k THEN object ELSE store[e][l]
  BY DEF Stored, TypeOK, Object

\* Every object that is stored is None but for its version.
LEMMA StoredIs ==
  ASSUME TypeOK, NEW d \in Drivers, NEW k \in Keys, NEW version \in Contents,
         Stored(d, k, [None EXCEPT !.version = version])
  PROVE  /\ store' \in [Drivers -> [Keys -> Object]]
         /\ \A e \in Drivers, l \in Keys :
              Version(store', e, l) = IF e = d /\ l = k THEN version ELSE Version(store, e, l)
  <1> DEFINE object == [None EXCEPT !.version = version]
  <1>1. object \in Object /\ object.version = version
    BY Constants DEF None, Object
  <1>2. Stored(d, k, object)
    OBVIOUS
  <1> HIDE DEF object
  <1>3. /\ store' \in [Drivers -> [Keys -> Object]]
        /\ \A e \in Drivers, l \in Keys :
             store'[e][l] = IF e = d /\ l = k THEN object ELSE store[e][l]
    BY <1>1, <1>2, StoredObject
  <1> QED
    BY <1>1, <1>3 DEF Version

LEMMA StoredNone ==
  ASSUME TypeOK, NEW d \in Drivers, NEW k \in Keys, Stored(d, k, None)
  PROVE  /\ store' \in [Drivers -> [Keys -> Object]]
         /\ \A e \in Drivers, l \in Keys :
              Version(store', e, l) = IF e = d /\ l = k THEN 0 ELSE Version(store, e, l)
  BY Constants DEF Stored, TypeOK, Object, Version

LEMMA RetierIs ==
  ASSUME TypeOK, NEW d \in Drivers, NEW k \in Keys, NEW tier \in Tiers, Retier(d, k, tier)
  PROVE  /\ store' \in [Drivers -> [Keys -> Object]]
         /\ \A e \in Drivers, l \in Keys : Version(store', e, l) = Version(store, e, l)
  <1>1. store \in [Drivers -> [Keys -> Object]] /\ store[d][k] \in Object
    BY DEF TypeOK, Object
  <1>2. CASE UNCHANGED store
    BY <1>1, <1>2 DEF Version
  <1>3. CASE store' = [store EXCEPT ![d][k].tier = tier]
    <2>1. /\ [store[d][k] EXCEPT !.tier = tier] \in Object
          /\ [store[d][k] EXCEPT !.tier = tier].version = store[d][k].version
      BY <1>1 DEF Object
    <2>2. store' \in [Drivers -> [Keys -> Object]]
      BY <1>1, <1>3, <2>1
    <2>3. \A e \in Drivers, l \in Keys : store'[e][l].version = store[e][l].version
      BY <1>1, <1>3, <2>1
    <2> QED
      BY <2>2, <2>3 DEF Version
  <1> QED
    BY <1>2, <1>3 DEF Retier

\* A new record for one task.
LEMMA NewIs ==
  ASSUME TypeOK, NEW t \in Tasks, NEW r \in Task, task' = [task EXCEPT ![t] = r]
  PROVE  /\ task' \in [Tasks -> Task]
         /\ \A o \in Tasks \ {t} : task'[o] = task[o]
         /\ task'[t] = r
  BY DEF TypeOK, Task, Place

LEMMA TypeIs ==
  TypeOK <=> /\ kind \in [Drivers -> Kinds]
             /\ store \in [Drivers -> [Keys -> Object]]
             /\ task \in [Tasks -> Task]
             /\ putting \in [Keys -> Versions]
             /\ newest \in [Keys -> Versions]
             /\ spoiled \subseteq Keys
             /\ asked \in 0..MaxAsked
             /\ writes \in 0..MaxWrites
             /\ faults \in 0..MaxFaults
  BY DEF TypeOK, Object, Task, Place

\* The same, of the next state.
LEMMA TypeNext ==
  ASSUME kind' \in [Drivers -> Kinds], store' \in [Drivers -> [Keys -> Object]],
         task' \in [Tasks -> Task], putting' \in [Keys -> Versions],
         newest' \in [Keys -> Versions], spoiled' \subseteq Keys,
         asked' \in 0..MaxAsked, writes' \in 0..MaxWrites, faults' \in 0..MaxFaults
  PROVE  TypeOK'
  BY DEF TypeOK, Object, Task, Place

-----------------------------------------------------------------------------
(* The steps of a migration, as they bear on Safe.                         *)

\* A step of one task that leaves every version where it is.
LEMMA StepSafe ==
  ASSUME TypeOK, Safe, NEW t \in Tasks,
         \A o \in Tasks \ {t} : task'[o] = task[o],
         task' \in [Tasks -> Task],
         Locks(task'[t]) => Locks(task[t]) \/ \A o \in Tasks : ~Locks(task[o]),
         Copies(task'[t]) => task'[t].source # task'[t].dest,
         UNCHANGED <<putting, newest>>, spoiled \subseteq spoiled',
         \A d \in Drivers, k \in Keys : Version(store', d, k) = Version(store, d, k),
         ASSUME Carries(task'[t]), task'[t].key \notin spoiled'
         PROVE  /\ putting[task'[t].key] = 0
                /\ Faithful(task'[t], Version(store, task'[t].source, task'[t].key),
                            Version(store, task'[t].dest, task'[t].key))
  PROVE  Safe'
  <1>1. OneHolder'
    BY DEF Safe, OneHolder
  <1>2. TwoDrivers'
    BY DEF Safe, TwoDrivers
  <1>3. ASSUME NEW k \in Keys \ spoiled' PROVE Intact(k)'
    <2>1. Standing(k) /\ Writing(k) /\ Carried(k)
      BY <1>3 DEF Safe, AllIntact, Intact
    <2>2. Standing(k)'
      BY <2>1 DEF Standing
    <2>3. Writing(k)'
      BY <1>3, <2>1 DEF Writing
    <2>4. ASSUME NEW o \in Tasks, Carries(task'[o]), task'[o].key = k
          PROVE  Faithful(task'[o], Version(store', task'[o].source, k),
                          Version(store', task'[o].dest, k))
      <3>1. task'[o].dest \in Drivers /\ task'[o].source \in Drivers
        BY DEF Task
      <3>2. CASE o = t
        BY <1>3, <2>4, <3>1, <3>2
      <3>3. CASE o # t
        BY <2>1, <2>4, <3>1, <3>3 DEF Carried
      <3> QED
        BY <3>2, <3>3
    <2> QED
      BY <2>2, <2>3, <2>4 DEF Intact, Carried
  <1> QED
    BY <1>1, <1>2, <1>3 DEF Safe, AllIntact

\* A task that lets go of the lock, or never had it.
LEMMA LetsGo ==
  ASSUME TypeOK, Safe, NEW t \in Tasks,
         \A o \in Tasks \ {t} : task'[o] = task[o],
         task' \in [Tasks -> Task], ~Locks(task'[t]),
         UNCHANGED <<putting, history>>,
         \A d \in Drivers, k \in Keys : Version(store', d, k) = Version(store, d, k)
  PROVE  Safe'
  BY StepSafe DEF Locks, Copies, Carries, history

\* Of what a migration copies: no client is writing it, and the source has a copy of
\* whatever stood at the destination, which may be emptied or written over.
LEMMA ReplacedStands ==
  ASSUME TInv, NEW t \in Tasks, Carries(task[t]),
         NEW k \in Keys, task[t].key = k, k \notin spoiled, UNCHANGED newest,
         \A d \in Drivers : d # task[t].dest => Version(store', d, k) = Version(store, d, k),
         Version(store', task[t].dest, k) \in {0, Torn, Version(store, task[t].source, k)}
  PROVE  Standing(k)' /\ putting[k] = 0
  <1> DEFINE c == task[t]
             from == Version(store, c.source, k)
  <1>1. c.source \in Drivers /\ c.dest \in Drivers /\ newest[k] \in Versions
    BY DEF TInv, TypeOK
  <1>2. c.source # c.dest /\ Standing(k) /\ Writing(k) /\ Carried(k)
    BY DEF TInv, Safe, TwoDrivers, AllIntact, Intact, Copies
  <1>3. Version(store, c.dest, k) \in {0, Torn, from}
    BY <1>2 DEF Carried, Faithful
  <1>4. putting[k] = 0
    BY <1>2 DEF Writing
  <1>5. ASSUME newest[k] # 0
        PROVE  /\ \E d \in Drivers : Version(store', d, k) = newest[k]
               /\ \A d \in Drivers : Version(store', d, k) \in {0, Torn, newest[k]}
    <2>1. newest[k] # Torn
      BY <1>1, Constants
    <2>2. PICK e \in Drivers : Version(store, e, k) = newest[k]
      BY <1>2, <1>5 DEF Standing
    <2>3. from \in {0, Torn, newest[k]}
      BY <1>1, <1>2, <1>5 DEF Standing
    <2>4. \E d \in Drivers : Version(store', d, k) = newest[k]
      <3>1. CASE e # c.dest
        BY <2>2, <3>1
      <3>2. CASE e = c.dest
        <4>1. from = newest[k]
          BY <1>3, <1>5, <2>1, <2>2, <3>2
        <4> QED
          BY <1>1, <1>2, <4>1
      <3> QED
        BY <3>1, <3>2
    <2>5. \A d \in Drivers : Version(store', d, k) \in {0, Torn, newest[k]}
      BY <1>2, <1>5, <2>3 DEF Standing
    <2> QED
      BY <2>4, <2>5
  <1> QED
    BY <1>4, <1>5 DEF Standing

\* A step that changes the version of one key in one driver, of the task that carries
\* that key.
LEMMA MoveSafe ==
  ASSUME TInv, NEW t \in Tasks, Carries(task[t]), NEW k \in Keys, task[t].key = k,
         task' \in [Tasks -> Task], \A o \in Tasks \ {t} : task'[o] = task[o],
         UNCHANGED <<putting, history>>,
         \A d \in Drivers, l \in Keys : l # k => Version(store', d, l) = Version(store, d, l),
         Carries(task'[t]) => /\ task'[t].source = task[t].source
                              /\ task'[t].dest = task[t].dest
                              /\ task'[t].key = k,
         ~Carries(task'[t]) => ~Locks(task'[t]),
         k \notin spoiled => /\ Standing(k)'
                             /\ putting[k] = 0
                             /\ Carries(task'[t]) =>
                                  Faithful(task'[t], Version(store', task[t].source, k),
                                           Version(store', task[t].dest, k))
  PROVE  Safe'
  <1>t. TypeOK /\ Safe /\ Locks(task[t]) /\ Copies(task[t])
    BY DEF TInv, Locks, Carries, Copies
  <1>1. \A o \in Tasks \ {t} : ~Locks(task[o]) /\ ~Carries(task[o]) /\ ~Copies(task[o])
    BY <1>t DEF Safe, OneHolder, Locks, Carries, Copies
  <1>2. OneHolder' /\ TwoDrivers'
    <2>1. OneHolder'
      BY <1>1 DEF OneHolder
    <2>2. Copies(task'[t]) => Carries(task'[t])
      BY DEF Copies, Locks
    <2>3. TwoDrivers'
      BY <1>1, <1>t, <2>2 DEF Safe, TwoDrivers
    <2> QED
      BY <2>1, <2>3
  <1>3. ASSUME NEW l \in Keys \ spoiled', l # k PROVE Intact(l)'
    <2>1. Standing(l) /\ Writing(l)
      BY <1>t, <1>3 DEF Safe, AllIntact, Intact, history
    <2>2. \A o \in Tasks : ~(Carries(task'[o]) /\ task'[o].key = l)
      BY <1>1, <1>3
    <2>3. Standing(l)' /\ Writing(l)'
      BY <1>3, <2>1, <2>2 DEF Standing, Writing, history
    <2> QED
      BY <2>2, <2>3 DEF Intact, Carried
  <1>4. ASSUME k \notin spoiled' PROVE Intact(k)'
    <2>1. k \notin spoiled
      BY <1>4 DEF history
    <2>2. Standing(k)' /\ Writing(k)'
      BY <2>1 DEF Writing
    <2>3. Carried(k)'
      BY <1>1, <2>1 DEF Carried
    <2> QED
      BY <2>2, <2>3 DEF Intact
  <1> QED
    BY <1>2, <1>3, <1>4 DEF Safe, AllIntact

\* What is written at the destination of a migration: nothing, a torn file, or what
\* the source has.
LEMMA DestSafe ==
  ASSUME TInv, NEW t \in Tasks, Carries(task[t]), NEW version \in Contents,
         task[t].key \notin spoiled =>
           version \in {0, Torn, Version(store, task[t].source, task[t].key)},
         \A d \in Drivers, l \in Keys :
           Version(store', d, l) = IF d = task[t].dest /\ l = task[t].key THEN version
                                                                  ELSE Version(store, d, l),
         task' \in [Tasks -> Task], \A o \in Tasks \ {t} : task'[o] = task[o],
         UNCHANGED <<putting, history>>,
         Carries(task'[t]) => /\ task'[t].source = task[t].source
                              /\ task'[t].dest = task[t].dest
                              /\ task'[t].key = task[t].key,
         ~Carries(task'[t]) => ~Locks(task'[t]),
         Carries(task'[t]) /\ task[t].key \notin spoiled =>
           Faithful(task'[t], Version(store, task[t].source, task[t].key), version)
  PROVE  Safe'
  <1> DEFINE c == task[t]
  <1>k. PICK k \in Keys : k = task[t].key
    BY DEF TInv, TypeOK
  <1>1. c.source \in Drivers /\ c.dest \in Drivers /\ c.key = k /\ c.source # c.dest
    BY <1>k DEF TInv, TypeOK, Safe, TwoDrivers, Copies
  <1>2. /\ Version(store', c.dest, k) = version
        /\ Version(store', c.source, k) = Version(store, c.source, k)
        /\ \A d \in Drivers : d # c.dest => Version(store', d, k) = Version(store, d, k)
        /\ \A d \in Drivers, l \in Keys :
             l # k => Version(store', d, l) = Version(store, d, l)
    BY <1>1
  <1>3. ASSUME k \notin spoiled PROVE Standing(k)' /\ putting[k] = 0
    <2>1. UNCHANGED newest
      BY DEF history
    <2>2. Version(store', c.dest, k) \in {0, Torn, Version(store, c.source, k)}
      BY <1>k, <1>2, <1>3
    <2> QED
      BY <1>1, <1>2, <1>3, <2>1, <2>2, ReplacedStands, Zenon
  <1>4. Carries(task'[t]) /\ k \notin spoiled =>
          Faithful(task'[t], Version(store', c.source, k), Version(store', c.dest, k))
    BY <1>k, <1>2
  <1> QED
    BY <1>1, <1>2, <1>3, <1>4, MoveSafe, Zenon

\* The source is removed when the destination has what it had.
LEMMA RemoveSafe ==
  ASSUME TInv, NEW t \in Tasks, task[t].at = "remove",
         task' \in [Tasks -> Task], \A o \in Tasks \ {t} : task'[o] = task[o],
         task'[t].at = "next", UNCHANGED <<putting, history>>,
         \A d \in Drivers, l \in Keys :
           Version(store', d, l) = IF d = task[t].source /\ l = task[t].key THEN 0
                                                                    ELSE Version(store, d, l)
  PROVE  Safe'
  <1> DEFINE c == task[t]
  <1>k. PICK k \in Keys : k = task[t].key
    BY DEF TInv, TypeOK
  <1>1. /\ c.source \in Drivers /\ c.dest \in Drivers /\ c.key = k /\ c.source # c.dest
        /\ Carries(c) /\ ~Carries(task'[t]) /\ ~Locks(task'[t])
    BY <1>k DEF TInv, TypeOK, Safe, TwoDrivers, Copies, Carries, Locks
  <1>2. /\ Version(store', c.source, k) = 0
        /\ \A d \in Drivers : d # c.source => Version(store', d, k) = Version(store, d, k)
        /\ \A d \in Drivers, l \in Keys :
             l # k => Version(store', d, l) = Version(store, d, l)
    BY <1>1
  <1>3. ASSUME k \notin spoiled PROVE Standing(k)' /\ putting[k] = 0
    <2>1. Standing(k) /\ Writing(k) /\ Carried(k)
      BY <1>1, <1>3 DEF TInv, Safe, AllIntact, Intact
    <2>2. Version(store, c.dest, k) = Version(store, c.source, k)
      BY <1>1, <2>1 DEF Carried, Faithful
    <2>3. putting[k] = 0
      BY <1>1, <2>1 DEF Writing
    <2>4. UNCHANGED newest
      BY DEF history
    <2>5. ASSUME newest[k] # 0
          PROVE  /\ \E d \in Drivers : Version(store', d, k) = newest[k]
                 /\ \A d \in Drivers : Version(store', d, k) \in {0, Torn, newest[k]}
      <3>1. PICK e \in Drivers : Version(store, e, k) = newest[k]
        BY <2>1, <2>5 DEF Standing
      <3>2. CASE e # c.source
        BY <1>2, <2>1, <2>5, <3>1, <3>2 DEF Standing
      <3>3. CASE e = c.source
        BY <1>1, <1>2, <2>1, <2>2, <2>5, <3>1, <3>3 DEF Standing
      <3> QED
        BY <3>2, <3>3
    <2> QED
      BY <2>3, <2>4, <2>5 DEF Standing
  <1> QED
    BY <1>1, <1>2, <1>3, MoveSafe, Zenon

\* What Safe says of a copy while nothing has spoiled it.
LEMMA CarriedNow ==
  ASSUME TInv, NEW t \in Tasks, Carries(task[t]), task[t].key \notin spoiled
  PROVE  /\ putting[task[t].key] = 0
         /\ Faithful(task[t], Version(store, task[t].source, task[t].key),
                     Version(store, task[t].dest, task[t].key))
  <1>1. PICK k \in Keys : k = task[t].key
    BY DEF TInv, TypeOK
  <1>2. Writing(k) /\ Carried(k)
    BY <1>1 DEF TInv, Safe, AllIntact, Intact
  <1> QED
    BY <1>1, <1>2 DEF Writing, Carried

\* The types of a task's parts.
LEMMA TaskIs ==
  ASSUME TypeOK, NEW t \in Tasks
  PROVE  /\ task[t] \in Task /\ task[t].source \in Drivers /\ task[t].dest \in Drivers
         /\ task[t].key \in Keys /\ task[t].target \in Tiers /\ task[t].todo \subseteq Entry
         /\ task[t].read \in Contents
         /\ \A d \in Drivers, k \in Keys : Version(store, d, k) \in Contents
  BY DEF TypeOK, Task, Place, Version

\* A step of a task is typed when what it changes is.
LEMMA TaskTyped ==
  ASSUME TypeOK, task' \in [Tasks -> Task], UNCHANGED <<kind, putting, newest, asked, writes>>,
         faults' \in 0..MaxFaults, spoiled' \subseteq Keys,
         store' \in [Drivers -> [Keys -> Object]]
  PROVE  TypeOK'
  BY TypeIs, TypeNext

\* The lock is let go of, and every version stays where it is.
LEMMA ReleaseInv ==
  ASSUME TInv, NEW t \in Tasks, Release(t), faults' \in 0..MaxFaults,
         UNCHANGED <<kind, putting, history, asked, writes>>,
         store' \in [Drivers -> [Keys -> Object]],
         \A d \in Drivers, k \in Keys : Version(store', d, k) = Version(store, d, k)
  PROVE  TInv'
  <1>1. TypeOK /\ Safe /\ spoiled \subseteq Keys
    BY DEF TInv, TypeOK
  <1>2. /\ task' \in [Tasks -> Task] /\ \A o \in Tasks \ {t} : task'[o] = task[o]
        /\ task'[t].at = "next"
    BY <1>1, ReleaseIs
  <1>3. TypeOK'
    BY <1>1, <1>2, TaskTyped DEF history
  <1>4. Safe'
    BY <1>1, <1>2, LetsGo DEF Locks
  <1> QED
    BY <1>3, <1>4 DEF TInv

\* The lock is let go of, and the destination is left with nothing, or with what was
\* read.
LEMMA DropInv ==
  ASSUME TInv, NEW t \in Tasks, Carries(task[t]), Release(t), faults' \in 0..MaxFaults,
         UNCHANGED <<kind, putting, history, asked, writes>>,
         NEW version \in Contents,
         task[t].key \notin spoiled =>
           version \in {0, Version(store, task[t].source, task[t].key)},
         Stored(task[t].dest, task[t].key, [None EXCEPT !.version = version])
  PROVE  TInv'
  <1>1. TypeOK /\ Safe /\ spoiled \subseteq Keys
    BY DEF TInv, TypeOK
  <1>2. /\ task' \in [Tasks -> Task] /\ \A o \in Tasks \ {t} : task'[o] = task[o]
        /\ task'[t].at = "next"
    BY <1>1, ReleaseIs
  <1>3. /\ store' \in [Drivers -> [Keys -> Object]]
        /\ \A e \in Drivers, l \in Keys :
             Version(store', e, l) = IF e = task[t].dest /\ l = task[t].key
                                       THEN version ELSE Version(store, e, l)
    BY <1>1, StoredIs, TaskIs
  <1>4. TypeOK'
    BY <1>1, <1>2, <1>3, TaskTyped DEF history
  <1>5. ~Carries(task'[t]) /\ ~Locks(task'[t])
    BY <1>2 DEF Carries, Locks
  <1>6. Safe'
    BY <1>2, <1>3, <1>5, DestSafe
  <1> QED
    BY <1>4, <1>6 DEF TInv

LEMMA EmptyIs == None = [None EXCEPT !.version = 0]
  BY DEF None

LEMMA RemovedInv ==
  ASSUME TInv, NEW t \in Tasks, task[t].at = "remove", Release(t), faults' \in 0..MaxFaults,
         UNCHANGED <<kind, putting, history, asked, writes>>,
         Stored(task[t].source, task[t].key, None)
  PROVE  TInv'
  <1>1. TypeOK /\ Safe /\ spoiled \subseteq Keys
    BY DEF TInv, TypeOK
  <1>2. /\ task' \in [Tasks -> Task] /\ \A o \in Tasks \ {t} : task'[o] = task[o]
        /\ task'[t].at = "next"
    BY <1>1, ReleaseIs
  <1>3. /\ store' \in [Drivers -> [Keys -> Object]]
        /\ \A e \in Drivers, l \in Keys :
             Version(store', e, l) = IF e = task[t].source /\ l = task[t].key
                                       THEN 0 ELSE Version(store, e, l)
    BY <1>1, StoredNone, TaskIs
  <1>4. TypeOK'
    BY <1>1, <1>2, <1>3, TaskTyped DEF history
  <1>5. Safe'
    BY <1>2, <1>3, RemoveSafe
  <1> QED
    BY <1>4, <1>5 DEF TInv

\* What a copy has gathered when the stream ends.
LEMMA GatheredIs ==
  ASSUME TInv, NEW t \in Tasks, task[t].at = "put", NEW version \in Gathered(t)
  PROVE  /\ version \in Contents
         /\ task[t].key \notin spoiled =>
              /\ version = Version(store, task[t].source, task[t].key)
              /\ version = task[t].read
  <1>1. TypeOK /\ Carries(task[t])
    BY DEF TInv, Carries
  <1>2. version \in Contents
    BY <1>1, TaskIs, Constants DEF Gathered
  <1>3. task[t].key \notin spoiled =>
          task[t].read = Version(store, task[t].source, task[t].key)
    BY <1>1, CarriedNow DEF Faithful
  <1> QED
    BY <1>2, <1>3 DEF Gathered, Version

-----------------------------------------------------------------------------
(* The steps of a task.                                                    *)

\* Steps without the lock, or that only move within it: what the task will be.
LEMMA PlainInv ==
  ASSUME TInv, NEW t \in Tasks, NEW r \in Task, task' = [task EXCEPT ![t] = r],
         Locks(r) => Locks(task[t]) \/ \A o \in Tasks : ~Locks(task[o]),
         Copies(r) => r.source # r.dest,
         Carries(r) /\ r.key \notin spoiled' =>
           /\ putting[r.key] = 0
           /\ Faithful(r, Version(store, r.source, r.key), Version(store, r.dest, r.key)),
         UNCHANGED <<kind, putting, newest>>,
         spoiled \subseteq spoiled', spoiled' \subseteq Keys,
         store' \in [Drivers -> [Keys -> Object]],
         \A d \in Drivers, k \in Keys : Version(store', d, k) = Version(store, d, k),
         asked' \in 0..MaxAsked, writes' \in 0..MaxWrites, faults' \in 0..MaxFaults
  PROVE  TInv'
  <1>1. TypeOK /\ Safe
    BY DEF TInv
  <1>2. /\ task' \in [Tasks -> Task] /\ \A o \in Tasks \ {t} : task'[o] = task[o]
        /\ task'[t] = r
    BY <1>1, NewIs
  <1>3. TypeOK'
    <2>1. kind' \in [Drivers -> Kinds] /\ putting' \in [Keys -> Versions]
          /\ newest' \in [Keys -> Versions]
      BY <1>1, TypeIs
    <2> QED
      BY <1>2, <2>1, TypeNext
  <1>4. r.key \in Keys
    BY DEF Task
  <1>5. Safe'
    BY <1>1, <1>2, <1>4, StepSafe
  <1> QED
    BY <1>3, <1>5 DEF TInv

LEMMA StepInv ==
  ASSUME TInv, NEW t \in Tasks, Step(t) PROVE TInv'
  <1> DEFINE c == task[t]
  <1>t. TypeOK /\ Safe
    BY DEF TInv
  <1>c. /\ c \in Task /\ c.source \in Drivers /\ c.dest \in Drivers /\ c.key \in Keys
        /\ c.target \in Tiers /\ c.todo \subseteq Entry
    BY <1>t, TaskIs
  <1>y. /\ kind \in [Drivers -> Kinds] /\ store \in [Drivers -> [Keys -> Object]]
        /\ putting \in [Keys -> Versions]
        /\ newest \in [Keys -> Versions] /\ spoiled \subseteq Keys
        /\ asked \in 0..MaxAsked /\ writes \in 0..MaxWrites /\ faults \in 0..MaxFaults
    BY <1>t, TypeIs
  <1>p. ASSUME NEW r \in Task, task' = [task EXCEPT ![t] = r],
               Locks(r) => Locks(c), Copies(r) => r.source # r.dest,
               Carries(r) /\ r.key \notin spoiled' =>
                 /\ putting[r.key] = 0
                 /\ Faithful(r, Version(store, r.source, r.key), Version(store, r.dest, r.key)),
               UNCHANGED <<kind, putting, newest, bounds>>,
               spoiled \subseteq spoiled', spoiled' \subseteq Keys,
               store' \in [Drivers -> [Keys -> Object]],
               \A d \in Drivers, k \in Keys : Version(store', d, k) = Version(store, d, k)
        PROVE  TInv'
    BY <1>p, <1>y, PlainInv DEF bounds
  <1>r. ASSUME Release(t), UNCHANGED <<kind, putting, history, bounds>>,
               store' \in [Drivers -> [Keys -> Object]],
               \A d \in Drivers, k \in Keys : Version(store', d, k) = Version(store, d, k)
        PROVE  TInv'
    BY <1>r, <1>y, ReleaseInv DEF bounds
  <1>s. UNCHANGED store => \A d \in Drivers, k \in Keys :
                             Version(store', d, k) = Version(store, d, k)
    BY DEF Version
  <1>1. CASE List(t)
    <2>1. PICK old \in Eligible(c.source) :
            task' = [task EXCEPT ![t].at = "next", ![t].todo = old]
      BY <1>1 DEF List
    <2>2. old \subseteq Entry
      BY DEF Eligible, Entry, Tiers
    <2> DEFINE r == [c EXCEPT !.at = "next", !.todo = old]
    <2>3. r \in Task /\ r.at = "next"
      BY <1>c, <2>2 DEF Task, Place
    <2>4. task' = [task EXCEPT ![t] = r]
      BY <2>1
    <2> HIDE DEF r
    <2>5. UNCHANGED <<kind, store, putting, history, bounds>>
      BY <1>1 DEF List
    <2>6. ~Locks(r) /\ ~Copies(r) /\ ~Carries(r)
      BY <2>3 DEF Locks, Copies, Carries
    <2> QED
      BY <1>p, <1>s, <1>y, <2>3, <2>4, <2>5, <2>6 DEF history
  <1>2. CASE End(t)
    <2>1. task' = [task EXCEPT ![t] = Idle] /\ UNCHANGED <<kind, store, putting, history, bounds>>
      BY <1>2 DEF End
    <2>2. Idle \in Task /\ ~Locks(Idle) /\ ~Copies(Idle) /\ ~Carries(Idle)
      BY Constants DEF Locks, Copies, Carries
    <2> QED
      BY <1>p, <1>s, <1>y, <2>1, <2>2 DEF history
  <1>3. CASE Info(t)
    <2>1. UNCHANGED <<kind, store, putting, history, bounds>> /\ c.at = "info"
      BY <1>3 DEF Info
    <2>2. CASE Release(t)
      BY <1>r, <1>s, <1>y, <2>1, <2>2
    <2>3. ASSUME NEW place \in {"change", "read"}, Goto(t, place),
                 place = "read" => c.dest # c.source
          PROVE  TInv'
      <3> DEFINE r == [c EXCEPT !.at = place]
      <3>1. r \in Task /\ r.at = place /\ r.source = c.source /\ r.dest = c.dest
        BY <1>c DEF Task, Place
      <3>2. task' = [task EXCEPT ![t] = r]
        BY <2>3 DEF Goto
      <3> HIDE DEF r
      <3>3. Locks(c) /\ ~Carries(r) /\ (Copies(r) => r.source # r.dest)
        BY <2>1, <2>3, <3>1 DEF Locks, Copies, Carries
      <3> QED
        BY <1>p, <1>s, <1>y, <2>1, <3>1, <3>2, <3>3 DEF history
    <2> QED
      BY <1>3, <2>2, <2>3 DEF Info
  <1>4. CASE ChangeTier(t)
    BY <1>4, <1>r, <1>t, <1>c, RetierIs DEF ChangeTier
  <1>5. CASE Read(t)
    <2>1. UNCHANGED <<kind, store, putting, newest, bounds>> /\ c.at = "read"
      BY <1>5 DEF Read
    <2>2. CASE ~Has(c.source, c.key)
      BY <1>5, <1>r, <1>s, <1>y, <2>1, <2>2 DEF Read, history
    <2>3. CASE Has(c.source, c.key)
      <3> DEFINE r == [c EXCEPT !.at = "open"]
      <3>1. /\ r \in Task /\ r.at = "open" /\ r.source = c.source /\ r.dest = c.dest
            /\ r.key = c.key
        BY <1>c DEF Task, Place
      <3>2. task' = [task EXCEPT ![t] = r]
        BY <1>5, <2>3 DEF Read, Goto
      <3> HIDE DEF r
      <3>3. spoiled \subseteq spoiled' /\ spoiled' \subseteq Keys
        BY <1>5, <1>c, <1>y, <2>3 DEF Read
      <3>4. c.source # c.dest /\ Locks(c)
        BY <1>t, <2>1 DEF Safe, TwoDrivers, Copies, Locks
      <3>5. ASSUME c.key \notin spoiled'
            PROVE  /\ putting[c.key] = 0
                   /\ Faithful(r, Version(store, c.source, c.key), Version(store, c.dest, c.key))
        <4>1. /\ putting[c.key] = 0
              /\ ~(Whole(c.dest, c.key)
                   /\ store[c.dest][c.key].version # store[c.source][c.key].version)
          BY <1>5, <2>3, <3>5 DEF Read
        <4> QED
          BY <3>1, <4>1 DEF Whole, Faithful, Version
      <3> QED
        BY <1>p, <1>s, <1>y, <2>1, <3>1, <3>2, <3>3, <3>4, <3>5
    <2> QED
      BY <2>2, <2>3
  <1>6. CASE Open(t)
    <2>1. UNCHANGED <<kind, putting, history, bounds>> /\ c.at = "open" /\ Carries(c)
      BY <1>6 DEF Open, Carries
    <2> DEFINE r == [c EXCEPT !.at = "fill"]
    <2>2. /\ r \in Task /\ r.at = "fill" /\ r.source = c.source /\ r.dest = c.dest
          /\ r.key = c.key
      BY <1>c DEF Task, Place
    <2>3. task' = [task EXCEPT ![t] = r]
      BY <1>6 DEF Open, Goto
    <2> HIDE DEF r
    <2>4. Carries(r) /\ Locks(c) /\ c.source # c.dest
      BY <1>t, <2>1, <2>2 DEF Safe, TwoDrivers, Copies, Carries, Locks
    <2>5. CASE UNCHANGED store
      <3>1. ASSUME c.key \notin spoiled
            PROVE  /\ putting[c.key] = 0
                   /\ Faithful(r, Version(store, c.source, c.key), Version(store, c.dest, c.key))
        BY <2>1, <2>2, <3>1, CarriedNow DEF Faithful
      <3> QED
        BY <1>p, <1>s, <1>y, <2>1, <2>2, <2>3, <2>4, <2>5, <3>1 DEF history
    <2>6. CASE Stored(c.dest, c.key, [None EXCEPT !.version = Torn])
      <3>1. Torn \in Contents
        BY Constants
      <3>2. /\ store' \in [Drivers -> [Keys -> Object]]
            /\ \A e \in Drivers, l \in Keys :
                 Version(store', e, l) = IF e = c.dest /\ l = c.key
                                           THEN Torn ELSE Version(store, e, l)
        BY <1>c, <1>t, <2>6, <3>1, StoredIs
      <3>3. /\ task' \in [Tasks -> Task] /\ \A o \in Tasks \ {t} : task'[o] = task[o]
            /\ task'[t] = r
        BY <1>t, <2>2, <2>3, NewIs
      <3>4. Faithful(r, Version(store, c.source, c.key), Torn)
        BY <2>2 DEF Faithful
      <3>5. Safe'
        BY <2>1, <2>2, <2>4, <3>1, <3>2, <3>3, <3>4, DestSafe
      <3>6. TypeOK'
        BY <1>t, <1>y, <2>1, <3>2, <3>3, TaskTyped DEF bounds, history
      <3> QED
        BY <3>5, <3>6 DEF TInv
    <2> QED
      BY <1>6, <2>5, <2>6 DEF Open
  <1>7. CASE Fill(t)
    <2>1. UNCHANGED <<kind, putting, history, bounds>> /\ c.at = "fill" /\ Carries(c)
      BY <1>7 DEF Fill, Carries
    <2>2. CASE Has(c.source, c.key)
      <3> DEFINE v == store[c.source][c.key].version
                 r == [c EXCEPT !.at = "put", !.read = v]
      <3>1. v \in Contents /\ v = Version(store, c.source, c.key)
        BY <1>t, <1>c, TaskIs DEF Version
      <3>2. /\ r \in Task /\ r.at = "put" /\ r.read = v
            /\ r.source = c.source /\ r.dest = c.dest /\ r.key = c.key
        BY <1>c, <3>1 DEF Task, Place
      <3>3. task' = [task EXCEPT ![t] = r] /\ UNCHANGED store
        BY <1>7, <2>2 DEF Fill
      <3> HIDE DEF r, v
      <3>4. Carries(r) /\ Locks(c) /\ c.source # c.dest
        BY <1>t, <2>1, <3>2 DEF Safe, TwoDrivers, Copies, Carries, Locks
      <3>5. ASSUME c.key \notin spoiled
            PROVE  /\ putting[c.key] = 0
                   /\ Faithful(r, Version(store, c.source, c.key), Version(store, c.dest, c.key))
        BY <2>1, <3>1, <3>2, <3>5, CarriedNow DEF Faithful
      <3> QED
        BY <1>p, <1>s, <1>y, <2>1, <3>2, <3>3, <3>4, <3>5 DEF history
    <2>3. CASE Release(t) /\ UNCHANGED store
      BY <1>r, <1>s, <1>y, <2>1, <2>3
    <2>4. CASE Release(t) /\ Stored(c.dest, c.key, None)
      <3>1. Stored(c.dest, c.key, [None EXCEPT !.version = 0]) /\ 0 \in Contents
        BY <2>4, EmptyIs, Constants
      <3>2. faults' \in 0..MaxFaults /\ UNCHANGED <<asked, writes>>
        BY <1>y, <2>1 DEF bounds
      <3> QED
        BY <2>1, <2>4, <3>1, <3>2, DropInv
    <2> QED
      BY <1>7, <2>2, <2>3, <2>4 DEF Fill
  <1>8. CASE Put(t)
    <2>1. UNCHANGED <<kind, putting, history, bounds>> /\ c.at = "put" /\ Carries(c)
      BY <1>8 DEF Put, Carries
    <2>2. PICK v \in Gathered(t) :
            /\ Stored(c.dest, c.key, [None EXCEPT !.version = v])
            /\ task' = [task EXCEPT ![t].at = "settle", ![t].read = v]
      BY <1>8 DEF Put
    <2>3. /\ v \in Contents
          /\ c.key \notin spoiled => v = Version(store, c.source, c.key)
      BY <2>1, GatheredIs
    <2> DEFINE r == [c EXCEPT !.at = "settle", !.read = v]
    <2>4. /\ r \in Task /\ r.at = "settle" /\ r.read = v
          /\ r.source = c.source /\ r.dest = c.dest /\ r.key = c.key
      BY <1>c, <2>3 DEF Task, Place
    <2>5. task' = [task EXCEPT ![t] = r]
      BY <2>2
    <2> HIDE DEF r
    <2>6. /\ task' \in [Tasks -> Task] /\ \A o \in Tasks \ {t} : task'[o] = task[o]
          /\ task'[t] = r
      BY <1>t, <2>4, <2>5, NewIs
    <2>7. /\ store' \in [Drivers -> [Keys -> Object]]
          /\ \A e \in Drivers, l \in Keys :
               Version(store', e, l) = IF e = c.dest /\ l = c.key
                                         THEN v ELSE Version(store, e, l)
      BY <1>c, <1>t, <2>2, <2>3, StoredIs
    <2>8. Carries(r)
      BY <2>4 DEF Carries
    <2>9. ASSUME c.key \notin spoiled
          PROVE  /\ v \in {0, Torn, Version(store, c.source, c.key)}
                 /\ Faithful(r, Version(store, c.source, c.key), v)
      BY <2>3, <2>4, <2>9 DEF Faithful
    <2>10. Safe'
      BY <2>1, <2>3, <2>4, <2>6, <2>7, <2>8, <2>9, DestSafe
    <2>11. TypeOK'
      BY <1>t, <1>y, <2>1, <2>6, <2>7, TaskTyped DEF bounds, history
    <2> QED
      BY <2>10, <2>11 DEF TInv
  <1>9. CASE Settle(t)
    <2>1. /\ UNCHANGED <<kind, putting, history, bounds>> /\ c.at = "settle" /\ Carries(c)
          /\ store' \in [Drivers -> [Keys -> Object]]
          /\ \A d \in Drivers, k \in Keys : Version(store', d, k) = Version(store, d, k)
      BY <1>9, <1>t, <1>c, RetierIs DEF Settle, Carries
    <2>2. CASE Release(t)
      BY <1>r, <2>1, <2>2
    <2>3. CASE Goto(t, "remove")
      <3> DEFINE r == [c EXCEPT !.at = "remove"]
      <3>1. /\ r \in Task /\ r.at = "remove" /\ r.source = c.source /\ r.dest = c.dest
            /\ r.key = c.key /\ r.read = c.read
        BY <1>c DEF Task, Place
      <3>2. task' = [task EXCEPT ![t] = r]
        BY <2>3 DEF Goto
      <3> HIDE DEF r
      <3>3. Carries(r) /\ Locks(c) /\ c.source # c.dest
        BY <1>t, <2>1, <3>1 DEF Safe, TwoDrivers, Copies, Carries, Locks
      <3>4. ASSUME c.key \notin spoiled
            PROVE  /\ putting[c.key] = 0
                   /\ Faithful(r, Version(store, c.source, c.key), Version(store, c.dest, c.key))
        BY <2>1, <3>1, <3>4, CarriedNow DEF Faithful
      <3> QED
        BY <1>p, <1>y, <2>1, <3>1, <3>2, <3>3, <3>4 DEF history
    <2> QED
      BY <1>9, <2>2, <2>3 DEF Settle
  <1>10. CASE Remove(t)
    BY <1>10, <1>y, RemovedInv DEF Remove, bounds
  <1> QED
    BY <1>1, <1>2, <1>3, <1>4, <1>5, <1>6, <1>7, <1>8, <1>9, <1>10 DEF Step

\* The lock is taken when nobody holds it.
LEMMA AcquireInv ==
  ASSUME TInv, NEW t \in Tasks, Acquire(t) PROVE TInv'
  <1> DEFINE c == task[t]
  <1>t. TypeOK /\ c \in Task
    BY TaskIs DEF TInv
  <1>1. PICK e \in c.todo :
          task' = [task EXCEPT ![t].at = "info", ![t].todo = @ \ {e}, ![t].key = e.key,
                               ![t].target = e.target]
    BY DEF Acquire
  <1>2. e.key \in Keys /\ e.target \in Tiers /\ c.todo \ {e} \in SUBSET Entry
    BY <1>t DEF Task, Entry
  <1> DEFINE r == [c EXCEPT !.at = "info", !.todo = c.todo \ {e}, !.key = e.key,
                            !.target = e.target]
  <1>3. r \in Task /\ r.at = "info"
    BY <1>t, <1>2 DEF Task, Place
  <1>4. task' = [task EXCEPT ![t] = r]
    BY <1>1
  <1> HIDE DEF r
  <1>5. /\ UNCHANGED <<kind, store, putting, history, bounds>>
        /\ \A o \in Tasks : ~Locks(task[o])
    BY DEF Acquire, Holds, Locks
  <1>6. ~Copies(r) /\ ~Carries(r)
    BY <1>3 DEF Copies, Carries
  <1>7. /\ store' \in [Drivers -> [Keys -> Object]] /\ spoiled' \subseteq Keys
        /\ spoiled \subseteq spoiled'
        /\ asked' \in 0..MaxAsked /\ writes' \in 0..MaxWrites /\ faults' \in 0..MaxFaults
        /\ \A d \in Drivers, k \in Keys : Version(store', d, k) = Version(store, d, k)
    BY <1>t, <1>5, TypeIs DEF history, bounds, Version
  <1> QED
    BY <1>3, <1>4, <1>5, <1>6, <1>7, PlainInv DEF history

LEMMA FailsInv ==
  ASSUME TInv, NEW t \in Tasks, Fails(t) PROVE TInv'
  <1> DEFINE c == task[t]
  <1>t. TypeOK
    BY DEF TInv
  <1>c. /\ c.source \in Drivers /\ c.dest \in Drivers /\ c.key \in Keys /\ c.target \in Tiers
        /\ store \in [Drivers -> [Keys -> Object]]
    BY <1>t, TaskIs, TypeIs
  <1>1. /\ Release(t) /\ UNCHANGED <<kind, putting, history, asked, writes>>
        /\ faults' \in 0..MaxFaults
    BY <1>t, Constants DEF Fails, Fault, TypeOK
  <1>2. CASE UNCHANGED store
    BY <1>1, <1>2, <1>c, ReleaseInv DEF Version
  <1>3. CASE c.at \in {"open", "fill", "put"} /\ Stored(c.dest, c.key, None)
    <2>1. Stored(c.dest, c.key, [None EXCEPT !.version = 0]) /\ 0 \in Contents /\ Carries(c)
      BY <1>3, EmptyIs, Constants DEF Carries
    <2> QED
      BY <1>1, <2>1, DropInv
  <1>4. ASSUME c.at = "put", NEW version \in Gathered(t),
               Stored(c.dest, c.key, [None EXCEPT !.version = version])
        PROVE  TInv'
    <2>1. /\ version \in Contents /\ Carries(c)
          /\ c.key \notin spoiled => version = Version(store, c.source, c.key)
      BY <1>4, GatheredIs DEF Carries
    <2> QED
      BY <1>1, <1>4, <2>1, DropInv
  <1>5. CASE Retier(c.source, c.key, c.target)
    BY <1>1, <1>5, <1>c, <1>t, RetierIs, ReleaseInv
  <1>6. CASE Retier(c.dest, c.key, c.target)
    BY <1>1, <1>6, <1>c, <1>t, RetierIs, ReleaseInv
  <1>7. CASE c.at = "remove" /\ Stored(c.source, c.key, None)
    BY <1>1, <1>7, RemovedInv
  <1> QED
    BY <1>2, <1>3, <1>4, <1>5, <1>6, <1>7 DEF Fails

\* What begins without the lock.
LEMMA AskInv ==
  ASSUME TInv, NEW t \in Tasks,
         \/ t = Worker /\ WakeUp
         \/ \E d \in Drivers : AskPolicy(t, d)
         \/ \E keys \in SUBSET Keys, target \in Targets, source, dest \in Drivers,
              force \in BOOLEAN : Migrate(t, keys, target, source, dest, force)
  PROVE  TInv'
  <1>t. TypeOK
    BY DEF TInv
  <1>q. ASSUME NEW r \in Task, task' = [task EXCEPT ![t] = r], r.at \in {"list", "next"},
               UNCHANGED <<kind, store, putting, history, writes, faults>>,
               asked' \in 0..MaxAsked
        PROVE  TInv'
    <2>1. ~Locks(r) /\ ~Copies(r) /\ ~Carries(r)
      BY <1>q DEF Locks, Copies, Carries
    <2>2. /\ store' \in [Drivers -> [Keys -> Object]] /\ spoiled' \subseteq Keys
          /\ spoiled \subseteq spoiled' /\ UNCHANGED <<kind, putting, newest>>
          /\ writes' \in 0..MaxWrites /\ faults' \in 0..MaxFaults
          /\ \A d \in Drivers, k \in Keys : Version(store', d, k) = Version(store, d, k)
      BY <1>t, <1>q, TypeIs DEF history, Version
    <2> QED
      BY <1>q, <2>1, <2>2, PlainInv
  <1>a. asked < MaxAsked /\ asked' = asked + 1 => asked' \in 0..MaxAsked
    BY <1>t, Constants DEF TypeOK
  <1>1. CASE t = Worker /\ WakeUp
    <2> DEFINE r == [task[t] EXCEPT !.at = "list"]
    <2>1. r \in Task /\ r.at = "list"
      BY <1>t DEF TypeOK, Task, Place
    <2>2. task' = [task EXCEPT ![t] = r]
      BY <1>1 DEF WakeUp, Goto
    <2> HIDE DEF r
    <2>3. UNCHANGED <<kind, store, putting, history, bounds>>
      BY <1>1 DEF WakeUp
    <2> QED
      BY <1>q, <1>t, <2>1, <2>2, <2>3 DEF bounds, TypeOK
  <1>2. ASSUME NEW d \in Drivers, AskPolicy(t, d) PROVE TInv'
    <2> DEFINE r == [Idle EXCEPT !.at = "list", !.source = d, !.dest = d]
    <2>1. r \in Task /\ r.at = "list"
      BY Constants DEF Task, Place
    <2>2. task' = [task EXCEPT ![t] = r]
      BY <1>2 DEF AskPolicy
    <2> HIDE DEF r
    <2> QED
      BY <1>2, <1>a, <1>q, <2>1, <2>2 DEF AskPolicy
  <1>3. ASSUME NEW keys \in SUBSET Keys, NEW target \in Targets, NEW source \in Drivers,
               NEW dest \in Drivers, NEW force \in BOOLEAN,
               Migrate(t, keys, target, source, dest, force)
        PROVE  TInv'
    <2> DEFINE r == [Idle EXCEPT !.at = "next", !.source = source, !.dest = dest,
                                 !.force = force, !.todo = [key : keys, target : {target}]]
    <2>1. [key : keys, target : {target}] \in SUBSET Entry
      BY Constants DEF Entry
    <2>2. r \in Task /\ r.at = "next"
      BY <2>1, Constants DEF Task, Place
    <2>3. task' = [task EXCEPT ![t] = r]
      BY <1>3 DEF Migrate
    <2> HIDE DEF r
    <2> QED
      BY <1>3, <1>a, <1>q, <2>2, <2>3 DEF Migrate
  <1> QED
    BY <1>1, <1>2, <1>3

\* A death lets go of everything and leaves the stores as they are.
LEMMA CrashInv ==
  ASSUME TInv, Crash PROVE TInv'
  <1>t. TypeOK /\ Safe
    BY DEF TInv
  <1>1. /\ task' \in [Tasks -> Task] /\ putting' \in [Keys -> Versions]
        /\ \A t \in Tasks : ~Locks(task'[t]) /\ ~Copies(task'[t]) /\ ~Carries(task'[t])
        /\ \A k \in Keys : putting'[k] = 0
    BY Constants DEF Crash, Locks, Copies, Carries
  <1>2. faults' \in 0..MaxFaults /\ UNCHANGED <<kind, store, newest, spoiled, asked, writes>>
    BY <1>t, Constants DEF Crash, Fault, TypeOK, history
  <1>3. TypeOK'
    BY <1>t, <1>1, <1>2, TypeIs, TypeNext
  <1>4. OneHolder' /\ TwoDrivers'
    BY <1>1 DEF OneHolder, TwoDrivers
  <1>5. ASSUME NEW k \in Keys \ spoiled' PROVE Intact(k)'
    <2>1. Standing(k)
      BY <1>t, <1>2, <1>5 DEF Safe, AllIntact, Intact
    <2>2. Standing(k)'
      BY <1>2, <2>1 DEF Standing, Version
    <2> QED
      BY <1>1, <2>2 DEF Intact, Writing, Carried
  <1> QED
    BY <1>3, <1>4, <1>5 DEF TInv, Safe, AllIntact

-----------------------------------------------------------------------------
(* What clients do, without the lock.                                      *)

\* It concerns one key.
LEMMA ClientSafe ==
  ASSUME TInv, NEW k \in Keys, UNCHANGED task,
         \A d \in Drivers, l \in Keys : l # k => Version(store', d, l) = Version(store, d, l),
         \A l \in Keys : l # k => /\ newest'[l] = newest[l]
                                  /\ putting'[l] = putting[l]
                                  /\ l \in spoiled => l \in spoiled',
         k \notin spoiled' => Intact(k)'
  PROVE  Safe'
  <1>1. OneHolder' /\ TwoDrivers'
    BY DEF TInv, Safe, OneHolder, TwoDrivers
  <1>2. ASSUME NEW l \in Keys \ spoiled', l # k PROVE Intact(l)'
    <2>1. Standing(l) /\ Writing(l) /\ Carried(l)
      BY <1>2 DEF TInv, Safe, AllIntact, Intact
    <2>2. \A t \in Tasks : task[t].source \in Drivers /\ task[t].dest \in Drivers
      BY TaskIs DEF TInv
    <2>3. Standing(l)' /\ Writing(l)'
      BY <1>2, <2>1 DEF Standing, Writing
    <2>4. Carried(l)'
      BY <1>2, <2>1, <2>2 DEF Carried
    <2> QED
      BY <2>3, <2>4 DEF Intact
  <1> QED
    BY <1>1, <1>2 DEF Safe, AllIntact

\* What is written, read of the default driver.
LEMMA ClientTyped ==
  ASSUME TypeOK, UNCHANGED <<kind, task, asked>>, store' \in [Drivers -> [Keys -> Object]],
         putting' \in [Keys -> Versions], newest' \in [Keys -> Versions],
         spoiled' \subseteq Keys, writes' \in 0..MaxWrites, faults' \in 0..MaxFaults
  PROVE  TypeOK'
  BY TypeIs, TypeNext

\* Nobody carries what is not under way.
LEMMA NotUnderWay ==
  ASSUME NEW k \in Keys, ~UnderWay(k)
  PROVE  \A t \in Tasks : ~(Carries(task[t]) /\ task[t].key = k)
  BY DEF UnderWay, Carries

LEMMA WriteIs ==
  ASSUME TypeOK, NEW k \in Keys, Write(k)
  PROVE  /\ writes' \in 0..MaxWrites /\ writes' \in Versions /\ writes' # 0
         /\ writes' \in Contents /\ putting[k] = 0
  BY Constants DEF Write, TypeOK, Versions, Contents

LEMMA PutObjectInv ==
  ASSUME TInv, NEW k \in Keys, PutObject(k) PROVE TInv'
  <1>t. TypeOK
    BY DEF TInv
  <1>w. /\ writes' \in 0..MaxWrites /\ writes' \in Versions /\ writes' # 0
        /\ writes' \in Contents /\ putting[k] = 0 /\ UNCHANGED <<kind, task, asked, faults>>
    BY <1>t, WriteIs DEF PutObject
  <1>y. /\ putting \in [Keys -> Versions] /\ newest \in [Keys -> Versions]
        /\ spoiled \subseteq Keys /\ faults' \in 0..MaxFaults
    BY <1>t, <1>w, TypeIs
  <1>s. /\ spoiled' \subseteq Keys
        /\ \A l \in Keys : l # k => (l \in spoiled => l \in spoiled')
        /\ k \notin spoiled' => ~Spoils(k)
    BY <1>y DEF PutObject
  <1>n. ASSUME k \notin spoiled'
        PROVE  /\ \A t \in Tasks : ~(Carries(task[t]) /\ task[t].key = k)
               /\ \A d \in Drivers : d # Default => Version(store, d, k) \in {0, Torn}
    BY <1>n, <1>s, NotUnderWay DEF Spoils, Whole, Version
  <1>q. ASSUME NEW version \in Contents, Stored(Default, k, [None EXCEPT !.version = version])
        PROVE  /\ store' \in [Drivers -> [Keys -> Object]]
               /\ \A e \in Drivers, l \in Keys :
                    Version(store', e, l) = IF e = Default /\ l = k THEN version
                                                                 ELSE Version(store, e, l)
    BY <1>q, <1>t, Constants, StoredIs
  <1>1. CASE kind[Default] = "local"
    <2>1. /\ Stored(Default, k, [None EXCEPT !.version = Torn])
          /\ putting' = [putting EXCEPT ![k] = writes'] /\ newest' = [newest EXCEPT ![k] = 0]
      BY <1>1 DEF PutObject
    <2>2. /\ putting' \in [Keys -> Versions] /\ newest' \in [Keys -> Versions]
          /\ putting'[k] = writes' /\ newest'[k] = 0
          /\ \A l \in Keys : l # k => putting'[l] = putting[l] /\ newest'[l] = newest[l]
      BY <1>w, <1>y, <2>1, Constants
    <2>3. /\ store' \in [Drivers -> [Keys -> Object]]
          /\ \A e \in Drivers, l \in Keys :
               Version(store', e, l) = IF e = Default /\ l = k THEN Torn
                                                            ELSE Version(store, e, l)
      BY <1>q, <2>1, Constants
    <2>4. ASSUME k \notin spoiled' PROVE Intact(k)'
      <3>1. Standing(k)'
        BY <2>2 DEF Standing
      <3>2. Writing(k)'
        BY <1>n, <1>w, <2>2, <2>3, <2>4 DEF Writing
      <3>3. Carried(k)'
        BY <1>n, <1>w, <2>4 DEF Carried
      <3> QED
        BY <3>1, <3>2, <3>3 DEF Intact
    <2>5. Safe'
      BY <1>s, <1>w, <2>2, <2>3, <2>4, ClientSafe
    <2> QED
      BY <1>s, <1>t, <1>w, <1>y, <2>2, <2>3, <2>5, ClientTyped DEF TInv
  <1>2. CASE kind[Default] # "local"
    <2>1. /\ Stored(Default, k, [None EXCEPT !.version = writes'])
          /\ newest' = [newest EXCEPT ![k] = writes'] /\ UNCHANGED putting
      BY <1>2 DEF PutObject
    <2>2. /\ putting' \in [Keys -> Versions] /\ newest' \in [Keys -> Versions]
          /\ putting'[k] = 0 /\ newest'[k] = writes'
          /\ \A l \in Keys : l # k => putting'[l] = putting[l] /\ newest'[l] = newest[l]
      BY <1>w, <1>y, <2>1
    <2> DEFINE w == writes'
    <2>3. /\ store' \in [Drivers -> [Keys -> Object]]
          /\ \A e \in Drivers, l \in Keys :
               Version(store', e, l) = IF e = Default /\ l = k THEN w
                                                            ELSE Version(store, e, l)
      <3>1. PICK version \in Contents : version = w
        BY <1>w
      <3>2. Stored(Default, k, [None EXCEPT !.version = version])
        BY <2>1, <3>1
      <3> QED
        BY <1>q, <3>1, <3>2
    <2>4. ASSUME k \notin spoiled' PROVE Intact(k)'
      <3>1. Standing(k)'
        BY <1>n, <2>2, <2>3, <2>4, Constants DEF Standing
      <3>2. Writing(k)'
        BY <2>2 DEF Writing
      <3>3. Carried(k)'
        BY <1>n, <1>w, <2>4 DEF Carried
      <3> QED
        BY <3>1, <3>2, <3>3 DEF Intact
    <2>5. Safe'
      BY <1>s, <1>w, <2>2, <2>3, <2>4, ClientSafe
    <2> QED
      BY <1>s, <1>t, <1>w, <1>y, <2>2, <2>3, <2>5, ClientTyped DEF TInv
  <1> QED
    BY <1>1, <1>2

\* The end of a put of the local driver, whole or not.
LEMMA EndPutInv ==
  ASSUME TInv, NEW k \in Keys, EndPut(k) \/ PutFails(k) PROVE TInv'
  <1>t. TypeOK
    BY DEF TInv
  <1>y. /\ putting \in [Keys -> Versions] /\ newest \in [Keys -> Versions]
        /\ spoiled \subseteq Keys /\ store \in [Drivers -> [Keys -> Object]]
        /\ writes \in 0..MaxWrites /\ faults \in 0..MaxFaults
    BY <1>t, TypeIs
  <1>1. /\ putting[k] # 0 /\ putting' = [putting EXCEPT ![k] = 0]
        /\ UNCHANGED <<kind, task, spoiled, asked, writes>>
    BY DEF EndPut, PutFails, history, bounds
  <1>2. putting' \in [Keys -> Versions] /\ putting'[k] = 0
        /\ \A l \in Keys : l # k => putting'[l] = putting[l]
    BY <1>1, <1>y, Constants
  <1>3. faults' \in 0..MaxFaults
    BY <1>y, Constants DEF EndPut, PutFails, Fault, bounds
  <1>n. ASSUME k \notin spoiled
        PROVE  /\ newest[k] = 0 /\ \A d \in Drivers : Version(store, d, k) \in {0, Torn}
               /\ \A t \in Tasks : ~(Carries(task[t]) /\ task[t].key = k)
    BY <1>1, <1>n DEF TInv, Safe, AllIntact, Intact, Writing
  <1>w. ASSUME k \notin spoiled' PROVE Writing(k)' /\ Carried(k)'
    BY <1>1, <1>2, <1>n, <1>w DEF Writing, Carried
  <1>v. PICK version \in Versions : version = putting[k]
    BY <1>y
  <1>4. CASE UNCHANGED <<store, newest>>
    <2>1. \A d \in Drivers, l \in Keys : Version(store', d, l) = Version(store, d, l)
      BY <1>4 DEF Version
    <2>2. k \notin spoiled' => Standing(k)'
      BY <1>1, <1>4, <1>n DEF Standing
    <2>3. Safe'
      BY <1>1, <1>2, <1>4, <1>w, <2>1, <2>2, ClientSafe DEF Intact
    <2> QED
      BY <1>1, <1>2, <1>3, <1>4, <1>t, <1>y, <2>3, ClientTyped DEF TInv
  <1>5. CASE Stored(Default, k, [None EXCEPT !.version = putting[k]])
             /\ newest' \in {newest, [newest EXCEPT ![k] = putting[k]]}
    <2>1. Stored(Default, k, [None EXCEPT !.version = version]) /\ version \in Contents
      BY <1>5, <1>v, Constants
    <2>2. /\ store' \in [Drivers -> [Keys -> Object]]
          /\ \A e \in Drivers, l \in Keys :
               Version(store', e, l) = IF e = Default /\ l = k THEN version
                                                            ELSE Version(store, e, l)
      BY <1>t, <2>1, Constants, StoredIs
    <2>3. /\ newest' \in [Keys -> Versions] /\ newest'[k] \in {newest[k], version}
          /\ \A l \in Keys : l # k => newest'[l] = newest[l]
      BY <1>5, <1>v, <1>y
    <2>4. ASSUME k \notin spoiled' PROVE Standing(k)'
      BY <1>1, <1>n, <1>v, <2>2, <2>3, <2>4, Constants DEF Standing
    <2>5. Safe'
      BY <1>1, <1>2, <1>w, <2>2, <2>3, <2>4, ClientSafe DEF Intact
    <2> QED
      BY <1>1, <1>2, <1>3, <1>t, <1>y, <2>2, <2>3, <2>5, ClientTyped DEF TInv
  <1> QED
    BY <1>4, <1>5 DEF EndPut, PutFails, history

LEMMA DeleteObjectInv ==
  ASSUME TInv, NEW k \in Keys, NEW d \in Drivers, DeleteObject(d, k) PROVE TInv'
  <1>t. TypeOK
    BY DEF TInv
  <1>w. /\ writes' \in 0..MaxWrites /\ putting[k] = 0
        /\ UNCHANGED <<kind, task, putting, asked, faults>>
    BY <1>t, WriteIs DEF DeleteObject
  <1>y. /\ putting' \in [Keys -> Versions] /\ newest \in [Keys -> Versions]
        /\ spoiled \subseteq Keys /\ faults' \in 0..MaxFaults
    BY <1>t, <1>w, TypeIs
  <1>1. /\ spoiled' \subseteq Keys /\ spoiled \subseteq spoiled'
        /\ k \notin spoiled' => ~UnderWay(k)
    BY <1>y DEF DeleteObject
  <1>2. /\ store' \in [Drivers -> [Keys -> Object]]
        /\ \A e \in Drivers, l \in Keys :
             Version(store', e, l) = IF e = d /\ l = k THEN 0 ELSE Version(store, e, l)
    BY <1>t, StoredNone DEF DeleteObject
  <1>3. /\ newest' \in [Keys -> Versions] /\ newest'[k] = 0
        /\ \A l \in Keys : l # k => newest'[l] = newest[l]
    BY <1>y, Constants DEF DeleteObject
  <1>4. ASSUME k \notin spoiled' PROVE Intact(k)'
    BY <1>1, <1>3, <1>4, <1>w, NotUnderWay DEF Intact, Standing, Writing, Carried
  <1>5. Safe'
    BY <1>1, <1>2, <1>3, <1>4, <1>w, ClientSafe
  <1> QED
    BY <1>1, <1>2, <1>3, <1>5, <1>t, <1>w, <1>y, ClientTyped DEF TInv

LEMMA ChangeStorageTierInv ==
  ASSUME TInv, NEW k \in Keys, NEW d \in Drivers, NEW target \in Targets,
         ChangeStorageTier(d, k, target)
  PROVE  TInv'
  <1>t. TypeOK
    BY DEF TInv
  <1>w. /\ writes' \in 0..MaxWrites /\ UNCHANGED <<kind, task, putting, newest, spoiled, asked, faults>>
    BY <1>t, WriteIs DEF ChangeStorageTier, history
  <1>1. /\ store' \in [Drivers -> [Keys -> Object]]
        /\ \A e \in Drivers, l \in Keys : Version(store', e, l) = Version(store, e, l)
    BY <1>t, RetierIs, Constants DEF ChangeStorageTier
  <1>2. ASSUME k \notin spoiled' PROVE Intact(k)'
    <2>1. Standing(k) /\ Writing(k) /\ Carried(k)
      BY <1>2, <1>w DEF TInv, Safe, AllIntact, Intact
    <2>2. \A t \in Tasks : task[t].source \in Drivers /\ task[t].dest \in Drivers
      BY <1>t, TaskIs
    <2> QED
      BY <1>1, <1>w, <2>1, <2>2 DEF Intact, Standing, Writing, Carried
  <1>3. Safe'
    BY <1>1, <1>2, <1>w, ClientSafe
  <1> QED
    BY <1>1, <1>3, <1>t, <1>w, TypeIs, ClientTyped DEF TInv

-----------------------------------------------------------------------------
LEMMA InitTInv == Init => TInv
  <1> SUFFICES ASSUME Init PROVE TInv
    OBVIOUS
  <1>1. TypeOK
    BY TypeIs, Constants DEF Init
  <1>2. \A t \in Tasks : ~Locks(task[t]) /\ ~Copies(task[t]) /\ ~Carries(task[t])
    BY Constants DEF Init, Locks, Copies, Carries
  <1>3. Safe
    BY <1>2 DEF Init, Safe, OneHolder, TwoDrivers, AllIntact, Intact, Standing, Writing, Carried
  <1> QED
    BY <1>1, <1>3 DEF TInv

LEMMA NextTInv == TInv /\ [Next]_vars => TInv'
  <1> SUFFICES ASSUME TInv, [Next]_vars PROVE TInv'
    OBVIOUS
  <1>1. CASE UNCHANGED vars
    <2>1. TypeOK'
      BY <1>1, TypeIs, TypeNext DEF vars, history, bounds, TInv
    <2>2. Safe'
      BY <1>1
      DEF vars, history, TInv, Safe, OneHolder, TwoDrivers, AllIntact, Intact, Standing,
          Writing, Carried, Version
    <2> QED
      BY <2>1, <2>2 DEF TInv
  <1>2. Requests \subseteq Tasks /\ Worker \in Tasks
    BY Constants
  <1>3. CASE WakeUp
    BY <1>2, <1>3, AskInv
  <1>4. ASSUME NEW t \in Requests,
               \/ \E keys \in SUBSET Keys, target \in Targets, source, dest \in Drivers,
                     force \in BOOLEAN : Migrate(t, keys, target, source, dest, force)
               \/ \E d \in Drivers : AskPolicy(t, d)
        PROVE  TInv'
    BY <1>2, <1>4, AskInv
  <1> QED
    BY <1>1, <1>3, <1>4, StepInv, AcquireInv, FailsInv, CrashInv, PutObjectInv, EndPutInv,
       DeleteObjectInv, ChangeStorageTierInv DEF Next

\* TypeOK, for any numbers: in particular a tier is only ever one of the four.
THEOREM MigrationTyped == Spec => []TypeOK
  <1>1. TInv => TypeOK
    BY DEF TInv
  <1> QED
    BY InitTInv, NextTInv, <1>1, PTL DEF Spec

\* Kept, for any number of objects, drivers, callers, writes, failures and deaths at any
\* point of a put: an object is deleted at its source only when the same version is
\* whole at its destination, because one object is moved at a time and only between
\* two drivers, and what a destination loses when it is opened or cleaned up is torn or
\* a copy of what the source has.
THEOREM MigrationKeeps == Spec => []Kept
  <1>1. ASSUME TInv, NEW k \in Keys \ spoiled, newest[k] # 0
        PROVE  {store[d][k].version : d \in Drivers} \ {0, Torn} = {newest[k]}
    <2>1. /\ \E d \in Drivers : store[d][k].version = newest[k]
          /\ \A d \in Drivers : store[d][k].version \in {0, Torn, newest[k]}
      BY <1>1 DEF TInv, Safe, AllIntact, Intact, Standing, Version
    <2>2. newest[k] # Torn
      BY <1>1, Constants DEF TInv, TypeOK
    <2> QED
      BY <1>1, <2>1, <2>2
  <1>2. TInv => Kept
    BY <1>1 DEF Kept
  <1> QED
    BY InitTInv, NextTInv, <1>2, PTL DEF Spec
=============================================================================
