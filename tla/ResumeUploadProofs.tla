-------------------------- MODULE ResumeUploadProofs --------------------------
(***************************************************************************)
(* A client that sends no chunk twice at once and awaits the answer to its *)
(* first chunk gets what it sent stored whole: ResumeUpload keeps          *)
(* ListedIsWritten and StoredWhole, for any number of uploads, chunks,     *)
(* requests, crashes and restarts.                                         *)
(***************************************************************************)
EXTENDS ResumeUpload, FiniteSetTheorems, TLAPS

Content(f, u) == IF u \in DOMAIN f THEN f[u] ELSE {}

\* What holds of a dictionary of sessions wherever it is kept: it lists only what
\* the files hold.  The parameters are used, clean, dirs and files.
Backed(d, U, C, D, f) ==
  /\ DOMAIN d \subseteq U
  /\ \A u \in DOMAIN d \cap C :
       /\ d[u].repeated = 0
       /\ u \in D => d[u].chunks \subseteq Content(f, u)

\* What holds of a task on its own.
Sends(r) == r.at \in {"open", "write", "list"}
Creating(r) == r.at = "open" /\ r.creates

Sound(r, U, C, D, f) ==
  /\ r.at \notin {"idle", "save", "saving"} => r.upload \in U
  /\ Backed(r.snapshot, U, C, D, f)
  /\ r.upload \in C \cap D =>
       /\ Sends(r) /\ ~Creating(r) => r.upload \in DOMAIN f
       /\ r.at = "list" => r.chunk \in Content(f, r.upload)
       /\ r.at = "read" => Content(f, r.upload) = Chunks
  /\ r.upload \in C /\ r.at \in {"put", "cleanup"} => r.body = Chunks

Disk == DOMAIN files \subseteq dirs /\ dirs \subseteq used

Dicts ==
  /\ Backed(sessions, used, clean, dirs, files)
  /\ Backed(saved.sessions, used, clean, dirs, files)

AllSound == \A t \in Tasks : Sound(task[t], used, clean, dirs, files)

\* A task about to create the file is the only one that sends, and tasks that
\* send at one time send different chunks, none of them listed.
Apart ==
  \A t \in Tasks : Sends(task[t]) /\ task[t].upload \in clean =>
    /\ task[t].upload \in DOMAIN sessions =>
         task[t].chunk \notin sessions[task[t].upload].chunks
    /\ task[t].upload \in dirs /\ Creating(task[t]) =>
         task[t].upload \notin DOMAIN files
    /\ \A o \in Tasks \ {t} : Sends(task[o]) /\ task[o].upload = task[t].upload =>
         /\ task[o].chunk # task[t].chunk
         /\ task[t].upload \in dirs => ~Creating(task[t])

UInv == TypeOK /\ Disk /\ Dicts /\ AllSound /\ Apart /\ StoredWhole

-----------------------------------------------------------------------------
LEMMA IdleTyped ==
  /\ IsTask(Idle)
  /\ Partial(NoSessions, Session)
  BY UploadAssumption DEF IsTask, Idle, Partial, NoSessions, Chunks

\* A task at rest, or about to save what it may.
LEMMA IdleSound ==
  ASSUME NEW U, NEW C, NEW D, NEW f PROVE Sound(Idle, U, C, D, f)
  BY DEF Sound, Idle, Backed, NoSessions, Sends, Creating

LEMMA SaverSound ==
  ASSUME NEW U, NEW C, NEW D, NEW f, NEW d, Backed(d, U, C, D, f),
         NEW r, r = [Idle EXCEPT !.at = "save", !.snapshot = d]
  PROVE  Sound(r, U, C, D, f)
  <1>1. r.at = "save" /\ r.snapshot = d
    BY DEF Idle
  <1> QED
    BY <1>1 DEF Sound, Sends, Creating

LEMMA PutTyped ==
  ASSUME NEW S, NEW f, Partial(f, S), NEW u \in Uploads, NEW x \in S
  PROVE  Partial(Put(f, u, x), S)
  BY DEF Partial, Put

LEMMA WithoutTyped ==
  ASSUME NEW S, NEW f, Partial(f, S), NEW u PROVE Partial(Without(f, u), S)
  BY DEF Partial, Without

\* How a step may change the disk without doing harm to what was backed by it.
Grows ==
  /\ used \subseteq used'
  /\ clean' \subseteq clean
  /\ \A u \in used \cap clean' \cap dirs' :
       /\ u \in dirs
       /\ u \in DOMAIN files => u \in DOMAIN files'
       /\ Content(files, u) \subseteq Content(files', u)

LEMMA StaysBacked ==
  ASSUME Grows, NEW d, Backed(d, used, clean, dirs, files)
  PROVE  Backed(d, used', clean', dirs', files')
  BY DEF Grows, Backed

LEMMA StaysSound ==
  ASSUME Grows, TypeOK', NEW r, Sound(r, used, clean, dirs, files), DOMAIN files' \subseteq Uploads
  PROVE  Sound(r, used', clean', dirs', files')
  <1> DEFINE u == r.upload
  <1>1. Backed(r.snapshot, used', clean', dirs', files')
    BY StaysBacked DEF Sound
  <1>2. r.at \notin {"idle", "save", "saving"} => u \in used'
    BY DEF Sound, Grows
  <1>3. ASSUME u \in clean' \cap dirs',
               r.at \notin {"idle", "save", "saving"}
        PROVE  /\ Sends(r) /\ ~Creating(r) => u \in DOMAIN files'
               /\ r.at = "list" => r.chunk \in Content(files', u)
               /\ r.at = "read" => Content(files', u) = Chunks
    <2>1. /\ u \in clean \cap dirs
          /\ u \in DOMAIN files => u \in DOMAIN files'
          /\ Content(files, u) \subseteq Content(files', u)
      BY <1>3 DEF Sound, Grows
    <2>2. Content(files', u) \subseteq Chunks
      BY DEF Content, TypeOK, Partial
    <2> QED
      BY <2>1, <2>2 DEF Sound
  <1>4. u \in clean' /\ r.at \in {"put", "cleanup"} => r.body = Chunks
    BY DEF Sound, Grows
  <1> QED
    BY <1>1, <1>2, <1>3, <1>4 DEF Sound, Sends

-----------------------------------------------------------------------------
\* What saving does to a task: it forgets everything but the dictionary.
LEMMA SaverTyped ==
  ASSUME NEW t \in Tasks, NEW now, Partial(now, Session), DOMAIN task = Tasks,
         \A o \in Tasks : IsTask(task[o]), BeginSave(t, now)
  PROVE  /\ Partial(sessions', Session) /\ alone' \in BOOLEAN
         /\ DOMAIN task' = Tasks /\ \A o \in Tasks : IsTask(task'[o])
  <1>1. IsTask([Idle EXCEPT !.at = "save", !.snapshot = now])
    BY IdleTyped DEF IsTask, Idle
  <1> QED
    BY <1>1 DEF BeginSave

LEMMA RemoveTyped ==
  ASSUME TypeOK, NEW t \in Tasks, NEW u \in Uploads, Remove(t, u) PROVE TypeOK'
  <1>1. Partial(Without(sessions, u), Session) /\ Partial(files', SUBSET Chunks)
    BY WithoutTyped DEF Remove, TypeOK
  <1>2. /\ Partial(sessions', Session) /\ alone' \in BOOLEAN
        /\ DOMAIN task' = Tasks /\ \A o \in Tasks : IsTask(task'[o])
    BY <1>1, SaverTyped DEF Remove, TypeOK
  <1> QED
    BY <1>1, <1>2 DEF Remove, TypeOK

\* A task that goes on to another place keeps its type.
LEMMA GotoTyped ==
  ASSUME TypeOK, NEW t \in Tasks, NEW place \in {"write", "list", "saving", "cleanup"},
         Goto(t, place)
  PROVE  DOMAIN task' = Tasks /\ \A o \in Tasks : IsTask(task'[o])
  <1>1. IsTask([task[t] EXCEPT !.at = place])
    BY DEF TypeOK, IsTask
  <1> QED
    BY <1>1 DEF Goto, TypeOK

LEMMA EndTyped ==
  ASSUME TypeOK, NEW t \in Tasks, End(t)
  PROVE  DOMAIN task' = Tasks /\ \A o \in Tasks : IsTask(task'[o])
  BY IdleTyped DEF End, TypeOK

LEMMA StepTyped ==
  ASSUME TypeOK, NEW t \in Tasks, Step(t) \/ PutFails(t) PROVE TypeOK'
  <1>a. IsTask(task[t])
    BY DEF TypeOK
  <1>u. /\ task[t].upload \in Uploads /\ task[t].chunk \in Chunks
        /\ task[t].body \in SUBSET Chunks /\ Partial(task[t].snapshot, Session)
    BY <1>a DEF IsTask
  <1>1. CASE Open(t)
    <2>1. Partial(files', SUBSET Chunks)
      BY <1>1, <1>u, PutTyped DEF Open, TypeOK
    <2> QED
      BY <1>1, <2>1, GotoTyped DEF Open, TypeOK, history
  <1>2. CASE OpenFails(t)
    BY <1>2, EndTyped DEF OpenFails, TypeOK, history, disk
  <1>3. CASE Write(t)
    <2>1. Partial(files', SUBSET Chunks)
      BY <1>3, <1>u DEF Write, TypeOK, Partial
    <2> QED
      BY <1>3, <2>1, GotoTyped DEF Write, TypeOK, history
  <1>4. CASE List(t)
    <2>1. ASSUME NEW u \in DOMAIN sessions
          PROVE  Listed(sessions[u], task[t].chunk) \in Session
      <3>1. sessions[u] \in Session
        BY DEF TypeOK, Partial
      <3> QED
        BY <3>1, <1>u DEF Listed, Session
    <2>2. Partial(IF task[t].upload \in DOMAIN sessions
                    THEN [sessions EXCEPT ![task[t].upload] = Listed(@, task[t].chunk)]
                    ELSE sessions, Session)
      BY <2>1 DEF TypeOK, Partial
    <2>3. /\ Partial(sessions', Session) /\ alone' \in BOOLEAN
          /\ DOMAIN task' = Tasks /\ \A o \in Tasks : IsTask(task'[o])
      BY <1>4, <2>2, SaverTyped DEF List, TypeOK
    <2> QED
      BY <1>4, <2>3 DEF List, TypeOK, disk
  <1>5. CASE OpenSave(t)
    BY <1>5, IdleTyped, GotoTyped DEF OpenSave, TypeOK, history, disk
  <1>6. CASE WriteSave(t)
    BY <1>6, <1>u, IdleTyped, EndTyped DEF WriteSave, TypeOK, history, disk
  <1>7. CASE Read(t)
    <2>1. DOMAIN task' = Tasks /\ \A o \in Tasks : IsTask(task'[o])
      <3>1. CASE task[t].upload \in DOMAIN files
        <4>1. IsTask([task[t] EXCEPT !.at = "put", !.body = files[task[t].upload]])
          BY <1>a, <3>1 DEF IsTask, TypeOK, Partial
        <4> QED
          BY <1>7, <3>1, <4>1 DEF Read, TypeOK
      <3>2. CASE task[t].upload \notin DOMAIN files
        BY <1>7, <3>2, EndTyped DEF Read
      <3> QED
        BY <3>1, <3>2
    <2> QED
      BY <1>7, <2>1 DEF Read, TypeOK, history, disk
  <1>8. CASE PutObject(t)
    <2>1. Partial(stored', SUBSET Chunks)
      BY <1>8, <1>u, PutTyped DEF PutObject, TypeOK
    <2> QED
      BY <1>8, <2>1, GotoTyped DEF PutObject, TypeOK, history, disk
  <1>9. CASE Cleanup(t)
    <2>1. CASE task[t].upload \in DOMAIN sessions
      BY <1>9, <1>u, <2>1, RemoveTyped DEF Cleanup
    <2>2. CASE task[t].upload \notin DOMAIN sessions
      BY <1>9, <2>2, EndTyped DEF Cleanup, TypeOK, history, disk
    <2> QED
      BY <2>1, <2>2
  <1>10. CASE PutFails(t)
    BY <1>10, EndTyped, UploadAssumption DEF PutFails, Fault, TypeOK, history, disk
  <1> QED
    BY <1>1, <1>2, <1>3, <1>4, <1>5, <1>6, <1>7, <1>8, <1>9, <1>10 DEF Step

LEMMA LoadedTyped == ASSUME TypeOK PROVE Partial(Loaded(saved), Session)
  BY IdleTyped DEF TypeOK, Partial, Loaded

LEMMA NextTyped == TypeOK /\ [Next]_vars => TypeOK'
  <1> SUFFICES ASSUME TypeOK, [Next]_vars PROVE TypeOK'
    OBVIOUS
  <1>1. ASSUME NEW t \in Tasks, Step(t) \/ PutFails(t) PROVE TypeOK'
    BY <1>1, StepTyped
  <1>2. ASSUME NEW t \in Requests, NEW u \in Uploads, Create(t, u) PROVE TypeOK'
    <2>1. Partial(Put(sessions, u, [chunks |-> {}, repeated |-> 0]), Session)
      BY PutTyped DEF TypeOK, Session
    <2>2. /\ Partial(sessions', Session) /\ alone' \in BOOLEAN
          /\ DOMAIN task' = Tasks /\ \A o \in Tasks : IsTask(task'[o])
      BY <1>2, <2>1, SaverTyped DEF Create, TypeOK, Tasks
    <2> QED
      BY <1>2, <2>2 DEF Create, TypeOK
  <1>3. ASSUME NEW t \in Requests, NEW u \in Uploads, NEW i \in Chunks,
               BeginChunk(t, u, i)
        PROVE  TypeOK'
    <2>1. IsTask([Idle EXCEPT !.at = "open", !.upload = u, !.chunk = i,
                              !.creates = u \notin DOMAIN files])
      BY IdleTyped DEF IsTask, Idle
    <2>2. DOMAIN task' = Tasks /\ \A o \in Tasks : IsTask(task'[o])
      BY <1>3, <2>1 DEF BeginChunk, TypeOK, Tasks
    <2> QED
      BY <1>3, <2>2 DEF BeginChunk, TypeOK, disk
  <1>4. ASSUME NEW t \in Requests, NEW u \in Uploads, BeginComplete(t, u) PROVE TypeOK'
    <2>1. IsTask([Idle EXCEPT !.at = "read", !.upload = u])
      BY IdleTyped DEF IsTask, Idle
    <2>2. DOMAIN task' = Tasks /\ \A o \in Tasks : IsTask(task'[o])
      BY <1>4, <2>1 DEF BeginComplete, TypeOK, Tasks
    <2> QED
      BY <1>4, <2>2 DEF BeginComplete, TypeOK, disk, history
  <1>5. ASSUME NEW t \in Requests, NEW u \in Uploads, Abort(t, u) PROVE TypeOK'
    BY <1>5, RemoveTyped DEF Abort, Tasks
  <1>6. ASSUME NEW u \in Uploads, Sweep(u) PROVE TypeOK'
    BY <1>6, RemoveTyped DEF Sweep, Tasks
  <1>7. ASSUME NEW u \in Uploads, Expire(u) PROVE TypeOK'
    BY <1>7 DEF Expire, TypeOK, disk, history
  <1>8. CASE Crash
    BY <1>8, IdleTyped, LoadedTyped, UploadAssumption DEF Crash, Fault, TypeOK, disk
  <1>9. CASE Restart
    <2>1. Partial(sessions', Session)
      BY <1>9, IdleTyped DEF Restart, Loaded, TypeOK, Partial
    <2> QED
      BY <1>9, <2>1, IdleTyped, UploadAssumption DEF Restart, Fault, TypeOK, disk
  <1>10. CASE UNCHANGED vars
    BY <1>10 DEF vars, TypeOK, disk, history
  <1> QED
    BY <1>1, <1>2, <1>3, <1>4, <1>5, <1>6, <1>7, <1>8, <1>9, <1>10 DEF Next

-----------------------------------------------------------------------------
LEMMA InitInv == Init => UInv
  <1> SUFFICES ASSUME Init PROVE UInv
    OBVIOUS
  <1>1. TypeOK
    BY IdleTyped, UploadAssumption DEF Init, TypeOK, Partial
  <1>2. AllSound
    BY IdleSound DEF Init, AllSound
  <1>3. Disk /\ Dicts /\ StoredWhole
    BY DEF Init, Disk, Dicts, Backed, NoSessions, StoredWhole
  <1>4. Apart
    BY DEF Init, Apart, Sends, Idle
  <1> QED
    BY <1>1, <1>2, <1>3, <1>4 DEF UInv

\* No step of a disciplined client takes a chunk out of a file: only a task that
\* is alone creates one.
LEMMA RemoveGrows ==
  ASSUME UInv, NEW t, NEW u, Remove(t, u) PROVE Grows /\ Disk'
  BY DEF Remove, Without, Grows, Disk, Content, UInv

LEMMA NextGrows == UInv /\ [Next]_vars => Grows /\ Disk'
  <1> SUFFICES ASSUME UInv, [Next]_vars PROVE Grows /\ Disk'
    OBVIOUS
  <1>q. ASSUME UNCHANGED <<used, disk>>, clean' \subseteq clean PROVE Grows /\ Disk'
    BY <1>q DEF Grows, Disk, Content, disk, UInv
  <1>1. ASSUME NEW t \in Tasks, Step(t) \/ PutFails(t) PROVE Grows /\ Disk'
    <2>s. /\ Sound(task[t], used, clean, dirs, files)
          /\ task[t].at = "open" => task[t].upload \in used
      BY DEF UInv, AllSound, Sound
    <2>1. CASE Open(t)
      <3>1. Disk'
        BY <2>1 DEF Open, Put, Disk, UInv
      <3>2. ASSUME NEW u \in clean, u = task[t].upload, task[t].creates
            PROVE  u \notin DOMAIN files
        BY <2>1, <3>2 DEF Open, UInv, Apart, Sends, Creating
      <3> QED
        BY <2>1, <3>1, <3>2 DEF Open, Put, Grows, Content, history
    <2>2. CASE Write(t)
      BY <2>2 DEF Write, Grows, Disk, Content, history, UInv
    <2>3. CASE Cleanup(t)
      BY <1>q, <2>3, RemoveGrows DEF Cleanup, history
    <2>4. CASE OpenFails(t) \/ List(t) \/ OpenSave(t) \/ WriteSave(t)
               \/ Read(t) \/ PutObject(t) \/ PutFails(t)
      BY <1>q, <2>4 DEF OpenFails, List, OpenSave, WriteSave, Read, PutObject,
                        PutFails, history
    <2> QED
      BY <1>1, <2>1, <2>2, <2>3, <2>4 DEF Step
  <1>2. ASSUME NEW t \in Requests, NEW u \in Uploads, Create(t, u)
        PROVE  Grows /\ Disk'
    BY <1>2 DEF Create, Grows, Disk, Content, UInv
  <1>3. ASSUME NEW t \in Requests, NEW u \in Uploads,
               \/ \E i \in Chunks : BeginChunk(t, u, i)
               \/ BeginComplete(t, u)
        PROVE  Grows /\ Disk'
    BY <1>3, <1>q DEF BeginChunk, BeginComplete, history
  <1>4. ASSUME NEW t \in Requests, NEW u \in Uploads, Abort(t, u)
        PROVE  Grows /\ Disk'
    BY <1>4, RemoveGrows DEF Abort
  <1>5. ASSUME NEW u \in Uploads, Sweep(u) PROVE Grows /\ Disk'
    BY <1>5, RemoveGrows DEF Sweep
  <1>6. ASSUME NEW u \in Uploads, Expire(u) PROVE Grows /\ Disk'
    BY <1>6, <1>q DEF Expire, history
  <1>7. CASE Crash \/ Restart \/ UNCHANGED vars
    BY <1>7, <1>q DEF Crash, Restart, vars, history
  <1> QED
    BY <1>1, <1>2, <1>3, <1>4, <1>5, <1>6, <1>7 DEF Next

\* Loading or saving what is backed gives what is backed.
LEMMA LoadedBacked ==
  ASSUME NEW d, NEW e, NEW U, NEW C, NEW D, NEW f, Backed(d, U, C, D, f)
  PROVE  /\ Backed([u \in DOMAIN d \ e |-> d[u]], U, C, D, f)
         /\ Backed(NoSessions, U, C, D, f)
  BY DEF Backed, NoSessions

LEMMA WithoutBacked ==
  ASSUME NEW d, NEW v, NEW U, NEW C, NEW D, NEW f, Backed(d, U, C, D, f)
  PROVE  Backed(Without(d, v), U, C, D, f)
  BY DEF Backed, Without

\* What a task adds to the list is in the file and was not in the list.
LEMMA ListBacked ==
  ASSUME UInv, NEW t \in Tasks, List(t)
  PROVE  Backed(sessions', used, clean, dirs, files)
  <1> DEFINE v == task[t].upload
             i == task[t].chunk
  <1>1. CASE v \notin DOMAIN sessions
    BY <1>1 DEF List, BeginSave, UInv, Dicts
  <1>2. CASE v \in DOMAIN sessions
    <2>1. sessions' = [sessions EXCEPT ![v] = Listed(sessions[v], i)]
      BY <1>2 DEF List, BeginSave
    <2>2. v \in clean => i \notin sessions[v].chunks
      BY <1>2 DEF List, UInv, Apart, Sends
    <2>3. v \in clean \cap dirs => i \in Content(files, v)
      BY DEF List, UInv, AllSound, Sound
    <2>4. sessions[v] \in Session
      BY <1>2 DEF UInv, TypeOK, Partial
    <2>5. v \in clean => /\ Listed(sessions[v], i).repeated = sessions[v].repeated
                         /\ Listed(sessions[v], i).chunks = sessions[v].chunks \cup {i}
      BY <2>2, <2>4 DEF Listed, Session
    <2> QED
      BY <1>2, <2>1, <2>3, <2>5 DEF UInv, Dicts, Backed
  <1> QED
    BY <1>1, <1>2

\* Every step leaves both dictionaries backed: memory and session file.
LEMMA NextDicts == UInv /\ [Next]_vars => Dicts'
  <1> SUFFICES ASSUME UInv, [Next]_vars PROVE Dicts'
    OBVIOUS
  <1> DEFINE B(d) == Backed(d, used, clean, dirs, files)
             BNext(d) == Backed(d, used', clean', dirs', files')
  <1>g. Grows
    BY NextGrows
  <1>b. ASSUME NEW d, B(d) PROVE BNext(d)
    BY <1>b, <1>g, StaysBacked
  <1>d. B(sessions) /\ B(saved.sessions) /\ \A t \in Tasks : B(task[t].snapshot)
    BY DEF UInv, Dicts, AllSound, Sound
  <1>e. B(NoSessions)
    BY DEF Backed, NoSessions
  <1>q. SUFFICES BNext(sessions') /\ BNext(saved'.sessions)
    BY DEF Dicts
  <1>r. ASSUME NEW t, NEW u, Remove(t, u) PROVE BNext(sessions') /\ BNext(saved'.sessions)
    BY <1>r, <1>b, <1>d, WithoutBacked DEF Remove, BeginSave
  <1>1. ASSUME NEW t \in Tasks, Step(t) \/ PutFails(t)
        PROVE  BNext(sessions') /\ BNext(saved'.sessions)
    <2>1. CASE List(t)
      BY <1>b, <1>d, <2>1, ListBacked DEF List
    <2>2. CASE OpenSave(t)
      BY <1>b, <1>d, <1>e, <2>2 DEF OpenSave
    <2>3. CASE WriteSave(t)
      BY <1>b, <1>d, <1>e, <2>3 DEF WriteSave
    <2>4. CASE Cleanup(t)
      BY <1>b, <1>d, <1>r, <2>4 DEF Cleanup
    <2>5. CASE Open(t) \/ OpenFails(t) \/ Write(t) \/ Read(t) \/ PutObject(t) \/ PutFails(t)
      BY <1>b, <1>d, <2>5 DEF Open, OpenFails, Write, Read, PutObject, PutFails
    <2> QED
      BY <1>1, <2>1, <2>2, <2>3, <2>4, <2>5 DEF Step
  <1>2. ASSUME NEW t \in Requests, NEW u \in Uploads, Create(t, u)
        PROVE  BNext(sessions') /\ BNext(saved'.sessions)
    <2>1. sessions' = Put(sessions, u, [chunks |-> {}, repeated |-> 0])
      BY <1>2 DEF Create, BeginSave
    <2>2. BNext(sessions)
      BY <1>b, <1>d
    <2>3. BNext(sessions')
      BY <1>2, <2>1, <2>2 DEF Create, Put, Backed
    <2> QED
      BY <1>2, <1>b, <1>d, <2>3 DEF Create
  <1>3. ASSUME NEW t \in Requests, NEW u \in Uploads,
               \/ \E i \in Chunks : BeginChunk(t, u, i)
               \/ BeginComplete(t, u)
        PROVE  BNext(sessions') /\ BNext(saved'.sessions)
    BY <1>3, <1>b, <1>d DEF BeginChunk, BeginComplete
  <1>4. ASSUME NEW t \in Requests, NEW u \in Uploads, Abort(t, u)
        PROVE  BNext(sessions') /\ BNext(saved'.sessions)
    BY <1>4, <1>r DEF Abort
  <1>5. ASSUME NEW u \in Uploads, Sweep(u)
        PROVE  BNext(sessions') /\ BNext(saved'.sessions)
    BY <1>5, <1>r DEF Sweep
  <1>6. ASSUME NEW u \in Uploads, Expire(u)
        PROVE  BNext(sessions') /\ BNext(saved'.sessions)
    BY <1>6, <1>b, <1>d DEF Expire
  <1>7. CASE Crash
    BY <1>7, <1>b, <1>d, <1>e, LoadedBacked DEF Crash, Loaded
  <1>8. CASE Restart
    BY <1>8, <1>b, <1>d, <1>e, LoadedBacked DEF Restart, Loaded
  <1>9. CASE UNCHANGED vars
    BY <1>9, <1>b, <1>d DEF vars
  <1> QED
    BY <1>1, <1>2, <1>3, <1>4, <1>5, <1>6, <1>7, <1>8, <1>9 DEF Next

-----------------------------------------------------------------------------
\* If one task changes and is sound afterwards, all are.
LEMMA OneSound ==
  ASSUME UInv, Grows, TypeOK', NEW t \in Tasks, NEW r, task' = [task EXCEPT ![t] = r],
         Sound(r, used', clean', dirs', files')
  PROVE  AllSound'
  BY StaysSound DEF AllSound, UInv, TypeOK, Partial

LEMMA SaverAllSound ==
  ASSUME UInv, Grows, TypeOK', NEW t \in Tasks, NEW d, BeginSave(t, d), Dicts'
  PROVE  AllSound'
  <1> DEFINE r == [Idle EXCEPT !.at = "save", !.snapshot = d]
  <1>1. d = sessions' /\ task' = [task EXCEPT ![t] = r]
    BY DEF BeginSave
  <1>2. Sound(r, used', clean', dirs', files')
    BY <1>1, SaverSound DEF Dicts
  <1> QED
    BY <1>1, <1>2, OneSound

\* A complete list of a disciplined client is a file with every chunk.
LEMMA CompleteIsWhole ==
  ASSUME UInv, NEW t, NEW u \in Uploads, BeginComplete(t, u), u \in clean
  PROVE  Content(files, u) = Chunks
  <1>1. u \in DOMAIN sessions /\ u \in DOMAIN files /\ u \in dirs
    BY DEF BeginComplete, UInv, Disk
  <1>2. sessions[u].repeated = 0 /\ sessions[u].chunks \subseteq Content(files, u)
    BY <1>1 DEF UInv, Dicts, Backed
  <1>3. sessions[u].chunks \in SUBSET Chunks /\ Content(files, u) \subseteq Chunks
    BY <1>1 DEF UInv, TypeOK, Partial, Session, Content
  <1>4. IsFiniteSet(Chunks) /\ Cardinality(Chunks) = LastChunk + 1
    BY UploadAssumption, FS_Interval DEF Chunks
  <1>5. Cardinality(sessions[u].chunks) \in Nat
    BY <1>3, <1>4, FS_Subset, FS_CardinalityType
  <1>6. Cardinality(sessions[u].chunks) = LastChunk + 1
    BY <1>2, <1>5, UploadAssumption DEF BeginComplete, Full
  <1>7. sessions[u].chunks = Chunks
    BY <1>3, <1>4, <1>6, FS_Subset
  <1> QED
    BY <1>2, <1>3, <1>7

LEMMA NextSound == UInv /\ [Next]_vars => AllSound'
  <1> SUFFICES ASSUME UInv, [Next]_vars PROVE AllSound'
    OBVIOUS
  <1>g. Grows /\ TypeOK' /\ Dicts'
    BY NextGrows, NextTyped, NextDicts DEF UInv
  <1>s. \A t \in Tasks : Sound(task[t], used', clean', dirs', files')
    BY <1>g, StaysSound DEF UInv, AllSound, TypeOK, Partial
  <1>e. ASSUME NEW t \in Tasks, End(t) PROVE AllSound'
    BY <1>e, <1>g, IdleSound, OneSound DEF End
  <1>r. ASSUME NEW t \in Tasks, NEW u, Remove(t, u) PROVE AllSound'
    BY <1>r, <1>g, SaverAllSound DEF Remove
  <1>q. ASSUME UNCHANGED task PROVE AllSound'
    BY <1>q, <1>s DEF AllSound
  <1>t. \A t \in Tasks : IsTask(task[t])
    BY DEF UInv, TypeOK
  <1>1. ASSUME NEW t \in Tasks, Step(t) \/ PutFails(t) PROVE AllSound'
    <2> DEFINE u == task[t].upload
               At(place) == [task[t] EXCEPT !.at = place]
    <2>t. \A place : /\ At(place).at = place
                     /\ At(place).upload = u
                     /\ At(place).chunk = task[t].chunk
                     /\ At(place).creates = task[t].creates
                     /\ At(place).snapshot = task[t].snapshot
                     /\ At(place).body = task[t].body
      BY <1>t DEF IsTask, Idle
    <2>s. Sound(task[t], used', clean', dirs', files')
      BY <1>s
    <2>1. CASE Open(t)
      <3>1. u \in clean' \cap dirs' => u \in DOMAIN files'
        BY <2>1, <2>s DEF Open, Sound, Sends, Creating, Put
      <3>2. Sound(At("write"), used', clean', dirs', files')
        BY <2>1, <2>s, <2>t, <3>1 DEF Open, Sound, Sends, Creating
      <3> QED
        BY <1>g, <2>1, <3>2, OneSound DEF Open, Goto
    <2>2. CASE Write(t)
      <3>1. u \in clean' \cap dirs' => /\ u \in DOMAIN files'
                                     /\ task[t].chunk \in Content(files', u)
        BY <2>2, <2>s DEF Write, Sound, Sends, Creating, Content
      <3>2. Sound(At("list"), used', clean', dirs', files')
        BY <2>2, <2>s, <2>t, <3>1 DEF Write, Sound, Sends, Creating
      <3> QED
        BY <1>g, <2>2, <3>2, OneSound DEF Write, Goto
    <2>3. CASE List(t)
      BY <1>g, <2>3, SaverAllSound DEF List
    <2>4. CASE OpenSave(t)
      <3>1. Sound(At("saving"), used', clean', dirs', files')
        BY <2>4, <2>s, <2>t DEF OpenSave, Sound, Sends, Creating
      <3> QED
        BY <1>g, <2>4, <3>1, OneSound DEF OpenSave, Goto
    <2>5. CASE Read(t)
      <3>1. CASE u \in DOMAIN files
        <4> DEFINE r == [task[t] EXCEPT !.at = "put", !.body = files[u]]
        <4>1. /\ r.at = "put" /\ r.upload = u /\ r.snapshot = task[t].snapshot
              /\ r.body = files[u]
          BY <1>t DEF IsTask, Idle
        <4>2. u \in clean' => files[u] = Chunks
          BY <2>5, <3>1 DEF Read, UInv, AllSound, Disk, Sound, Content, history
        <4>3. Sound(r, used', clean', dirs', files')
          BY <2>5, <2>s, <4>1, <4>2 DEF Read, Sound, Sends
        <4> QED
          BY <1>g, <2>5, <3>1, <4>3, OneSound DEF Read
      <3>2. CASE u \notin DOMAIN files
        BY <1>e, <2>5, <3>2 DEF Read
      <3> QED
        BY <3>1, <3>2
    <2>6. CASE PutObject(t)
      <3>1. Sound(At("cleanup"), used', clean', dirs', files')
        BY <2>6, <2>s, <2>t DEF PutObject, Sound, Sends
      <3> QED
        BY <1>g, <2>6, <3>1, OneSound DEF PutObject, Goto
    <2>7. CASE Cleanup(t)
      BY <1>e, <1>r, <2>7 DEF Cleanup
    <2>8. CASE OpenFails(t) \/ WriteSave(t) \/ PutFails(t)
      BY <1>e, <2>8 DEF OpenFails, WriteSave, PutFails
    <2> QED
      BY <1>1, <2>1, <2>2, <2>3, <2>4, <2>5, <2>6, <2>7, <2>8 DEF Step
  <1>2. ASSUME NEW t \in Requests, NEW u \in Uploads, Create(t, u) PROVE AllSound'
    BY <1>2, <1>g, SaverAllSound DEF Create, Tasks
  <1>3. ASSUME NEW t \in Requests, NEW u \in Uploads, NEW i \in Chunks,
               BeginChunk(t, u, i)
        PROVE  AllSound'
    <2> DEFINE r == [Idle EXCEPT !.at = "open", !.upload = u, !.chunk = i,
                                 !.creates = u \notin DOMAIN files]
    <2>1. /\ r.at = "open" /\ r.upload = u /\ r.snapshot = NoSessions
          /\ r.creates = (u \notin DOMAIN files)
      BY DEF Idle
    <2>2. u \in used' /\ DOMAIN files' = DOMAIN files
      BY <1>3 DEF BeginChunk, UInv, Dicts, Backed, disk
    <2>3. Backed(NoSessions, used', clean', dirs', files')
      BY DEF Backed, NoSessions
    <2>4. Sound(r, used', clean', dirs', files')
      BY <2>1, <2>2, <2>3 DEF Sound, Sends, Creating
    <2> QED
      BY <1>3, <1>g, <2>4, OneSound DEF BeginChunk, Tasks
  <1>4. ASSUME NEW t \in Requests, NEW u \in Uploads, BeginComplete(t, u) PROVE AllSound'
    <2> DEFINE r == [Idle EXCEPT !.at = "read", !.upload = u]
    <2>1. r.at = "read" /\ r.upload = u /\ r.snapshot = NoSessions
      BY DEF Idle
    <2>2. u \in used' /\ (u \in clean' => Content(files', u) = Chunks)
      BY <1>4, CompleteIsWhole
      DEF BeginComplete, UInv, Dicts, Backed, disk, history, Content
    <2>3. Backed(NoSessions, used', clean', dirs', files')
      BY DEF Backed, NoSessions
    <2>4. Sound(r, used', clean', dirs', files')
      BY <2>1, <2>2, <2>3 DEF Sound, Sends
    <2> QED
      BY <1>4, <1>g, <2>4, OneSound DEF BeginComplete, Tasks
  <1>5. ASSUME NEW t \in Requests, NEW u \in Uploads, Abort(t, u) PROVE AllSound'
    BY <1>5, <1>r DEF Abort, Tasks
  <1>6. ASSUME NEW u \in Uploads, Sweep(u) PROVE AllSound'
    BY <1>6, <1>r DEF Sweep, Tasks
  <1>7. ASSUME NEW u \in Uploads, Expire(u) PROVE AllSound'
    BY <1>7, <1>q DEF Expire
  <1>8. CASE Crash \/ Restart
    BY <1>8, IdleSound DEF Crash, Restart, AllSound
  <1>9. CASE UNCHANGED vars
    BY <1>9, <1>q DEF vars
  <1> QED
    BY <1>1, <1>2, <1>3, <1>4, <1>5, <1>6, <1>7, <1>8, <1>9 DEF Next

-----------------------------------------------------------------------------
\* Apart speaks of what is in progress: it stays true while tasks go on, and the
\* only steps that could break it are a new chunk and the end of one.
LEMMA ApartStays ==
  ASSUME UInv, clean' \subseteq clean, dirs' \subseteq dirs \cup (used' \ used),
         NEW t \in Tasks, NEW r, task' = [task EXCEPT ![t] = r],
         Sends(r) => /\ Sends(task[t]) /\ r.upload = task[t].upload
                     /\ r.chunk = task[t].chunk
                     /\ Creating(r) => Creating(task[t]),
         \A u \in DOMAIN sessions' \ DOMAIN sessions : u \notin used,
         \A o \in Tasks, u \in DOMAIN sessions' \cap DOMAIN sessions :
           Sends(task'[o]) /\ u = task[o].upload /\ u \in clean =>
             task[o].chunk \notin sessions'[u].chunks,
         \A o \in Tasks \ {t} : Creating(task[o]) /\ task[o].upload \in clean \cap dirs =>
           task[o].upload \notin DOMAIN files' \ DOMAIN files,
         Creating(r) => DOMAIN files' \subseteq DOMAIN files
  PROVE  Apart'
  <1> SUFFICES ASSUME NEW o \in Tasks, Sends(task'[o]), task'[o].upload \in clean'
               PROVE  /\ task'[o].upload \in DOMAIN sessions' =>
                           task'[o].chunk \notin sessions'[task'[o].upload].chunks
                      /\ task'[o].upload \in dirs' /\ Creating(task'[o]) =>
                           task'[o].upload \notin DOMAIN files'
                      /\ \A p \in Tasks \ {o} :
                           Sends(task'[p]) /\ task'[p].upload = task'[o].upload =>
                             /\ task'[p].chunk # task'[o].chunk
                             /\ task'[o].upload \in dirs' => ~Creating(task'[o])
    BY DEF Apart
  <1>d. DOMAIN task = Tasks
    BY DEF UInv, TypeOK
  <1>1. \A p \in Tasks : Sends(task'[p]) =>
          /\ Sends(task[p]) /\ task'[p].upload = task[p].upload
          /\ task'[p].chunk = task[p].chunk
          /\ Creating(task'[p]) => Creating(task[p])
    BY <1>d
  <1>2. task[o].upload \in used
    BY <1>1 DEF UInv, AllSound, Sound, Sends
  <1>3. task'[o].upload \in dirs' => task[o].upload \in dirs
    BY <1>1, <1>2
  <1>4. Creating(task'[o]) /\ task'[o].upload \in dirs' =>
          task'[o].upload \notin DOMAIN files' \ DOMAIN files
    BY <1>d, <1>1, <1>3
  <1>5. /\ task[o].upload \in dirs /\ Creating(task[o]) => task[o].upload \notin DOMAIN files
        /\ \A p \in Tasks \ {o} : Sends(task[p]) /\ task[p].upload = task[o].upload =>
             /\ task[p].chunk # task[o].chunk
             /\ task[o].upload \in dirs => ~Creating(task[o])
    BY <1>1 DEF UInv, Apart
  <1>6. task'[o].upload \in DOMAIN sessions' =>
          task'[o].chunk \notin sessions'[task'[o].upload].chunks
    BY <1>1, <1>2
  <1> QED
    BY <1>1, <1>3, <1>4, <1>5, <1>6

\* A task that sends nothing afterwards, while files and sessions only go away.
LEMMA ApartWhenDone ==
  ASSUME UInv, clean' = clean, dirs' \subseteq dirs, DOMAIN files' \subseteq DOMAIN files,
         NEW t \in Tasks, NEW r, task' = [task EXCEPT ![t] = r], ~Sends(r),
         DOMAIN sessions' \subseteq DOMAIN sessions,
         \A u \in DOMAIN sessions' : sessions'[u] = sessions[u]
  PROVE  Apart'
  <1>1. \A o \in Tasks, u \in DOMAIN sessions' \cap DOMAIN sessions :
          Sends(task'[o]) /\ u = task[o].upload /\ u \in clean =>
            task[o].chunk \notin sessions'[u].chunks
    BY DEF UInv, Apart, TypeOK
  <1>2. ~Creating(r)
    BY DEF Sends, Creating
  <1> QED
    BY <1>1, <1>2, ApartStays

LEMMA IdleSendsNot ==
  /\ ~Sends(Idle)
  /\ \A d : ~Sends([Idle EXCEPT !.at = "save", !.snapshot = d])
  BY DEF Sends, Idle

\* The list grows by what its task sent, which no other task sends.
LEMMA ListApart ==
  ASSUME UInv, NEW t \in Tasks, List(t) PROVE Apart'
  <1> DEFINE v == task[t].upload
             i == task[t].chunk
             r == [Idle EXCEPT !.at = "save", !.snapshot = sessions']
  <1>1. /\ task' = [task EXCEPT ![t] = r] /\ ~Sends(r) /\ ~Creating(r)
        /\ UNCHANGED <<clean, disk>>
    BY IdleSendsNot DEF List, BeginSave, Sends, Creating
  <1>2. DOMAIN sessions' = DOMAIN sessions
    BY DEF List, BeginSave
  <1>3. ASSUME NEW o \in Tasks, NEW u \in DOMAIN sessions, Sends(task'[o]),
               u = task[o].upload, u \in clean
        PROVE  task[o].chunk \notin sessions'[u].chunks
    <2>1. o # t /\ Sends(task[o])
      BY <1>1, <1>3 DEF UInv, TypeOK
    <2>2. task[o].chunk \notin sessions[u].chunks
      BY <1>3, <2>1 DEF UInv, Apart
    <2>3. u = v => task[o].chunk # i
      BY <1>3, <2>1 DEF UInv, Apart, List, Sends
    <2>4. sessions[u] \in Session
      BY DEF UInv, TypeOK, Partial
    <2>5. sessions'[u].chunks = IF u = v THEN sessions[u].chunks \cup {i}
                                         ELSE sessions[u].chunks
      BY <2>4 DEF List, BeginSave, Listed, Session
    <2> QED
      BY <2>2, <2>3, <2>5
  <1> QED
    BY <1>1, <1>2, <1>3, ApartStays DEF disk

\* A disciplined client begins a chunk that none of its tasks sends, and the
\* first one alone.
LEMMA BeginApart ==
  ASSUME UInv, NEW t \in Tasks, NEW v \in Uploads, NEW i \in Chunks, BeginChunk(t, v, i)
  PROVE  Apart'
  <1> DEFINE r == [Idle EXCEPT !.at = "open", !.upload = v, !.chunk = i,
                               !.creates = v \notin DOMAIN files]
  <1>1. /\ task' = [task EXCEPT ![t] = r]
        /\ UNCHANGED <<sessions, files, dirs>> /\ clean' \subseteq clean
        /\ DOMAIN task = Tasks
        /\ v \in DOMAIN sessions /\ i \notin sessions[v].chunks
        /\ v \in clean' => ~Crowded(v, i)
    BY DEF BeginChunk, disk, UInv, TypeOK
  <1>2. /\ r.upload = v /\ r.chunk = i /\ Sends(r)
        /\ Creating(r) <=> v \notin DOMAIN files
    BY DEF Idle, Sends, Creating
  <1>3. ASSUME v \in clean', NEW o \in Tasks \ {t}, Sends(task[o]), task[o].upload = v
        PROVE  /\ task[o].chunk # i
               /\ v \in dirs => v \in DOMAIN files
    <2>1. task[o].chunk # i /\ sessions[v].chunks # {}
      BY <1>1, <1>3 DEF Crowded, Sending, Sends
    <2>2. v \in dirs => sessions[v].chunks \subseteq Content(files, v)
      BY <1>1, <1>3 DEF UInv, Dicts, Backed
    <2> QED
      BY <2>1, <2>2 DEF Content
  <1> SUFFICES ASSUME NEW o \in Tasks, Sends(task'[o]), task'[o].upload \in clean'
               PROVE  /\ task'[o].upload \in DOMAIN sessions =>
                           task'[o].chunk \notin sessions[task'[o].upload].chunks
                      /\ task'[o].upload \in dirs /\ Creating(task'[o]) =>
                           task'[o].upload \notin DOMAIN files
                      /\ \A p \in Tasks \ {o} :
                           Sends(task'[p]) /\ task'[p].upload = task'[o].upload =>
                             /\ task'[p].chunk # task'[o].chunk
                             /\ task'[o].upload \in dirs => ~Creating(task'[o])
    BY <1>1 DEF Apart
  <1>4. CASE o = t
    BY <1>1, <1>2, <1>3, <1>4
  <1>5. CASE o # t
    <2>1. task'[o] = task[o] /\ Sends(task[o]) /\ task[o].upload \in clean
      BY <1>1, <1>5
    <2>2. /\ task[o].upload \in DOMAIN sessions =>
               task[o].chunk \notin sessions[task[o].upload].chunks
          /\ task[o].upload \in dirs /\ Creating(task[o]) =>
               task[o].upload \notin DOMAIN files
          /\ \A p \in Tasks \ {o} : Sends(task[p]) /\ task[p].upload = task[o].upload =>
               /\ task[p].chunk # task[o].chunk
               /\ task[o].upload \in dirs => ~Creating(task[o])
      BY <2>1 DEF UInv, Apart
    <2>3. ASSUME task[o].upload = v
          PROVE  /\ i # task[o].chunk
                 /\ v \in dirs => ~Creating(task[o])
      BY <1>3, <1>5, <2>1, <2>2, <2>3
    <2> QED
      BY <1>1, <1>2, <1>5, <2>1, <2>2, <2>3
  <1> QED
    BY <1>4, <1>5

LEMMA NextApart == UInv /\ [Next]_vars => Apart'
  <1> SUFFICES ASSUME UInv, [Next]_vars PROVE Apart'
    OBVIOUS
  <1>d. DOMAIN task = Tasks /\ \A t \in Tasks : IsTask(task[t])
    BY DEF UInv, TypeOK
  <1>e. ASSUME NEW t \in Tasks, End(t), UNCHANGED <<clean, disk, sessions>> PROVE Apart'
    BY <1>e, IdleSendsNot, ApartWhenDone DEF End, disk
  <1>r. ASSUME NEW t \in Tasks, NEW u, Remove(t, u) PROVE Apart'
    BY <1>r, IdleSendsNot, ApartWhenDone DEF Remove, Without, BeginSave
  <1>s. ASSUME NEW t \in Tasks, NEW place \in {"saving", "cleanup"}, Goto(t, place),
               UNCHANGED <<clean, disk, sessions>>
        PROVE  Apart'
    <2>1. ~Sends([task[t] EXCEPT !.at = place])
      BY <1>d DEF IsTask, Idle, Sends
    <2> QED
      BY <1>s, <2>1, ApartWhenDone DEF Goto, disk
  <1>q. ASSUME UNCHANGED <<clean, disk, sessions, task>> PROVE Apart'
    BY <1>q DEF UInv, Apart, disk
  <1>1. ASSUME NEW t \in Tasks, Step(t) \/ PutFails(t) PROVE Apart'
    <2> DEFINE At(place) == [task[t] EXCEPT !.at = place]
    <2>t. \A place : /\ At(place).at = place
                     /\ At(place).upload = task[t].upload
                     /\ At(place).chunk = task[t].chunk
      BY <1>d DEF IsTask, Idle
    <2>u. \A o \in Tasks, u \in DOMAIN sessions :
            Sends(task[o]) /\ u = task[o].upload /\ u \in clean =>
              task[o].chunk \notin sessions[u].chunks
      BY DEF UInv, Apart
    <2>1. CASE Open(t)
      <3>1. /\ Sends(task[t]) /\ ~Creating(At("write"))
            /\ task' = [task EXCEPT ![t] = At("write")]
            /\ UNCHANGED <<sessions, clean, dirs>>
        BY <2>1, <2>t DEF Open, Goto, Sends, Creating, history
      <3>2. ASSUME NEW o \in Tasks \ {t}, Creating(task[o]),
                   task[o].upload \in clean \cap dirs
            PROVE  task[o].upload \notin DOMAIN files' \ DOMAIN files
        <4>1. task[o].upload # task[t].upload
          BY <3>1, <3>2 DEF UInv, Apart, Sends, Creating
        <4> QED
          BY <2>1, <4>1 DEF Open, Put
      <3>3. \A o \in Tasks : Sends(task'[o]) => Sends(task[o])
        BY <1>d, <3>1
      <3> QED
        BY <2>t, <2>u, <3>1, <3>2, <3>3, ApartStays
    <2>2. CASE Write(t)
      <3>1. /\ Sends(task[t]) /\ ~Creating(At("list"))
            /\ task' = [task EXCEPT ![t] = At("list")]
            /\ UNCHANGED <<sessions, clean, dirs>> /\ DOMAIN files' = DOMAIN files
        BY <2>2, <2>t DEF Write, Goto, Sends, Creating, history
      <3>2. \A o \in Tasks : Sends(task'[o]) => Sends(task[o])
        BY <1>d, <3>1
      <3> QED
        BY <2>t, <2>u, <3>1, <3>2, ApartStays
    <2>3. CASE List(t)
      BY <2>3, ListApart
    <2>4. CASE OpenSave(t)
      BY <1>s, <2>4 DEF OpenSave, history
    <2>5. CASE Read(t)
      <3>1. CASE task[t].upload \in DOMAIN files
        <4> DEFINE r == [task[t] EXCEPT !.at = "put", !.body = files[task[t].upload]]
        <4>1. ~Sends(r)
          BY <1>d DEF IsTask, Idle, Sends
        <4> QED
          BY <2>5, <3>1, <4>1, ApartWhenDone DEF Read, history, disk
      <3>2. CASE task[t].upload \notin DOMAIN files
        BY <1>e, <2>5, <3>2 DEF Read, history
      <3> QED
        BY <3>1, <3>2
    <2>6. CASE PutObject(t)
      BY <1>s, <2>6 DEF PutObject, history
    <2>7. CASE Cleanup(t)
      BY <1>e, <1>r, <2>7 DEF Cleanup, history
    <2>8. CASE OpenFails(t) \/ WriteSave(t) \/ PutFails(t)
      BY <1>e, <2>8 DEF OpenFails, WriteSave, PutFails, history
    <2> QED
      BY <1>1, <2>1, <2>2, <2>3, <2>4, <2>5, <2>6, <2>7, <2>8 DEF Step
  <1>2. ASSUME NEW t \in Requests, NEW u \in Uploads, Create(t, u) PROVE Apart'
    <2> DEFINE r == [Idle EXCEPT !.at = "save", !.snapshot = sessions']
    <2>1. /\ t \in Tasks /\ task' = [task EXCEPT ![t] = r] /\ ~Sends(r) /\ ~Creating(r)
          /\ UNCHANGED <<files, clean>> /\ dirs' = dirs \cup {u}
          /\ u \in used' \ used
          /\ DOMAIN sessions' = DOMAIN sessions \cup {u}
          /\ \A v \in DOMAIN sessions \ {u} : sessions'[v] = sessions[v]
      BY <1>2, IdleSendsNot DEF Create, BeginSave, Put, Tasks, Creating, Sends
    <2>2. DOMAIN sessions \subseteq used
      BY DEF UInv, Dicts, Backed
    <2>3. ASSUME NEW o \in Tasks, NEW v \in DOMAIN sessions' \cap DOMAIN sessions,
                 Sends(task'[o]), v = task[o].upload, v \in clean
          PROVE  task[o].chunk \notin sessions'[v].chunks
      BY <1>d, <2>1, <2>2, <2>3 DEF UInv, Apart
    <2> QED
      BY <2>1, <2>2, <2>3, ApartStays
  <1>3. ASSUME NEW t \in Requests, NEW u \in Uploads, NEW i \in Chunks,
               BeginChunk(t, u, i)
        PROVE  Apart'
    BY <1>3, BeginApart DEF Tasks
  <1>4. ASSUME NEW t \in Requests, NEW u \in Uploads, BeginComplete(t, u) PROVE Apart'
    <2>1. ~Sends([Idle EXCEPT !.at = "read", !.upload = u])
      BY DEF Idle, Sends
    <2> QED
      BY <1>4, <2>1, ApartWhenDone DEF BeginComplete, Tasks, history, disk
  <1>5. ASSUME NEW t \in Requests, NEW u \in Uploads, Abort(t, u) PROVE Apart'
    BY <1>5, <1>r DEF Abort, Tasks
  <1>6. ASSUME NEW u \in Uploads, Sweep(u) PROVE Apart'
    BY <1>6, <1>r DEF Sweep, Tasks
  <1>7. ASSUME NEW u \in Uploads, Expire(u) PROVE Apart'
    BY <1>7, <1>q DEF Expire, history
  <1>8. CASE Crash \/ Restart
    BY <1>8, IdleSendsNot DEF Crash, Restart, Apart
  <1>9. CASE UNCHANGED vars
    BY <1>9, <1>q DEF vars, history
  <1> QED
    BY <1>1, <1>2, <1>3, <1>4, <1>5, <1>6, <1>7, <1>8, <1>9 DEF Next

-----------------------------------------------------------------------------
LEMMA NextStored == UInv /\ [Next]_vars => StoredWhole'
  <1> SUFFICES ASSUME UInv, [Next]_vars PROVE StoredWhole'
    OBVIOUS
  <1>g. clean' \subseteq clean
    BY NextGrows DEF Grows
  <1>1. ASSUME NEW t \in Tasks, PutObject(t) PROVE StoredWhole'
    BY <1>1, <1>g DEF PutObject, Put, StoredWhole, UInv, AllSound, Sound
  <1>2. ASSUME UNCHANGED stored PROVE StoredWhole'
    BY <1>2, <1>g DEF StoredWhole, UInv
  <1>3. UNCHANGED stored \/ \E t \in Tasks : PutObject(t)
    BY DEF Next, Step, Open, OpenFails, Write, List, OpenSave, WriteSave, Read, Cleanup,
           PutFails, Create, BeginChunk, BeginComplete, Abort, Sweep, Remove, Expire,
           Crash, Restart, vars
  <1> QED
    BY <1>1, <1>2, <1>3

LEMMA UploadInvariant == Spec => []UInv
  <1>1. UInv /\ [Next]_vars => UInv'
    BY NextTyped, NextGrows, NextDicts, NextSound, NextApart, NextStored DEF UInv
  <1> QED
    BY InitInv, <1>1, PTL DEF Spec

\* For any number of uploads and chunks: sessions, files and requests stay well-formed.
THEOREM UploadsTyped == Spec => []TypeOK
  <1>1. UInv => TypeOK
    BY DEF UInv
  <1> QED
    BY <1>1, UploadInvariant, PTL

\* For any number of uploads and chunks: no interleaving of chunks, removals, saves,
\* crashes and restarts makes a disciplined client's list claim bytes that are not
\* in the file (upload_chunk, _load_sessions).
THEOREM ListedWasWritten == Spec => []ListedIsWritten
  <1>1. UInv => ListedIsWritten
    BY DEF UInv, Dicts, Backed, ListedIsWritten, ListedIn, Content
  <1> QED
    BY <1>1, UploadInvariant, PTL

\* For any number of uploads and chunks: what is handed to the driver is every chunk,
\* whatever completes, aborts, expires, crashes or restarts beside it, if the client is
\* disciplined (complete_upload).
THEOREM UploadsAreWhole == Spec => []StoredWhole
  <1>1. UInv => StoredWhole
    BY DEF UInv
  <1> QED
    BY <1>1, UploadInvariant, PTL

\* A step of one of them; the second half compares two objects that are both whole.
LEMMA StepIntact == UInv /\ [Next]_vars => \A u \in clean' : Intact(u)
  <1> SUFFICES ASSUME UInv, [Next]_vars, NEW u \in clean' PROVE Intact(u)
    OBVIOUS
  <1>1. Grows /\ Disk /\ StoredWhole /\ StoredWhole' /\ u \in clean
    BY NextGrows, NextStored DEF UInv, Grows
  <1>2. ASSUME u \in dirs', u \in DOMAIN files
        PROVE  u \in DOMAIN files' /\ files[u] \subseteq files'[u]
    BY <1>1, <1>2 DEF Grows, Disk, Content
  <1>3. DOMAIN stored \subseteq DOMAIN stored'
    BY DEF Next, Step, Open, OpenFails, Write, List, OpenSave, WriteSave, Read, PutObject, Put,
           Cleanup, PutFails, Create, BeginChunk, BeginComplete, Abort, Sweep, Remove,
           Expire, Crash, Restart, vars
  <1>4. ASSUME u \in DOMAIN stored PROVE u \in DOMAIN stored' /\ stored'[u] = stored[u]
    BY <1>1, <1>3, <1>4 DEF StoredWhole
  <1> QED
    BY <1>2, <1>4 DEF Intact

\* For any number of uploads and chunks: no open, write, failure or restart takes from
\* a disciplined client's file what is in it, but by removing the upload, and nothing
\* changes what was stored (upload_chunk, complete_upload).
THEOREM UploadsOnlyGrow == Spec => NothingTruncated
  <1>1. UInv /\ [Next]_vars => [\A u \in clean' : Intact(u)]_vars
    BY StepIntact
  <1> QED
    BY <1>1, UploadInvariant, PTL DEF Spec, NothingTruncated

-----------------------------------------------------------------------------
\* What is being saved, when the latest save met no other: the sessions as they
\* are, by the only task that saves, into a file nobody else has written.
OnlySaver ==
  alone => \A t \in Tasks : Saving(t) =>
    /\ task[t].snapshot = sessions
    /\ \A o \in Tasks \ {t} : ~Saving(o)
    /\ task[t].at = "saving" => saved.text = "empty"

SInv == TypeOK /\ OnlySaver /\ SavedAtRest

Live(d) == [u \in DOMAIN d \ expired |-> d[u]]

\* A save that begins is the only one, or the latest has met another.
LEMMA BeginSaveKeeps ==
  ASSUME SInv, TypeOK', NEW t \in Tasks, NEW now, BeginSave(t, now)
  PROVE  OnlySaver' /\ SavedAtRest'
  <1>1. task'[t].at = "save" /\ task'[t].snapshot = sessions'
    BY DEF BeginSave, Idle, SInv, TypeOK
  <1>2. \A o \in Tasks \ {t} : task'[o] = task[o]
    BY DEF BeginSave, SInv, TypeOK
  <1>3. Saving(t)'
    BY <1>1 DEF Saving
  <1>4. alone' => \A o \in Tasks \ {t} : ~Saving(o)'
    BY <1>2 DEF BeginSave, Saving
  <1> QED
    BY <1>1, <1>3, <1>4 DEF OnlySaver, SavedAtRest

\* A step that touches no session, no save and no task that saves.
LEMMA QuietKeeps ==
  ASSUME SInv, UNCHANGED <<sessions, expired, saved, alone>>,
         \A t \in Tasks : /\ Saving(t)' <=> Saving(t)
                          /\ Saving(t) => task'[t] = task[t]
  PROVE  OnlySaver' /\ SavedAtRest'
  <1>1. OnlySaver'
    BY DEF SInv, OnlySaver
  <1>2. SavedAtRest'
    BY DEF SInv, SavedAtRest, Loaded
  <1> QED
    BY <1>1, <1>2

LEMMA OpenSaveKeeps ==
  ASSUME SInv, NEW t \in Tasks, OpenSave(t) PROVE OnlySaver' /\ SavedAtRest'
  <1>1. /\ task'[t].at = "saving" /\ task'[t].snapshot = task[t].snapshot
        /\ \A o \in Tasks \ {t} : task'[o] = task[o]
    BY DEF OpenSave, Goto, SInv, TypeOK, IsTask, Idle
  <1>2. Saving(t) /\ Saving(t)' /\ saved'.text = "empty"
    BY <1>1 DEF OpenSave, Saving
  <1>3. \A o \in Tasks \ {t} : Saving(o)' <=> Saving(o)
    BY <1>1 DEF Saving
  <1> QED
    BY <1>1, <1>2, <1>3 DEF OpenSave, SInv, OnlySaver, SavedAtRest, history

\* The end of a save that was alone: what is in the file is what is in memory.
LEMMA WriteSaveKeeps ==
  ASSUME SInv, NEW t \in Tasks, WriteSave(t) PROVE OnlySaver' /\ SavedAtRest'
  <1>1. /\ task'[t] = Idle /\ \A o \in Tasks \ {t} : task'[o] = task[o]
        /\ UNCHANGED <<sessions, expired, alone>>
    BY DEF WriteSave, End, SInv, TypeOK, history
  <1>2. Saving(t) /\ ~Saving(t)' /\ task[t].at = "saving"
    BY <1>1 DEF WriteSave, Saving, Idle
  <1>3. \A o \in Tasks \ {t} : Saving(o)' <=> Saving(o)
    BY <1>1 DEF Saving
  <1>4. alone => /\ saved' = [text |-> "whole", sessions |-> sessions]
                 /\ \A o \in Tasks \ {t} : ~Saving(o)
    BY <1>2 DEF WriteSave, SInv, OnlySaver
  <1>5. alone => Loaded(saved)' = Live(sessions)'
    BY <1>1, <1>4 DEF Loaded, Live
  <1> QED
    BY <1>1, <1>2, <1>3, <1>4, <1>5 DEF OnlySaver, SavedAtRest, Live

LEMMA NextSaves == SInv /\ [Next]_vars => SInv'
  <1> SUFFICES ASSUME SInv, [Next]_vars PROVE SInv'
    OBVIOUS
  <1>t. TypeOK'
    BY NextTyped DEF SInv
  <1>d. DOMAIN task = Tasks /\ \A t \in Tasks : IsTask(task[t])
    BY DEF SInv, TypeOK
  <1>i. Idle.at = "idle"
    BY DEF Idle
  <1> SUFFICES OnlySaver' /\ SavedAtRest'
    BY <1>t DEF SInv
  <1>q. ASSUME NEW t \in Tasks, ~Saving(t), NEW r, r.at \notin {"save", "saving"},
               task' = [task EXCEPT ![t] = r],
               UNCHANGED <<sessions, expired, saved, alone>>
        PROVE  OnlySaver' /\ SavedAtRest'
    BY <1>d, <1>q, QuietKeeps DEF Saving
  <1>r. ASSUME NEW t \in Tasks, NEW u, Remove(t, u) PROVE OnlySaver' /\ SavedAtRest'
    BY <1>r, <1>t, BeginSaveKeeps DEF Remove
  <1>1. ASSUME NEW t \in Tasks, Step(t) \/ PutFails(t)
        PROVE  OnlySaver' /\ SavedAtRest'
    <2>g. ASSUME ~Saving(t), NEW place \in {"write", "list", "cleanup"},
                 Goto(t, place), UNCHANGED <<sessions, expired, saved, alone>>
          PROVE  OnlySaver' /\ SavedAtRest'
      <3>1. [task[t] EXCEPT !.at = place].at = place
        BY <1>d DEF IsTask, Idle
      <3> QED
        BY <1>q, <2>g, <3>1 DEF Goto
    <2>e. ASSUME ~Saving(t), End(t), UNCHANGED <<sessions, expired, saved, alone>>
          PROVE  OnlySaver' /\ SavedAtRest'
      BY <1>i, <1>q, <2>e DEF End
    <2>1. CASE Open(t) \/ Write(t) \/ PutObject(t)
      BY <2>1, <2>g DEF Open, Write, PutObject, Saving, history
    <2>2. CASE OpenFails(t) \/ PutFails(t)
      BY <2>2, <2>e DEF OpenFails, PutFails, Saving, history
    <2>3. CASE List(t)
      BY <1>t, <2>3, BeginSaveKeeps DEF List
    <2>4. CASE OpenSave(t)
      BY <2>4, OpenSaveKeeps
    <2>5. CASE WriteSave(t)
      BY <2>5, WriteSaveKeeps
    <2>6. CASE Read(t)
      <3>1. CASE task[t].upload \in DOMAIN files
        <4>1. [task[t] EXCEPT !.at = "put", !.body = files[task[t].upload]].at = "put"
          BY <1>d DEF IsTask, Idle
        <4> QED
          BY <1>q, <2>6, <3>1, <4>1 DEF Read, Saving, history
      <3>2. CASE task[t].upload \notin DOMAIN files
        BY <2>6, <2>e, <3>2 DEF Read, Saving, history
      <3> QED
        BY <3>1, <3>2
    <2>7. CASE Cleanup(t)
      BY <1>r, <2>7, <2>e DEF Cleanup, Saving, history
    <2> QED
      BY <1>1, <2>1, <2>2, <2>3, <2>4, <2>5, <2>6, <2>7 DEF Step
  <1>2. ASSUME NEW t \in Requests, NEW u \in Uploads,
               Create(t, u) \/ Abort(t, u)
        PROVE  OnlySaver' /\ SavedAtRest'
    BY <1>2, <1>r, <1>t, BeginSaveKeeps DEF Create, Abort, Tasks
  <1>3. ASSUME NEW t \in Requests, NEW u \in Uploads, NEW i \in Chunks,
               BeginChunk(t, u, i)
        PROVE  OnlySaver' /\ SavedAtRest'
    <2>1. [Idle EXCEPT !.at = "open", !.upload = u, !.chunk = i,
                       !.creates = u \notin DOMAIN files].at = "open"
      BY DEF Idle
    <2> QED
      BY <1>3, <1>q, <2>1 DEF BeginChunk, Saving, Tasks
  <1>4. ASSUME NEW t \in Requests, NEW u \in Uploads, BeginComplete(t, u)
        PROVE  OnlySaver' /\ SavedAtRest'
    <2>1. [Idle EXCEPT !.at = "read", !.upload = u].at = "read"
      BY DEF Idle
    <2> QED
      BY <1>4, <1>q, <2>1 DEF BeginComplete, Saving, Tasks, history
  <1>5. ASSUME NEW u \in Uploads, Sweep(u) PROVE OnlySaver' /\ SavedAtRest'
    BY <1>5, <1>r DEF Sweep, Tasks
  <1>6. ASSUME NEW u \in Uploads, Expire(u) PROVE OnlySaver' /\ SavedAtRest'
    <2>1. UNCHANGED <<sessions, saved, task, alone>> /\ expired \subseteq expired'
      BY <1>6 DEF Expire, history
    <2>2. Loaded(saved) = Live(sessions) => (Loaded(saved) = Live(sessions))'
      BY <2>1 DEF Loaded, Live, NoSessions
    <2> QED
      BY <2>1, <2>2 DEF SInv, OnlySaver, SavedAtRest, Saving, Live
  <1>7. CASE Crash \/ Restart
    <2>1. UNCHANGED expired /\ \A t \in Tasks : ~Saving(t)'
      BY <1>7, <1>i DEF Crash, Restart, Saving
    <2>2. Loaded(saved)' = Live(sessions)'
      <3>1. CASE Crash
        BY <3>1 DEF Crash, Loaded, Live, NoSessions
      <3>2. CASE Restart
        BY <3>2 DEF Restart, Loaded, Live
      <3> QED
        BY <1>7, <3>1, <3>2
    <2> QED
      BY <2>1, <2>2 DEF OnlySaver, SavedAtRest, Live
  <1>8. CASE UNCHANGED vars
    BY <1>8, QuietKeeps DEF vars, Saving, history
  <1> QED
    BY <1>1, <1>2, <1>3, <1>4, <1>5, <1>6, <1>7, <1>8 DEF Next

\* SavedAtRest, for any numbers: a session changed in memory is in the file that a
\* restart reads as soon as the save that the change began is over, if it met no
\* other save; _save_sessions is called after every change.
THEOREM UploadsAreSaved == Spec => []SavedAtRest
  <1>1. Init => SInv
    <2> SUFFICES ASSUME Init PROVE SInv
      OBVIOUS
    <2>1. TypeOK
      BY InitInv DEF UInv
    <2>2. OnlySaver
      BY DEF Init, OnlySaver, Saving, Idle
    <2>3. SavedAtRest
      BY DEF Init, SavedAtRest, Loaded, NoSessions
    <2> QED
      BY <2>1, <2>2, <2>3 DEF SInv
  <1>2. SInv => SavedAtRest
    BY DEF SInv
  <1> QED
    BY <1>1, <1>2, NextSaves, PTL DEF Spec
=============================================================================
