----------------------------- MODULE ResumeUpload -----------------------------
(***************************************************************************)
(* Resumable uploads of the storage service: ResumeUploadService in        *)
(* storage-abstraction/src/services/resume_upload_service.py, one process  *)
(* and one event loop.  A step runs from one await to the next; opening,   *)
(* writing and reading a file are done by other threads during an await.   *)
(* A temporary file is the set of chunks whose bytes it holds: a chunk     *)
(* missing before the last one is a hole of zeros.                         *)
(***************************************************************************)
EXTENDS Integers, FiniteSets

CONSTANTS Uploads,   \* upload ids; an id is never used twice
          LastChunk, \* chunks are numbered 0..LastChunk
          Requests,  \* requests handled at one time
          Janitor,   \* the cleanup task
          MaxFaults  \* bound: crashes, restarts, failures of the object store

ASSUME UploadAssumption ==
  /\ Uploads # {}
  /\ LastChunk \in Nat
  /\ Janitor \notin Requests
  /\ MaxFaults \in Nat

VARIABLES sessions, \* _upload_sessions, in memory
          expired,  \* uploads whose expires_at has passed
          dirs,     \* uploads whose temporary directory exists
          files,    \* the temporary files that exist
          saved,    \* the session file
          task,     \* per request and for the cleanup task: where it is
          stored,   \* what the object store holds
          used,     \* upload ids given out
          faults,   \* what the bound limits
          clean,    \* uploads whose client kept the discipline (history)
          alone     \* the latest save met no other (history)

disk == <<dirs, files>>
history == <<clean, alone>>
vars == <<sessions, expired, disk, saved, task, stored, used, faults, history>>

Chunks == 0..LastChunk
Tasks == Requests \cup {Janitor}

\* chunks_completed: which are in the list, and how many entries are repeated.
Session == [chunks : SUBSET Chunks, repeated : Nat]
NoSessions == [u \in {} |-> [chunks |-> {}, repeated |-> 0]]

Idle == [at |-> "idle", upload |-> CHOOSE u \in Uploads : TRUE, chunk |-> 0,
         creates |-> FALSE, snapshot |-> NoSessions, body |-> {}]

Partial(f, S) == DOMAIN f \subseteq Uploads /\ f \in [DOMAIN f -> S]

IsTask(r) ==
  /\ DOMAIN r = DOMAIN Idle
  /\ r.at \in {"idle", "open", "write", "list", "save", "saving", "read", "put",
               "cleanup"}
  /\ r.upload \in Uploads
  /\ r.chunk \in Chunks
  /\ r.creates \in BOOLEAN
  /\ Partial(r.snapshot, Session)
  /\ r.body \subseteq Chunks

TypeOK ==
  /\ Partial(sessions, Session)
  /\ expired \subseteq Uploads
  /\ dirs \subseteq Uploads
  /\ Partial(files, SUBSET Chunks)
  /\ DOMAIN saved = {"text", "sessions"}
  /\ saved.text \in {"empty", "whole", "torn"}
  /\ Partial(saved.sessions, Session)
  /\ DOMAIN task = Tasks
  /\ \A t \in Tasks : IsTask(task[t])
  /\ Partial(stored, SUBSET Chunks)
  /\ used \subseteq Uploads
  /\ faults \in 0..MaxFaults
  /\ clean \subseteq Uploads
  /\ alone \in BOOLEAN

Init ==
  /\ sessions = NoSessions
  /\ expired = {}
  /\ dirs = {}
  /\ files = [u \in {} |-> {}]
  /\ saved = [text |-> "empty", sessions |-> NoSessions]
  /\ task = [t \in Tasks |-> Idle]
  /\ stored = [u \in {} |-> {}]
  /\ used = {}
  /\ faults = 0
  /\ clean = Uploads
  /\ alone = TRUE

-----------------------------------------------------------------------------
Put(f, u, x) == [v \in DOMAIN f \cup {u} |-> IF v = u THEN x ELSE f[v]]
Without(f, u) == [v \in DOMAIN f \ {u} |-> f[v]]

Fault == faults < MaxFaults /\ faults' = faults + 1
Goto(t, place) == task' = [task EXCEPT ![t].at = place]
End(t) == task' = [task EXCEPT ![t] = Idle]

\* _save_sessions up to its first await: what will be written is fixed here.
Saving(t) == task[t].at \in {"save", "saving"}

BeginSave(t, now) ==
  /\ sessions' = now
  /\ task' = [task EXCEPT ![t] = [Idle EXCEPT !.at = "save", !.snapshot = now]]
  /\ alone' = \A o \in Tasks \ {t} : ~Saving(o)

Create(t, u) ==
  /\ task[t].at = "idle"
  /\ u \notin used
  /\ used' = used \cup {u}
  /\ dirs' = dirs \cup {u}
  /\ BeginSave(t, Put(sessions, u, [chunks |-> {}, repeated |-> 0]))
  /\ UNCHANGED <<expired, files, saved, stored, faults, clean>>

\* upload_chunk up to the opening of the file.  A client keeps the discipline if
\* it sends no chunk twice at once and awaits its first answer.
Sending(o, u) == task[o].at \in {"open", "write", "list"} /\ task[o].upload = u

Crowded(u, i) ==
  \E o \in Tasks : Sending(o, u) /\ (task[o].chunk = i \/ sessions[u].chunks = {})

BeginChunk(t, u, i) ==
  /\ task[t].at = "idle"
  /\ u \in DOMAIN sessions \ expired
  /\ i \notin sessions[u].chunks
  /\ task' = [task EXCEPT ![t] = [Idle EXCEPT !.at = "open", !.upload = u,
                                    !.chunk = i, !.creates = u \notin DOMAIN files]]
  /\ clean' = IF Crowded(u, i) THEN clean \ {u} ELSE clean
  /\ UNCHANGED <<sessions, expired, disk, saved, stored, used, faults, alone>>

\* 'wb' truncates.  The directory may be gone; both modes fail then.
AlwaysCreates(t) == \* near miss
  LET u == task[t].upload IN
  /\ task[t].at = "open"
  /\ u \in dirs
  /\ files' = Put(files, u, {})
  /\ Goto(t, "write")
  /\ UNCHANGED <<sessions, expired, dirs, saved, stored, used, faults, history>>

Open(t) ==
  LET u == task[t].upload IN
  /\ task[t].at = "open"
  /\ u \in dirs
  /\ files' = IF task[t].creates THEN Put(files, u, {}) ELSE files
  /\ Goto(t, "write")
  /\ UNCHANGED <<sessions, expired, dirs, saved, stored, used, faults, history>>

OpenFails(t) ==
  /\ task[t].at = "open"
  /\ task[t].upload \notin dirs
  /\ End(t)
  /\ UNCHANGED <<sessions, expired, disk, saved, stored, used, faults, history>>

\* Seek, write, close.  A removed file is written to without effect.
Write(t) ==
  LET u == task[t].upload IN
  /\ task[t].at = "write"
  /\ files' = IF u \in DOMAIN files
                THEN [files EXCEPT ![u] = @ \cup {task[t].chunk}]
                ELSE files
  /\ Goto(t, "list")
  /\ UNCHANGED <<sessions, expired, dirs, saved, stored, used, faults, history>>

Listed(s, i) ==
  IF i \in s.chunks THEN [s EXCEPT !.repeated = @ + 1]
                    ELSE [s EXCEPT !.chunks = @ \cup {i}]

ListUnsaved(t) == \* near miss
  LET u == task[t].upload IN
  /\ task[t].at = "list"
  /\ sessions' = IF u \in DOMAIN sessions
                   THEN [sessions EXCEPT ![u] = Listed(@, task[t].chunk)]
                   ELSE sessions
  /\ End(t)
  /\ UNCHANGED <<expired, disk, saved, stored, used, faults, history>>

\* The session that is listed in may have been removed; all are saved.
List(t) ==
  LET u == task[t].upload IN
  /\ task[t].at = "list"
  /\ BeginSave(t, IF u \in DOMAIN sessions
                    THEN [sessions EXCEPT ![u] = Listed(@, task[t].chunk)]
                    ELSE sessions)
  /\ UNCHANGED <<expired, disk, saved, stored, used, faults, clean>>

-----------------------------------------------------------------------------
\* Opening the session file with 'w'.
OpenSave(t) ==
  /\ task[t].at = "save"
  /\ saved' = [text |-> "empty", sessions |-> NoSessions]
  /\ Goto(t, "saving")
  /\ UNCHANGED <<sessions, expired, disk, stored, used, faults, history>>

\* Of two writers that both found the file empty, the second writes over the
\* text of the first, and leaves its end if its own is shorter.
Covers(a, b) ==
  \A u \in DOMAIN b : u \in DOMAIN a /\ b[u].chunks \subseteq a[u].chunks
                                      /\ b[u].repeated <= a[u].repeated

WriteSave(t) ==
  LET mine == task[t].snapshot IN
  /\ task[t].at = "saving"
  /\ \/ saved' = [text |-> "whole", sessions |-> mine]
     \/ /\ saved.text # "empty"
        /\ saved.text = "whole" => ~Covers(mine, saved.sessions)
        /\ saved' = [text |-> "torn", sessions |-> NoSessions]
  /\ End(t)
  /\ UNCHANGED <<sessions, expired, disk, stored, used, faults, history>>

-----------------------------------------------------------------------------
\* complete_upload.  The route refuses an expired upload.  No session has a
\* checksum, so verify_checksum verifies nothing.
CountsOne(u) == Cardinality(sessions[u].chunks) >= LastChunk \* near miss

\* near miss
RoundsDown(u) == Cardinality(sessions[u].chunks) + sessions[u].repeated = LastChunk

Full(u) == Cardinality(sessions[u].chunks) + sessions[u].repeated = LastChunk + 1

BeginComplete(t, u) ==
  /\ task[t].at = "idle"
  /\ u \in DOMAIN sessions \ expired
  /\ Full(u)
  /\ u \in DOMAIN files
  /\ LastChunk \in files[u] \* the size of the file
  /\ task' = [task EXCEPT ![t] = [Idle EXCEPT !.at = "read", !.upload = u]]
  /\ UNCHANGED <<sessions, expired, disk, saved, stored, used, faults, history>>

Read(t) ==
  LET u == task[t].upload IN
  /\ task[t].at = "read"
  /\ IF u \in DOMAIN files
       THEN task' = [task EXCEPT ![t] = [@ EXCEPT !.at = "put", !.body = files[u]]]
       ELSE End(t)
  /\ UNCHANGED <<sessions, expired, disk, saved, stored, used, faults, history>>

PutObject(t) ==
  /\ task[t].at = "put"
  /\ stored' = Put(stored, task[t].upload, task[t].body)
  /\ Goto(t, "cleanup")
  /\ UNCHANGED <<sessions, expired, disk, saved, used, faults, history>>

PutFails(t) ==
  /\ task[t].at = "put"
  /\ Fault
  /\ End(t)
  /\ UNCHANGED <<sessions, expired, disk, saved, stored, used, history>>

\* _cleanup_session
Remove(t, u) ==
  /\ dirs' = dirs \ {u}
  /\ files' = Without(files, u)
  /\ BeginSave(t, Without(sessions, u))
  /\ UNCHANGED <<expired, saved, stored, used, faults, clean>>

Cleanup(t) ==
  /\ task[t].at = "cleanup"
  /\ IF task[t].upload \in DOMAIN sessions
       THEN Remove(t, task[t].upload)
       ELSE /\ End(t)
            /\ UNCHANGED <<sessions, expired, disk, saved, stored, used, faults,
                           history>>

Abort(t, u) ==
  /\ task[t].at = "idle"
  /\ u \in DOMAIN sessions
  /\ Remove(t, u)

\* _cleanup_expired_sessions
SweepWithFile(u) == \* near miss
  /\ task[Janitor].at = "idle"
  /\ u \in DOMAIN sessions \cap expired
  /\ u \in DOMAIN files
  /\ Remove(Janitor, u)

Sweep(u) ==
  /\ task[Janitor].at = "idle"
  /\ u \in DOMAIN sessions \cap expired
  /\ Remove(Janitor, u)

Expire(u) ==
  /\ u \in used \ expired
  /\ expired' = expired \cup {u}
  /\ UNCHANGED <<sessions, disk, saved, task, stored, used, faults, history>>

-----------------------------------------------------------------------------
\* _load_sessions in a new process.
Loaded(file) ==
  IF file.text = "whole"
    THEN [u \in DOMAIN file.sessions \ expired |-> file.sessions[u]]
    ELSE NoSessions

Crash ==
  /\ Fault
  /\ task' = [t \in Tasks |-> Idle]
  /\ sessions' = Loaded(saved)
  /\ alone' = TRUE
  /\ UNCHANGED <<expired, disk, saved, stored, used, clean>>

\* shutdown: the server has finished its requests, the cleanup task is cancelled.
Restart ==
  /\ Fault
  /\ \A t \in Requests : task[t].at = "idle"
  /\ task' = [t \in Tasks |-> Idle]
  /\ saved' = [text |-> "whole", sessions |-> sessions]
  /\ sessions' = Loaded(saved')
  /\ alone' = TRUE
  /\ UNCHANGED <<expired, disk, stored, used, clean>>

-----------------------------------------------------------------------------
Step(t) ==
  \/ Open(t)
  \/ OpenFails(t)
  \/ Write(t)
  \/ List(t)
  \/ OpenSave(t)
  \/ WriteSave(t)
  \/ Read(t)
  \/ PutObject(t)
  \/ Cleanup(t)

Next ==
  \/ \E t \in Tasks : Step(t) \/ PutFails(t)
  \/ \E t \in Requests, u \in Uploads :
       \/ Create(t, u)
       \/ \E i \in Chunks : BeginChunk(t, u, i)
       \/ BeginComplete(t, u)
       \/ Abort(t, u)
  \/ \E u \in Uploads : Sweep(u) \/ Expire(u)
  \/ Crash
  \/ Restart

\* What is begun ends, the cleanup task comes round, and a client goes on.
Fairness ==
  /\ \A t \in Tasks : WF_vars(Step(t))
  /\ \A u \in Uploads :
       /\ SF_vars(Sweep(u))
       /\ \A i \in Chunks : SF_vars(\E t \in Requests : BeginChunk(t, u, i))
       /\ SF_vars(\E t \in Requests : BeginComplete(t, u))

Spec == Init /\ [][Next]_vars /\ Fairness

-----------------------------------------------------------------------------
\* A chunk that is listed as completed, in memory or in the session file that a
\* restart will read, is in the temporary file as long as there is one, if the
\* client keeps the discipline.
ListedIn(dict, u) == u \in DOMAIN dict => dict[u].chunks \subseteq files[u]

ListedIsWritten ==
  \A u \in clean \cap dirs :
    u \in DOMAIN files =>
      /\ ListedIn(sessions, u)
      /\ saved.text = "whole" => ListedIn(saved.sessions, u)

\* complete_upload stores every chunk, whatever crashes, restarts, saves and
\* removals went before, if the client keeps the discipline.
StoredWhole == \A u \in clean \cap DOMAIN stored : stored[u] = Chunks

\* While its client keeps the discipline, no chunk that reached an upload's file leaves
\* it before the upload is removed, and what is stored is never stored otherwise again:
\* the mode is chosen (upload_chunk) long before the file is opened, and a completion
\* reads the file while it is written and removed.
Intact(u) ==
  /\ u \in dirs' /\ u \in DOMAIN files => u \in DOMAIN files' /\ files[u] \subseteq files'[u]
  /\ u \in DOMAIN stored => u \in DOMAIN stored' /\ stored'[u] = stored[u]

NothingTruncated == [][\A u \in clean' : Intact(u)]_vars

\* "# Check if all chunks uploaded" (resume_upload_service.py): without the
\* discipline too.
AllUploaded == \A u \in DOMAIN stored : stored[u] = Chunks

\* When nobody saves, a restart would find every live session as it is in memory,
\* unless the latest saves overlapped: nothing is changed without being saved.
SavedAtRest ==
  alone /\ (\A t \in Tasks : ~Saving(t)) =>
    Loaded(saved) = [u \in DOMAIN sessions \ expired |-> sessions[u]]

\* An upload whose client goes on and keeps the discipline is stored, unless it
\* is given up, expires, or is forgotten in a crash; nothing leaves it stuck.
Finishes ==
  \A u \in Uploads :
    u \in DOMAIN sessions /\ u \in dirs ~>
      \/ u \in DOMAIN stored
      \/ u \notin DOMAIN sessions
      \/ u \in expired
      \/ u \notin clean

\* An expired upload does not keep its session: the cleanup gets to it although aborts,
\* completions and restarts come in between (_cleanup_worker).
Swept == \A u \in Uploads : u \in expired ~> u \notin DOMAIN sessions
=============================================================================
