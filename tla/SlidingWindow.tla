---------------------------- MODULE SlidingWindow ----------------------------
(***************************************************************************)
(* RateLimiter._sliding_window_limit for one identifier: the checks that   *)
(* gateway workers make concurrently against one Redis sorted set.         *)
(*                                                                         *)
(* A check reads the clock, awaits a pipeline that removes the old members *)
(* and counts the rest, and awaits a second pipeline that adds its own.    *)
(* Each pipeline is one step; everything may happen between them.          *)
(*                                                                         *)
(* A member is named after the time.time() that is also its score, so it   *)
(* is that time here.  The clock has a resolution no two checks share:     *)
(* reading it is a tick of its own.  Redis and the workers agree on it.    *)
(***************************************************************************)
EXTENDS LimiterParams

VARIABLES now,
          entries,  \* the sorted set
          expiry,   \* when Redis drops its key
          pc, stamp,  \* of each check: progress, current_time
          granted   \* the stamps of the checks that were allowed

vars == <<now, entries, expiry, pc, stamp, granted>>

Time == 0..MaxTime

TypeOK ==
  /\ now \in Time
  /\ entries \in SUBSET Time
  /\ expiry \in 0..MaxTime + Window
  /\ pc \in [Clients -> {"idle", "stamped", "counted"}]
  /\ stamp \in [Clients -> Time]
  /\ granted \in SUBSET Time

Init ==
  /\ now = 0 /\ entries = {} /\ expiry = 0
  /\ pc = [c \in Clients |-> "idle"]
  /\ stamp = [c \in Clients |-> 0]
  /\ granted = {}

\* What Redis still holds under the key.
Live == IF now < expiry THEN entries ELSE {}

-----------------------------------------------------------------------------
\* Near misses for the mutation runs.
CountOneTooMany(n) == n + Cost <= Limit + 1

StoreForHalf(c) ==
  /\ entries' = Live \cup {stamp[c]}
  /\ expiry' = now + Window \div 2

StoreTwice(c) ==
  /\ entries' = Live \cup {stamp[c]}
  /\ expiry' = expiry + Window

-----------------------------------------------------------------------------
Admits(n) == n + Cost <= Limit

\* The second pipeline.  Its loop adds the same member Cost times: once.
Store(c) ==
  /\ entries' = Live \cup {stamp[c]}
  /\ expiry' = now + Window

ReadClock(c) ==
  /\ pc[c] = "idle" /\ now < MaxTime
  /\ now' = now + 1
  /\ stamp' = [stamp EXCEPT ![c] = now + 1]
  /\ pc' = [pc EXCEPT ![c] = "stamped"]
  /\ UNCHANGED <<entries, expiry, granted>>

\* The first pipeline, and the verdict on its count.
Count(c) ==
  LET left == {s \in Live : s > stamp[c] - Window} IN
  /\ pc[c] = "stamped"
  /\ entries' = left
  /\ pc' = [pc EXCEPT ![c] = IF Admits(Cardinality(left)) THEN "counted" ELSE "idle"]
  /\ UNCHANGED <<now, expiry, stamp, granted>>

Add(c) ==
  /\ pc[c] = "counted"
  /\ Store(c)
  /\ granted' = granted \cup {stamp[c]}
  /\ pc' = [pc EXCEPT ![c] = "idle"]
  /\ UNCHANGED <<now, stamp>>

\* The check dies in an await: Redis is lost or the client went away, before
\* or after Redis executed the pipeline.
Lose(c) ==
  /\ pc[c] # "idle"
  /\ \/ UNCHANGED <<entries, expiry>>
     \/ pc[c] = "counted" /\ Store(c)
  /\ pc' = [pc EXCEPT ![c] = "idle"]
  /\ UNCHANGED <<now, stamp, granted>>

\* At its bound the clock stands still.
Tick ==
  /\ now' = IF now < MaxTime THEN now + 1 ELSE now
  /\ UNCHANGED <<entries, expiry, pc, stamp, granted>>

Next == Tick \/ \E c \in Clients : ReadClock(c) \/ Count(c) \/ Add(c) \/ Lose(c)

Spec == Init /\ [][Next]_vars

-----------------------------------------------------------------------------
Recent(S) == {s \in S : s > now - Window}

Pending == {c \in Clients : pc[c] = "counted"}

\* What the key's expiry and the cleanups of slow checks drop is never younger
\* than the window: every allowed check of the last Window is still counted.
NothingForgotten == Recent(granted) \subseteq Live

\* docs/rate-limiting.md has a request added if under limit, by atomic
\* operations.  Counting and adding are two pipelines here, so concurrent
\* checks may overrun the limit, by less than one each and no more: a check
\* that has counted holds a place although Redis does not know of it yet.
OverrunBounded ==
  Cardinality(Recent(Live)) + Cardinality(Pending) <= Limit + Cardinality(Clients) - 1
=============================================================================
