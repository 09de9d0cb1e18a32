----------------------------- MODULE TokenBucket -----------------------------
(***************************************************************************)
(* RateLimiter._token_bucket_limit for one identifier: a bucket kept as a  *)
(* JSON value in Redis, read with GET and written back with SET by the     *)
(* concurrent checks of several gateway workers.                           *)
(*                                                                         *)
(* A bucket refills by Limit / Window tokens a second.  Amounts are        *)
(* counted in tokens / Window here, so that every amount is an integer:    *)
(* the bucket holds Full of them, gains Limit of them per unit of time,    *)
(* and a check of cost 1 takes Window of them.                             *)
(***************************************************************************)
EXTENDS LimiterParams, FiniteSetsExt

VARIABLES now,
          tokens, lastUpdate,  \* the stored bucket
          expiry,              \* when Redis drops its key
          pc, stamp, balance,  \* of each check: progress, current_time, tokens
          granted,             \* number of checks allowed
          counted,  \* history: allowed checks that the stored bucket accounts for
          seen,     \* history: counted, as each check found it
          prompt    \* history: no check took longer than a window to its GET

bucketHistory == <<counted, seen, prompt>>
vars == <<now, tokens, lastUpdate, expiry, pc, stamp, balance, granted, bucketHistory>>

Full  == Limit * Window
Price == Cost * Window

TypeOK ==
  /\ now \in 0..MaxTime
  /\ tokens \in 0..Full
  /\ lastUpdate \in 0..MaxTime
  /\ expiry \in 0..MaxTime + 2 * Window
  /\ pc \in [Clients -> {"idle", "stamped", "taken"}]
  /\ stamp \in [Clients -> 0..MaxTime]
  /\ balance \in [Clients -> 0..Full]
  /\ granted \in Nat
  /\ counted \in Nat
  /\ seen \in [Clients -> Nat]
  /\ prompt \in BOOLEAN

HistoryInit == counted = 0 /\ seen = [c \in Clients |-> 0] /\ prompt = TRUE

Init ==
  /\ now = 0 /\ tokens = 0 /\ lastUpdate = 0 /\ expiry = 0
  /\ pc = [c \in Clients |-> "idle"]
  /\ stamp = [c \in Clients |-> 0]
  /\ balance = [c \in Clients |-> 0]
  /\ granted = 0
  /\ HistoryInit

-----------------------------------------------------------------------------
\* Near misses for the mutation runs.
KeptForHalf == Window \div 2

-----------------------------------------------------------------------------
\* What a check finds in the bucket.  When another check has stored a later
\* time than its own, time_passed is negative.
Refilled(c) ==
  IF now < expiry
    THEN Min({Full, tokens + (stamp[c] - lastUpdate) * Limit})
    ELSE Full

TimeToLive == 2 * Window

ReadClock(c) ==
  /\ pc[c] = "idle"
  /\ pc' = [pc EXCEPT ![c] = "stamped"]
  /\ stamp' = [stamp EXCEPT ![c] = now]
  /\ UNCHANGED <<now, tokens, lastUpdate, expiry, balance, granted, bucketHistory>>

\* GET, and the verdict; a refused check stores nothing.
Take(c) ==
  /\ pc[c] = "stamped"
  /\ IF Refilled(c) < Price
       THEN /\ pc' = [pc EXCEPT ![c] = "idle"]
            /\ UNCHANGED <<balance, seen>>
       ELSE /\ pc' = [pc EXCEPT ![c] = "taken"]
            /\ balance' = [balance EXCEPT ![c] = Refilled(c) - Price]
            /\ seen' = [seen EXCEPT ![c] = counted]
  /\ prompt' = (prompt /\ now - stamp[c] <= Window)
  /\ UNCHANGED <<now, tokens, lastUpdate, expiry, stamp, granted, counted>>

\* SET: whatever other checks stored since this one's GET is overwritten.
Store(c) ==
  /\ tokens' = balance[c]
  /\ lastUpdate' = stamp[c]
  /\ expiry' = now + TimeToLive

Finish(c) ==
  /\ pc' = [pc EXCEPT ![c] = "idle"]
  /\ stamp' = [stamp EXCEPT ![c] = 0]
  /\ balance' = [balance EXCEPT ![c] = 0]
  /\ seen' = [seen EXCEPT ![c] = 0]

Allow(c) ==
  /\ pc[c] = "taken"
  /\ Store(c)
  /\ granted' = granted + 1
  /\ counted' = seen[c] + 1
  /\ Finish(c)
  /\ UNCHANGED <<now, prompt>>

\* The check dies in an await, before or after Redis executed its SET.
Lose(c) ==
  /\ pc[c] # "idle"
  /\ \/ UNCHANGED <<tokens, lastUpdate, expiry, counted>>
     \/ pc[c] = "taken" /\ Store(c) /\ counted' = seen[c]
  /\ Finish(c)
  /\ UNCHANGED <<now, granted, prompt>>

\* At its bound the clock stands still.
Tick ==
  /\ now' = IF now < MaxTime THEN now + 1 ELSE now
  /\ UNCHANGED <<tokens, lastUpdate, expiry, pc, stamp, balance, granted, bucketHistory>>

Next == Tick \/ \E c \in Clients : ReadClock(c) \/ Take(c) \/ Allow(c) \/ Lose(c)

Spec == Init /\ [][Next]_vars

-----------------------------------------------------------------------------
\* The allowed checks that the bucket no longer accounts for: a SET dropped them
\* that other checks had stored after its GET.
Undone == granted - counted

\* Whatever concurrent checks spend beyond the full bucket and what time refilled is
\* only what their SETs undo of one another: neither a clock read before another
\* check's SET (time_passed is negative then), nor a lost check, nor the key's expiry
\* gives tokens away.  Once a check has needed longer than a window from its clock to
\* its GET nothing is said: it may find a key that expired meanwhile, and date the new
\* bucket back (rate_limiter.py, GET and SET).
OverrunIsUndone ==
  prompt => granted * Price <= Full + now * Limit + Undone * Price

\* docs/rate-limiting.md: the bucket "allows burst traffic while maintaining
\* long-term rate limits": over any time t no more than the full bucket and what was
\* refilled, Limit * t / Window, is spent.  Two checks that overlap break it (finding).
LongTermLimit == granted * Price <= Full + now * Limit
=============================================================================
