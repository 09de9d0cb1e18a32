----------------------------- MODULE FixedWindow -----------------------------
(***************************************************************************)
(* RateLimiter._fixed_window_limit for one identifier: a Redis counter per *)
(* window, incremented and given a new time to live by one pipeline, which *)
(* concurrent checks of several gateway workers reach some time after they *)
(* read the clock that says which window they belong to.                   *)
(***************************************************************************)
EXTENDS LimiterParams

\* window_id, and the windows the bounded clock comes to.
WindowOf(t) == t \div Window
Windows == {WindowOf(t) : t \in 0..MaxTime}

VARIABLES now,
          counter,  \* the value of each window's key, 0 when it is absent
          expiry,   \* when Redis drops each key
          stamp,    \* the current_time of each check, NoStamp when it is idle
          granted   \* per window: the cost of the checks of it that were allowed

vars == <<now, counter, expiry, stamp, granted>>

NoStamp == -1

TypeOK ==
  /\ now \in 0..MaxTime
  /\ counter \in [Windows -> 0..Limit + Cost]
  /\ expiry \in [Windows -> 0..MaxTime + Window]
  /\ stamp \in [Clients -> NoStamp..MaxTime]
  /\ granted \in [Windows -> Nat]

Init ==
  /\ now = 0
  /\ counter = [w \in Windows |-> 0]
  /\ expiry = [w \in Windows |-> 0]
  /\ stamp = [c \in Clients |-> NoStamp]
  /\ granted = [w \in Windows |-> 0]

-----------------------------------------------------------------------------
\* Near misses for the mutation runs.
ExpiresEarly(w) == expiry' = [expiry EXCEPT ![w] = now + Window - 1]

-----------------------------------------------------------------------------
Allows(n) == n <= Limit

Expire(w) == expiry' = [expiry EXCEPT ![w] = now + Window]

ReadClock(c) ==
  /\ stamp[c] = NoStamp
  /\ stamp' = [stamp EXCEPT ![c] = now]
  /\ UNCHANGED <<now, counter, expiry, granted>>

\* INCRBY and EXPIRE on the key of the window the check belongs to, refused
\* checks included.  Counts above the limit are not told apart.
Increment(w) ==
  LET n == IF now < expiry[w] THEN counter[w] ELSE 0 IN
  /\ counter' = [counter EXCEPT ![w] = IF n > Limit THEN n ELSE n + Cost]
  /\ Expire(w)

Check(c) ==
  LET w == WindowOf(stamp[c]) IN
  /\ stamp[c] # NoStamp
  /\ Increment(w)
  /\ granted' = IF Allows(counter'[w]) THEN [granted EXCEPT ![w] = @ + Cost] ELSE granted
  /\ stamp' = [stamp EXCEPT ![c] = NoStamp]
  /\ UNCHANGED now

\* The check dies in its await, before or after Redis executed the pipeline.
Lose(c) ==
  /\ stamp[c] # NoStamp
  /\ UNCHANGED <<counter, expiry>> \/ Increment(WindowOf(stamp[c]))
  /\ stamp' = [stamp EXCEPT ![c] = NoStamp]
  /\ UNCHANGED <<now, granted>>

\* At its bound the clock stands still.
Tick ==
  /\ now' = IF now < MaxTime THEN now + 1 ELSE now
  /\ UNCHANGED <<counter, expiry, stamp, granted>>

Next == Tick \/ \E c \in Clients : ReadClock(c) \/ Check(c) \/ Lose(c)

Spec == Init /\ [][Next]_vars

-----------------------------------------------------------------------------
\* As long as a window lasts, checks of no more than Limit in all are allowed,
\* however many run at once: the key never expires inside its window.  (A check
\* that comes to Redis after the window may find the key gone and is allowed
\* whatever the count was.)
ExactInWindow ==
  \A w \in Windows : now < (w + 1) * Window => granted[w] <= Limit
=============================================================================
