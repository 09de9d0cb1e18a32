----------------------------- MODULE RateLimiter -----------------------------
(***************************************************************************)
(* RateLimiter.check_rate_limit: the concurrent checks of one identifier,  *)
(* by the strategy its rule has.  A rule never changes and each strategy   *)
(* has keys of its own in Redis, so the strategy is chosen once.           *)
(*                                                                         *)
(* state is what Redis holds under the identifier's keys: the sorted set,  *)
(* the counter of each window, or the tokens of the bucket.  The variables *)
(* mean what they mean in the strategy's module.                           *)
(***************************************************************************)
EXTENDS LimiterParams

VARIABLES rule,                 \* the strategy of the rule
          now, state, expiry,
          pc,                   \* of a sliding window and a bucket
          stamp, granted,
          lastUpdate, balance,  \* of a token bucket only, with its history
          counted, seen, prompt

bucketVars == <<lastUpdate, balance, counted, seen, prompt>>
limiterVars == <<rule, now, state, expiry, pc, stamp, granted, bucketVars>>

Sliding == INSTANCE SlidingWindow WITH entries <- state
Fixed   == INSTANCE FixedWindow   WITH counter <- state
Bucket  == INSTANCE TokenBucket   WITH tokens <- state

LimiterTypeOK ==
  CASE rule = "sliding_window" -> Sliding!TypeOK
    [] rule = "fixed_window"   -> Fixed!TypeOK
    [] rule = "token_bucket"   -> Bucket!TypeOK

NoBucket == lastUpdate = 0 /\ balance = 0 /\ Bucket!HistoryInit

LimiterInit ==
  \/ rule = "sliding_window" /\ Sliding!Init /\ NoBucket
  \/ rule = "fixed_window" /\ Fixed!Init /\ NoBucket /\ pc = 0
  \/ rule = "token_bucket" /\ Bucket!Init

LimiterNext ==
  /\ \/ rule = "sliding_window" /\ Sliding!Next /\ UNCHANGED bucketVars
     \/ rule = "fixed_window" /\ Fixed!Next /\ UNCHANGED <<pc, bucketVars>>
     \/ rule = "token_bucket" /\ Bucket!Next
  /\ UNCHANGED rule

LimiterSpec == LimiterInit /\ [][LimiterNext]_limiterVars

-----------------------------------------------------------------------------
\* A sliding window remembers every allowed check of the last Window
\* (rate_limiter.py, the clean-up by score and the key's expiry).
NothingForgotten == rule = "sliding_window" => Sliding!NothingForgotten

\* Concurrent checks overrun a sliding window by less than one each
\* (rate_limiter.py, the two pipelines).
OverrunBounded == rule = "sliding_window" => Sliding!OverrunBounded

\* A fixed window is exact while it lasts (rate_limiter.py, INCRBY and EXPIRE).
ExactInWindow == rule = "fixed_window" => Fixed!ExactInWindow

\* Concurrent checks of a token bucket overrun its long-term limit by no more than
\* what their SETs undo of one another (rate_limiter.py, GET and SET).
OverrunIsUndone == rule = "token_bucket" => Bucket!OverrunIsUndone

\* docs/rate-limiting.md: a token bucket maintains its long-term limit.  The code's
\* GET and SET lose updates of concurrent checks (rate_limiter.py): violated.
LongTermLimit == rule = "token_bucket" => Bucket!LongTermLimit
=============================================================================
