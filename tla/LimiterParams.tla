---------------------------- MODULE LimiterParams ----------------------------
(***************************************************************************)
(* The parameters of RateLimiter.check_rate_limit                          *)
(* (services/api-gateway/src/core/rate_limiter.py), shared by the modules  *)
(* of its three strategies.                                                *)
(***************************************************************************)
EXTENDS Integers, FiniteSets

CONSTANTS Clients,  \* concurrent checks of one identifier
          Limit,    \* maximum cost allowed per window
          Window,   \* length of the window, in units of the clock
          Cost,     \* cost of a check
          MaxTime   \* bound on the clock

ASSUME LimiterAssumption ==
  /\ IsFiniteSet(Clients) /\ Clients # {}
  /\ Limit \in Nat \ {0}
  /\ Window \in Nat \ {0}
  /\ Cost \in Nat \ {0}
  /\ MaxTime \in Nat
=============================================================================
