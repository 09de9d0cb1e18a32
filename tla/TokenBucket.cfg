SPECIFICATION LimiterSpec
CONSTANTS
  Clients = {c1, c2}
  Limit = 2
  Window = 3
  Cost = 1
  MaxTime = 6
INVARIANT LongTermLimit
