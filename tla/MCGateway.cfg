SPECIFICATION GatewaySpec
CONSTANTS
  FailureThreshold = 3
  SuccessThreshold = 2
  RecoveryTimeout = 2
  FailureCountCap = 4
  RunCap = 4
  Calls = {c1, c2, c3}
  s1 = s1
  s2 = s2
  Services <- MCServices
  Configured <- MCConfigured
  Urls = {"u1", "u2"}
  Size = 3
  Weight <- MCWeight
  MaxPicks = 9
  Clients = {c1, c2}
  Limit = 1
  Window = 3
  Cost = 1
  MaxTime = 6
INVARIANTS TypeOK Consistent Fair TrackedIsRegistered LimiterTypeOK NothingForgotten OverrunBounded ExactInWindow OverrunIsUndone
PROPERTIES Recovers KeepsContract ProbedAgain
