SPECIFICATION FairSpec
CONSTANTS
  FailureThreshold = 2
  SuccessThreshold = 1
  RecoveryTimeout = 1
  FailureCountCap = 2
  Requests = {r1, r2}
  Instances = {i1, i2}
  MaxAttempts = 2
  NoInstance = NoInstance
INVARIANTS TypeOK ConnectionsMatch
PROPERTIES SentWhereAllowed RequestEnds ServedAgain ImplementsBreaker
