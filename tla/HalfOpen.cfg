SPECIFICATION HSpec
CONSTANTS
  FailureThreshold = 3
  SuccessThreshold = 2
  RecoveryTimeout = 2
  FailureCountCap = 4
  RunCap = 4
  Calls = {c1, c2, c3}
PROPERTY HalfOpenReopens
