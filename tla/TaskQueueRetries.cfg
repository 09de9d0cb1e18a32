SPECIFICATION Spec
CONSTANTS
  Tasks = {t1}
  Slots = {s1}
  MaxRetries = 1
  Limit = 1
  MaxFailures = 2
  MaxFaults = 0
INVARIANTS RetriesBounded
CHECK_DEADLOCK FALSE
