SPECIFICATION Spec
CONSTANTS
  Tasks = {t1}
  Slots = {s1, s2}
  MaxRetries = 1
  Limit = 1
  MaxFailures = 3
  MaxFaults = 2
INVARIANTS TypeOK NothingLost RunsOnce
PROPERTIES CarriedOut
CHECK_DEADLOCK FALSE
