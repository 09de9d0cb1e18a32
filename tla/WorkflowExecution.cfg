SPECIFICATION Spec
CONSTANTS
  Calls = {c1, c2, c3}
  NTasks = 2
  MaxRetries = 1
  Optional = {2}
INVARIANTS CompletedRanAll PathIsBacked GivesUpLast RunningIsOwned
PROPERTIES StopsRunning FinalStays
