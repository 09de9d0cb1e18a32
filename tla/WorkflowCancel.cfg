SPECIFICATION Spec
CONSTANTS
  Calls = {c1, c2}
  NTasks = 1
  MaxRetries = 1
  Optional = {}
PROPERTIES CancelledStays
