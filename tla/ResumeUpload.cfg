CONSTANTS
  Uploads = {u1}
  LastChunk = 1
  Requests = {r1, r2}
  Janitor = janitor
  MaxFaults = 1
SPECIFICATION Spec
INVARIANTS ListedIsWritten StoredWhole SavedAtRest
PROPERTIES Finishes Swept NothingTruncated
CHECK_DEADLOCK FALSE
