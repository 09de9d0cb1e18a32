CONSTANTS
  Uploads = {u1}
  LastChunk = 1
  Requests = {r1, r2}
  Janitor = janitor
  MaxFaults = 0
SPECIFICATION Spec
INVARIANT AllUploaded
CHECK_DEADLOCK FALSE
