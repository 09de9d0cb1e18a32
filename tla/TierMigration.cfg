CONSTANTS
  Keys = {k1}
  Drivers = {home, away}
  Default = home
  Requests = {r1, r2}
  Worker = worker
  Targets = {"WARM"}
  MaxAsked = 2
  MaxWrites = 2
  MaxFaults = 1
SPECIFICATION Spec
INVARIANTS TypeOK Kept
PROPERTY Answered
