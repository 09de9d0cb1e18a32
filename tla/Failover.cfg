SPECIFICATION Spec
CONSTANTS
  A = A
  B = B
  C = C
  Order <- MCOrder
  Home = B
  Requests = {r1, r2}
  Monitor = monitor
  Thresholds = {1, 2}
  Cap = 2
  MaxAsked = 2
  MaxFaults = 1
INVARIANTS HomeAtRest AutomaticOnlyAtStart
PROPERTY ComesHome
