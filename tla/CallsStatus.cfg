SPECIFICATION Spec
CONSTANTS
  ann = ann
  bob = bob
  r1 = r1
  w1 = w1
  w2 = w2
  Users = {ann, bob}
  Requests = {r1}
  Workers = {w1, w2}
  MaxClock = 3
  Owner <- AllAnn
  RingTime <- OneTick
  HasHook <- WithHook
INVARIANTS
  InitiatedCallIsFound
CHECK_DEADLOCK FALSE
