\* an IPv6 and an IPv4 route behind each other
SPECIFICATION Spec
CONSTANTS
  Batches <- RouteBatches
  Garbage = {}
  MaxFrames = 2
INVARIANTS
  NoAssertionFails
CHECK_DEADLOCK FALSE
