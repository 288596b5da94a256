\* two frames under way, cut anywhere, on a stack that holds anything
SPECIFICATION FairSpec
CONSTANTS
  Batches <- RouteBatches
  Garbage = {56}
  MaxFrames = 2
INVARIANTS
  InStep
  NothingHeldBack
PROPERTIES
  EventuallyHandedOver
  ImplementsLink
CHECK_DEADLOCK FALSE
