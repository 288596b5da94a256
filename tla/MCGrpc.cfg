\* the connection manager thread against the event loop
SPECIFICATION FairSpec
CONSTANTS
  MaxPipe = 2
INVARIANTS
  NoUseAfterFree
PROPERTIES
  LossIsReported
  ReadyIsReported
  ResetReturns
  ImplementsRib
