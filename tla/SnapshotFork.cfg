SPECIFICATION FairSpec
CONSTANTS
  Call = {c1, c2}
  NoCall = NoCall
  Limit = 1
  Closer = {k1}
INVARIANTS
  SlotUntilDisposed
  BackingOutlivesReaders
PROPERTIES
  PoolSpec
  CloseReturns
  ForkReturns
  TrackedSlotReleased
CHECK_DEADLOCK FALSE
