SPECIFICATION FairSpec
CONSTANTS
  Conn = {a, b}
  Slots = 1
  FoundRows = FALSE
  Waits = TRUE
INVARIANTS
  TransferOutlivesUsers
PROPERTIES
  CloseDrains
  ExitCloses
  WaiterReturns
CHECK_DEADLOCK FALSE
