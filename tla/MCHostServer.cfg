SPECIFICATION Spec
CONSTANTS
  Conn = {a, b}
  Slots = 2
  FoundRows = TRUE
  Waits = FALSE
SYMMETRY Symmetry
INVARIANTS
  FreeSlotIsClean
  NoRefusal
  CaptureIsQuiescent
CHECK_DEADLOCK FALSE
