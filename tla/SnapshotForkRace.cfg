SPECIFICATION FairSpec
CONSTANTS
  Call = {c1}
  NoCall = NoCall
  Limit = 1
  Closer = {}
PROPERTIES
  DisposedChildFreesSlot
CHECK_DEADLOCK FALSE
