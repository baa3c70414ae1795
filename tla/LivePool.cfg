SPECIFICATION FairLiveSpec
CONSTANTS
  Child = {x1, x2, x3}
  Conn = {k1}
  NoChild = NoChild
  ChildCapacity = 1
  Other = {o1}
  NoCall = NoCall
  Limit = 2
INVARIANTS
  SlotPerChild
  ResetFindsSlot
  ConnectionsStayOnChild
  NoOrphanChild
PROPERTIES
  StartsWithoutDebt
  ResetSettles
