SPECIFICATION Spec
CONSTANTS
  Req = {r1, r2}
  NoReq = NoReq
  Base = Base
  Limit = 1
  Ops = {"start", "db_close"}
SYMMETRY Symmetry
INVARIANTS
  DisposedHandleForgotten
CHECK_DEADLOCK FALSE
