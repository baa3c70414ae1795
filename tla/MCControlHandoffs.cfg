SPECIFICATION Spec
CONSTANTS
  Req = {r1, r2, r3, r4}
  NoReq = NoReq
  Base = Base
  Limit = 1
  Ops = {"fork_reserve", "fork_cancel", "handoff", "handoff_release", "handoff_abandon", "snapshot_close"}
SYMMETRY Symmetry
INVARIANTS
  SlotUntilDisposed
  ClaimedOnce
  CleanExit
CHECK_DEADLOCK FALSE
