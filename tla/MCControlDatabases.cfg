SPECIFICATION Spec
CONSTANTS
  Req = {r1, r2, r3}
  NoReq = NoReq
  Base = Base
  Limit = 1
  Ops = {"fork", "snapshot", "db_close", "db_cleanup", "snapshot_close"}
SYMMETRY Symmetry
INVARIANTS
  DisposedIsTrue
  NothingLost
  OwnerCanRelease
  ClosedIsReleased
  ShutdownIsIdle
CHECK_DEADLOCK FALSE
