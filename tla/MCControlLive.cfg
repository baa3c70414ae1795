SPECIFICATION FairSpec
CONSTANTS
  Req = {r1, r2}
  NoReq = NoReq
  Base = Base
  Limit = 1
  Ops = {"start", "fork", "fork_reserve", "fork_cancel", "handoff", "handoff_release", "handoff_abandon",
         "cleanup_status", "snapshot", "snapshot_close", "db_close", "db_cleanup"}
PROPERTIES
  CancelledReply
CHECK_DEADLOCK FALSE
