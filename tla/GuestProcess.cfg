SPECIFICATION FairSpec
CONSTANTS
  Call = {c1, c2}
  Stop = {shutdown, export}
  Export = {export}
  Hello = Hello
  NoOne = NoOne
CHECK_DEADLOCK FALSE
INVARIANTS
  OneResponse
PROPERTIES
  Promise
  FailureReachesCalls
  ExitIsJoined
