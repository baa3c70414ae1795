SPECIFICATION Spec
CONSTANTS
  MaxU32 = 4
  ParamCounts = {0, 1, 2}
INVARIANTS
  StatementsAgree
  StreamsAgree
  AliasIsNewest
PROPERTIES
  OnlyExhaustionBreaks
CHECK_DEADLOCK FALSE
