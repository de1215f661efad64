SPECIFICATION FairSpec
CONSTANTS
  Ctx = {c1, c2, c3, c4}
  NULL = NULL
CHECK_DEADLOCK FALSE
INVARIANTS
  TypeOK
  RunningListsLive
  FaultOnlyAfterSelfTransfer
  YieldPicksAnother
PROPERTIES
  ReturnsWhenAllDone
  StartReturns
