SPECIFICATION PagedTeardownSpec
CONSTANTS
  Attempts = 2
  MaxTx = 3
  MaxSecond = 1
  MaxRetries = 2
  Limit = 2
  Null = Null
INVARIANTS
  PagedTypeOK
  NoFalseAlarmAtReads
  ZeroIsClean
  LeaksAreReal
  SummaryExplained
PROPERTIES
  ImplementsLeakCheck
  TeardownEnds
CHECK_DEADLOCK FALSE
