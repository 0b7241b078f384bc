SPECIFICATION Spec
CONSTANTS
  MaxRuns = 3
  MaxLines = 3
  None = None
  Garbled = Garbled
INVARIANTS
  TypeOK
  GreenIsOwn
  TotalsAreExact
  InfoIsOfOneRun
CHECK_DEADLOCK FALSE
