SPECIFICATION CallSpec
CONSTANTS
  MaxRetries = 3
  Limit = 2
  MaxStream = 6
INVARIANT AnswerIsSnapshot
PROPERTY CallEnds
CHECK_DEADLOCK FALSE
