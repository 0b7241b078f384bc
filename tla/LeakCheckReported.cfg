SPECIFICATION Spec
CONSTANTS
  Attempts = 1
  MaxTx = 1
  MaxSecond = 1
  Null = Null
INVARIANT LeaksAreReported
CHECK_DEADLOCK FALSE
