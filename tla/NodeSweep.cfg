SPECIFICATION FairSpec
CONSTANTS
  Entry <- MCEntry
  word = word
  MaxId = 4
  Privileged = TRUE
INVARIANTS
  TypeOK
  ProtectedUntouched
  WalkedIsClean
  CompleteIsClean
  SweptExact
PROPERTY SweepEnds
CHECK_DEADLOCK FALSE
