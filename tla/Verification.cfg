SPECIFICATION CallSpec
CONSTANTS
  some = some
  Value <- MCValue
  Zero = Zero
  Absent = Absent
  Error = Error
  MaxRetries = 2
  MaxChanges = 3
INVARIANTS
  TypeOK
  PassIsTrue
  FreshPassIsCaughtUp
  FailureHasReason
  DelaysBounded
PROPERTY HelperEnds
CHECK_DEADLOCK FALSE
