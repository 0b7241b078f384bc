SPECIFICATION Spec
CONSTANTS
  some = some
  Value <- MCValue
  Zero = Zero
  Absent = Absent
  Error = Error
  MaxRetries = 2
  MaxChanges = 2
INVARIANT MarkedAsVerified
CHECK_DEADLOCK FALSE
