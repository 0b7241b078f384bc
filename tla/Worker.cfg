SPECIFICATION Spec
CONSTANTS
  MaxFile = 2
  MaxTimeouts = 3
  Body = {b1, b2}
  Asker = {b1, b2}
  DefaultOperator = DefaultOperator
  NoOperator = NoOperator
SYMMETRY Symmetry
INVARIANTS
  TypeOK
  PayerAsIntended
  SessionsEnd
  ClientsAreClosed
CHECK_DEADLOCK FALSE
