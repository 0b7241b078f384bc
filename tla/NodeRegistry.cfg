SPECIFICATION Spec
CONSTANTS
  Node = {n1, n2}
  Body = {b1}
  MaxFile = 2
  Privileged = FALSE
  NoNode = NoNode
  NoBody = NoBody
INVARIANTS
  TypeOK
  SettledNodesAreGone
  HeldOnce
  CountsExact
PROPERTIES
  ImplementsAccounting
  HooksEnd
  DrainsSettle
CHECK_DEADLOCK FALSE
