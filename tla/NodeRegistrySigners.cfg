SPECIFICATION Spec
CONSTANTS
  Node = {n1}
  Body = {b1}
  MaxFile = 1
  Privileged = FALSE
  NoNode = NoNode
  NoBody = NoBody

INVARIANT SignersSuffice

CHECK_DEADLOCK FALSE
