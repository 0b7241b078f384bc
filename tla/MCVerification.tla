--------------------------- MODULE MCVerification ---------------------------
(* Instances of Verification for TLC: a quantity that can be missing, zero or
   one other thing. *)
EXTENDS Verification

CONSTANT some

MCValue == {Absent, Zero, some}
=============================================================================
