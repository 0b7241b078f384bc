------------------------------ MODULE MCWorker ------------------------------
(* Instances of Worker for TLC. *)
EXTENDS Worker, TLC

\* Bodies are interchangeable, as tests and as the operators they create.
Symmetry == Permutations(Body)
=============================================================================
