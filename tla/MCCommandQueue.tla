--------------------------- MODULE MCCommandQueue ---------------------------
(* Model-checking instance of CommandQueue. *)
EXTENDS CommandQueue, TLC

Symmetry == Permutations(Task)
=============================================================================
