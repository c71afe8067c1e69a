------------------------- MODULE MCSessionHistory -------------------------
EXTENDS SessionHistory, TLC

(* Tasks are told apart by nothing but their identity.                     *)
Symmetry == Permutations(Task)
=============================================================================
