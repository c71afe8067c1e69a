--------------------------- MODULE MCRunLifecycle ---------------------------
(* RunLifecycle on a small instance. *)
EXTENDS RunLifecycle, TLC

Symmetry == Permutations(External) \cup Permutations(Run \ External)
=============================================================================
