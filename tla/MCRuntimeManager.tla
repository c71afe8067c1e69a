-------------------------- MODULE MCRuntimeManager --------------------------
(* Small instances of RuntimeManager for TLC. *)
EXTENDS RuntimeManager, TLC

(* Runs and addresses are interchangeable; bundles are not (Provisional is *)
(* one of them).                                                           *)
Symmetry == Permutations(Run) \cup Permutations(Address)
=============================================================================
