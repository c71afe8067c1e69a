---------------------------- MODULE MCHermesTools ----------------------------
(* HermesTools on a small instance; calls and requests are interchangeable. *)
EXTENDS HermesTools, TLC

Symmetry == Permutations(Call) \cup Permutations(Request) \cup Permutations(Params)
=============================================================================
