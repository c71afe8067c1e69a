-------------------------- MODULE MCArtifactStore --------------------------
(* A small instance of ArtifactStore: one session with its living report   *)
(* and one artifact, and a second session.                                 *)
EXTENDS ArtifactStore, TLC

CONSTANTS a1, s1

MCLivingReport == s1 :> a1

MCSymmetry == Permutations(Contents) \cup Permutations(Notes)

=============================================================================
