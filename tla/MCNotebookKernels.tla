------------------------- MODULE MCNotebookKernels -------------------------
(* Sessions, names and cell ids are only compared.                         *)
EXTENDS NotebookKernels, TLC

Symmetry == Permutations(Session) \cup Permutations(Name) \cup Permutations(Cell)

(* Bounds: a behaviour is followed to the first notebook object that is    *)
(* hurt and the first file that strays, and with an unsaved notebook while *)
(* one kernel at most was started.                                         *)
UntilHurt ==
    /\ hurt = {} /\ strayed = {}
    /\ unsaved # {} => Len(kernel) <= 1
=============================================================================
