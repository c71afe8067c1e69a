SPECIFICATION Spec
CONSTANTS
    Session = {s1, s2}
    File = {f1}
    Name = {n1, n2}
    Cell = {c1, c2}
    MaxOpens = 2
    MaxKernels = 2
    Removed = Removed
    None = None
INVARIANTS TypeOK KernelsOwned FileFollowsMemory OutputsOfItsCell
CONSTRAINT UntilHurt
CHECK_DEADLOCK FALSE
SYMMETRY Symmetry
