SPECIFICATION Spec
CONSTANTS
    a1 = a1
    s1 = s1
    Artifacts = {a1, a2}
    Sessions = {s1}
    Contents = {c1, c2}
    Notes = {n1, n2}
    LivingReport <- MCLivingReport
    MaxVersion = 2
    MaxTears = 1
    None = None
INVARIANTS
    AckedServed
    NotesKept
PROPERTY NeverRewritten
SYMMETRY MCSymmetry
CHECK_DEADLOCK FALSE
