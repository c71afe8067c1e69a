SPECIFICATION Spec
CONSTANTS
    Plan = {p1}
    Call = {c1, c2}
    CheckClaim = {k1}
    AgentClaim = {k2}
    Precheck = TRUE
    None = None
INVARIANTS TypeOK AnsweredIsStored 
CONSTRAINT UntilOvertaken
CHECK_DEADLOCK FALSE
SYMMETRY Symmetry
