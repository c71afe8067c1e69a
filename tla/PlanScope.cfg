SPECIFICATION Spec
CONSTANTS
    Plan = {p1}
    Call = {c1}
    CheckClaim = {k1}
    AgentClaim = {k2}
    Precheck = FALSE
    None = None
INVARIANTS SubagentScope
CHECK_DEADLOCK FALSE
