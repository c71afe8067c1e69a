SPECIFICATION FairSpec
CONSTANTS
    Call = {c1, c2, c3}
    MaxTurns = 2
    MaxStored = 1
    None = None
INVARIANTS TypeOK StartedWasAllowed PromptsAgree TurnsAnswered OwnResult
PROPERTIES CallsFollowLedger PromptsSettle
CHECK_DEADLOCK FALSE
