\* Three runs of an in-process runtime; no deletion, no stop before the first step.
SPECIFICATION FairSpec
CONSTANTS
  Run = {r1, r2, r3}
  External = {}
  EarlyStop = FALSE
  Deletion = FALSE
  MaxTurns = 2
  None = None
CHECK_DEADLOCK FALSE
INVARIANTS
  TaskOwnsThread
  AnswerOfFinishedRun
PROPERTY RunEnds
