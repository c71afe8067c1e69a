\* Two external runs and one in-process run, stops and deletions at any time.
SPECIFICATION Spec
CONSTANTS
  Run = {r1, r2, r3}
  External = {r1, r2}
  EarlyStop = TRUE
  Deletion = TRUE
  MaxTurns = 2
  None = None
CHECK_DEADLOCK FALSE
INVARIANT EndsOnce
SYMMETRY Symmetry
