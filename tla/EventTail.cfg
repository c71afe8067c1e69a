\* Two runs, a client that may leave and come back, a log that keeps two of
\* four events.  No symmetry: liveness.
SPECIFICATION FairSpec
CONSTANTS
  Run = {r1, r2}
  Stream = {t1}
  Cap = 2
  MaxEvents = 4
  None = None
CHECK_DEADLOCK FALSE
INVARIANTS
  NoLostWakeup
  OnlyTheCapSkips
  ClosedAfterTheEnd
PROPERTY StreamsClose
