\* Two calls, three requests (a retry of one, or of neither), two argument
\* digests, one restart.
SPECIFICATION Spec
CONSTANTS
  Call = {c1, c2}
  Request = {q1, q2, q3}
  Params = {p1, p2}
  MaxRestarts = 1
  None = None
SYMMETRY Symmetry
CHECK_DEADLOCK FALSE
INVARIANTS
  TypeOK
  OneAtATime
  ApprovalRespected
  WaitingIsOwned
  StopReconciled
PROPERTIES
  StartsWhileLive
  CallsFollowLedger
