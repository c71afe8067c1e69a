\* Liveness needs every state apart: no symmetry, so two requests, which are
\* two contending leaders, or a leader and its follower.
SPECIFICATION FairSpec
CONSTANTS
  Call = {c1, c2}
  Request = {q1, q2}
  Params = {p1}
  MaxRestarts = 1
  None = None
CHECK_DEADLOCK FALSE
PROPERTY EveryCallbackAnswered
