\* Four generations of bundles on three addresses, which come back, and two
\* runs with callbacks.
CONSTANTS
  b0 = b0
  b1 = b1
  b2 = b2
  b3 = b3
  Bundle = {b0, b1, b2, b3}
  Provisional = b0
  Address = {a0, a1, a2}
  Runtime = {dataclaw, hermes}
  Run = {r1, r2}
  MaxCallbacks = 1
  AddressReuse = TRUE
  None = None
SPECIFICATION Spec
SYMMETRY Symmetry
INVARIANTS
  InUseNeverClosed
  ClosedAtMostOnce
  NoIdleRetired
CHECK_DEADLOCK FALSE
