\* A create whose T1 response is lost, and a notify.
CONSTANTS
  wa = wa
  wb = wb
  wc = wc
  None = None
  Origin = origin
  T0 = 0
  Workers = {wa, wb}
  Scenarios <- TwoOwners
  Target <- MCTarget
SPECIFICATION Spec
CHECK_DEADLOCK FALSE
INVARIANTS
  OneOwner
