\* Two moves; a COMMIT response may be lost.
CONSTANTS
  wa = wa
  wb = wb
  wc = wc
  None = None
  Origin = origin
  T0 = 0
  Workers = {wb, wc}
  Scenarios <- SettleFailed
  Target <- MCTarget
SPECIFICATION Spec
CHECK_DEADLOCK FALSE
INVARIANTS
  FailedMeansUnwritten
