\* Two moves of a booking whose calendar failed; Google answers everything.
CONSTANTS
  wa = wa
  wb = wb
  wc = wc
  None = None
  Origin = origin
  T0 = 0
  Workers = {wb, wc}
  Scenarios <- StrandedFallback
  Target <- MCTarget
SPECIFICATION Spec
CHECK_DEADLOCK FALSE
INVARIANTS
  NothingStranded
