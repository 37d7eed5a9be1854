\* A move and a cancel, lost COMMITs and a host who deletes an event; and a create, its replay
\* and a cancel, with late inserts and lost COMMITs.
CONSTANTS
  wa = wa
  wb = wb
  wc = wc
  None = None
  Origin = origin
  T0 = 0
  Workers = {wa, wb, wc}
  Scenarios <- Interrupted
  Target <- MCTarget
SPECIFICATION FairSpec
CHECK_DEADLOCK FALSE
INVARIANTS
  FailedMeansUnwritten
PROPERTIES
  EveryCallAnswers
