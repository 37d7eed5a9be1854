CONSTANTS
  r1 = r1
  r2 = r2
  r3 = r3
  k1 = k1
  k2 = k2
  p1 = p1
  p2 = p2
  None = None
  Requests <- MCRequests
  Keys <- MCKeys
  Prints <- MCPrints
  Windows <- MCWindows
  WindowOf <- MCWindowOf
CHECK_DEADLOCK FALSE
SYMMETRY MCSymmetry
SPECIFICATION Spec
INVARIANTS
  TypeOK
  NoDoubleBooking
  FencedNeverBooked
  OneBookingPerKey
  AnswersHold
  WorkHasOwner
