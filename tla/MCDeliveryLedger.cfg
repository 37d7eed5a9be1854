CONSTANTS
  c1 = c1
  c2 = c2
  Callers = {c1, c2}
  Pairs = 2
SPECIFICATION Spec
CHECK_DEADLOCK FALSE
SYMMETRY AnyOrder
INVARIANTS
  TypeOK
  CopiesAgree
  SettledByLatest
PROPERTIES
  ClaimsAreCurrent
