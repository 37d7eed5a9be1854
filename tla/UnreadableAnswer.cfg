\* One load of the page; every answer may be lost, or its body cut off.
CONSTANTS
  None = None
  Keys = {k1, k2}
  Handlers = {h1, h2}
  First = h1
  Second = h2
  Reloads = 1
SPECIFICATION Spec
CHECK_DEADLOCK FALSE
INVARIANTS
  CommittedIsKnown
