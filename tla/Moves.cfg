\* From nothing, a create with its replay or a move, and a cancel; from a finished or failed
\* creation, a repairing notify with a move and a cancel or with one move, or a reaping read
\* with two moves.
CONSTANTS
  wa = wa
  wb = wb
  wc = wc
  None = None
  Origin = origin
  T0 = 0
  Workers = {wa, wb, wc}
  Scenarios <- Moves
  Target <- MCTarget
SPECIFICATION Spec
CHECK_DEADLOCK FALSE
INVARIANTS
  TypeOK
  InsertsOnRecord
  StrandedByMovesOnly
  OneOwner
  EventAgrees
  CreationAccounted
  AnswersAreTrue
PROPERTIES
  RetiredStaysRetired
  RowsImplemented
