\* Four clicks, one of them perhaps followed by an automatic retry, against one change by
\* somebody else.
CONSTANTS
  None = None
  Clicks = 4
  Others = 1
SPECIFICATION FairSpec
CHECK_DEADLOCK FALSE
INVARIANTS
  TypeOK
  NothingSpins
  ResendsAreSafe
  OneAtATime
PROPERTIES
  ShownNeverOlder
  PendingEnds
