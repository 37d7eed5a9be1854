\* Two submissions and two reloads of a page that may run start() twice.
CONSTANTS
  None = None
  Keys = {k1, k2}
  Handlers = {h1, h2}
  First = h1
  Second = h2
  Reloads = 2
SPECIFICATION FairSpec
CHECK_DEADLOCK FALSE
INVARIANTS
  TypeOK
  OneBooking
  NoticeIsTrue
  NeverDraggedBack
PROPERTIES
  FormAnswers
