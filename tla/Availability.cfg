\* Two readers, two retired ids, one move, one edit; and single reads around a clock change.
CONSTANTS
  None = None
  Live = Live
  Foreign = Foreign
  Leftovers <- MCLeftovers
  Readers = {r1, r2}
  Places <- MCPlaces
  Day = 8
  Week = 3
  RescheduleStep = 1
  ReapMax = 1
SPECIFICATION Spec
CHECK_DEADLOCK FALSE
SYMMETRY AnyReader
INVARIANTS
  TypeOK
  OfferedIsFree
  GridIsSound
PROPERTIES
  NoIdPassedOver
