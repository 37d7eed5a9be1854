\* Four calls over two slots and two hosts.
CONSTANTS
  None = None
  Gone = Gone
  NCalls = 4
  Slots <- MCSlots
  Types <- MCTypes
  HostsOf <- MCHostsOf
  LengthOf <- MCLengthOf
  Seats <- MCSeats
  CalendarBusy <- MCCalendarBusy
SPECIFICATION Spec
CHECK_DEADLOCK FALSE
INVARIANTS
  TypeOK
  HostsHeldOnce
  EventFollowsBooking
  NoWaitingCircle
