------------------------- MODULE MCFixtureBookings -------------------------
(* Two hosts.  A group of two seats and one slot, hosted by 1; a collective of two slots  *)
(* organized by 1 with 2; and one of one slot organized by 2 with 1.  The calendars hold   *)
(* nothing of their own: what they hold can only refuse a call that comes after it.        *)
EXTENDS FixtureBookings

MCTypes == {"group", "long", "short"}
MCHostsOf == [e \in MCTypes |->
                CASE e = "group" -> <<1>> [] e = "long" -> <<1, 2>> [] e = "short" -> <<2, 1>>]
MCLengthOf == [e \in MCTypes |-> IF e = "long" THEN 2 ELSE 1]
MCSeats == [e \in MCTypes |-> IF e = "group" THEN 2 ELSE 0]
MCSlots == 0 .. 1
MCCalendarBusy == {}
=============================================================================
