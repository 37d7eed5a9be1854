------------------------------ MODULE SlotGrid ------------------------------
(***************************************************************************)
(* Time zones and the grid of starts (lib/availability/timezone.ts and    *)
(* slots.ts), as operators.  Time is counted in steps of a fixed length;  *)
(* a zone has one change of offset, as a year has around each of its two, *)
(* and a local time is the instant a clock showing it would show in UTC.  *)
(* The schedule of a place: its zone and the windows of each weekday.     *)
(***************************************************************************)
EXTENDS Integers

CONSTANTS
    Day,              \* steps in 24 hours
    Week,             \* days after which weekdays repeat
    RescheduleStep    \* RESCHEDULE_SLOT_INCREMENT_MIN

ASSUME GridAssumption ==
    Day \in Nat \ {0} /\ Week \in Nat \ {0} /\ RescheduleStep \in Nat \ {0}

-----------------------------------------------------------------------------
(* Intl.DateTimeFormat: the offset of an instant, and what a clock there shows. *)
ZoneOffset(z, u) == IF u < z.at THEN z.before ELSE z.after
Local(z, u) == u + ZoneOffset(z, u)
DateOf(z, u) == Local(z, u) \div Day
Weekday(date) == date % Week

(* Mutant: the offset of the first guess is kept. *)
OneGuess(z, date, time) ==
    LET guess == date * Day + time IN guess - ZoneOffset(z, guess)
(* The instant a local time names: two guesses, and a third where they disagree. *)
ZonedLocalToUtc(z, date, time) ==
    LET guess == date * Day + time
        offset == ZoneOffset(z, guess - ZoneOffset(z, guess))
        adjusted == guess - offset
    IN  guess - ZoneOffset(z, adjusted)

-----------------------------------------------------------------------------
(* expandWeeklyWindows: the windows of every local date the range touches. *)
ExpandWeekly(place, timeMin, timeMax) ==
    {[start |-> ZonedLocalToUtc(place.zone, dw[1], dw[2].start),
      end |-> ZonedLocalToUtc(place.zone, dw[1], dw[2].end)] :
        dw \in {x \in (DateOf(place.zone, timeMin) .. DateOf(place.zone, timeMax)) \X place.windows :
                  Weekday(x[1]) = x[2].weekday}}

Overlaps(a, b) == a.start < b.end /\ b.start < a.end
SlotAt(t, len) == [start |-> t, end |-> t + len]

(* The starts a window generates, `inc` apart from its own start. *)
StartsIn(w, len, inc) == {t \in w.start .. (w.end - len) : (t - w.start) % inc = 0}

(* gridStarts. *)
GridStarts(place, len, inc, timeMin, timeMax) ==
    {t \in UNION {StartsIn(w, len, inc) : w \in ExpandWeekly(place, timeMin, timeMax)} :
        timeMin <= t /\ t + len <= timeMax}

(* listAvailableTimes: the grid, less what overlaps a busy interval. *)
ListAvailableTimes(place, len, inc, timeMin, timeMax, busy) ==
    {t \in GridStarts(place, len, inc, timeMin, timeMax) :
        \A iv \in busy : ~Overlaps(SlotAt(t, len), iv)}

(* The step of a grid: its own length for the public page, at most RescheduleStep for a   *)
(* move of a booking (rescheduleIncrementFor).                                            *)
Increment(len, move) == IF move /\ RescheduleStep < len THEN RescheduleStep ELSE len

(* isPublicCandidateStart and isRescheduleCandidateStart, which the mutations ask again:  *)
(* the grid of a day on either side.  A move never goes to the start it has.              *)
OnGrid(place, len, move, t) ==
    t \in GridStarts(place, len, Increment(len, move), t - Day, t + Day)
IsCandidate(place, len, move, current, t) == OnGrid(place, len, move, t) /\ ~(move /\ t = current)

-----------------------------------------------------------------------------
(* Reference: the instants at which a clock shows a local time.  A skipped local time     *)
(* has none, a repeated one two.                                                          *)
Shows(z, l) == {u \in {l - z.before, l - z.after} : Local(z, u) = l}
Plain(z, l) == \E u \in Shows(z, l) : Shows(z, l) = {u}
=============================================================================
