---------------------------- MODULE Availability ----------------------------
(***************************************************************************)
(* What the pages are told is free (lib/booking/availability.ts and       *)
(* occupancy.ts, over the grid of SlotGrid).  A read takes several steps  *)
(* and no lock: it lists the calendar, reads the rows the listed events   *)
(* name, tells busy from accounted for, reaps a bounded batch of retired  *)
(* events it saw, reads the host's occupancy, and cuts the grid.  In      *)
(* between, the booking moves or is cancelled, late inserts land, the     *)
(* host edits the calendar, and another reader reaps.                     *)
(*                                                                         *)
(* One booking stands for the host's; its retired ids are numbered in the *)
(* order they were issued.  Intervals have the length of place.len.       *)
(***************************************************************************)
EXTENDS SlotGrid, Sequences, FiniteSets, Functions

CONSTANTS
    None,
    Live, Foreign,   \* the booking's own event, an event of the host's own
    Leftovers,       \* its retired ids, an interval of Nat from 1
    Readers,
    Places,          \* [zone, windows, len, slots, asks, ids, there, reads, moves, edits, still]:
                     \* a schedule; the retired ids its booking has on record, and those whose
                     \* event is there; and how much of everything happens
    ReapMax          \* REAP_MAX_PER_REQUEST

ASSUME ReapAssumption == ReapMax \in Nat \ {0}
ASSUME EventsAssumption ==
    /\ Leftovers \subseteq Nat \ {0} /\ IsFiniteSet(Leftovers) /\ None \notin Nat
    /\ Live # Foreign /\ Live \notin Leftovers /\ Foreign \notin Leftovers
ASSUME PlacesAssumption ==
    \A p \in Places :
        /\ p.zone.before \in Int /\ p.zone.after \in Int /\ p.zone.at \in Int
        /\ \A w \in p.windows : w.start \in 0 .. Day /\ w.end \in 0 .. Day
        /\ p.len \in Nat \ {0} /\ p.slots # {} /\ p.slots \subseteq Int /\ None \notin p.slots
        /\ \A ask \in p.asks : ask[1] \in Int /\ ask[2] \in Int
        /\ p.there \subseteq p.ids /\ p.ids \subseteq Leftovers

VARIABLES
    place,     \* the schedule; in a place that is `still` nothing but the readers moves
    row,       \* [status, start, reserved]
    marks,     \* retired id -> inspectSeq, 0 for null, None once its attempt is retired
    cursor,    \* reap_cursor
    cal,       \* event -> its start, or None
    landed,    \* retired ids whose late insert has executed
    reader,    \* reader -> its read
    spent,     \* [reads, moves, edits]: the bounds used up
    \* ghosts
    stood,     \* reader -> <<event, start>> that stood since its list
    passed     \* retired id -> ids inspected, since it last was, while it could have been

vars == <<place, row, marks, cursor, cal, landed, reader, spent, stood, passed>>

Events == {Live, Foreign} \cup Leftovers
At(t) == SlotAt(t, place.len)
Listed == {e \in Events : cal[e] # None}

-----------------------------------------------------------------------------
(* classifyBusy: what a listed event means, given the row read for it. *)

(* An id is retired when an unresolved insert names it: the live id is none of them.      *)
Retired(e, seenMarks) == e \in Leftovers /\ seenMarks[e] # None
AccountsFor(seen, t) == t \in {seen.start, seen.reserved}

(* Mutant: the own-booking exclusion first, as before REVIEW-02. *)
BusyOwnFirst(e, t, seen, seenMarks, own) ==
    \/ e = Foreign
    \/ e # Foreign /\ ~own
         /\ (Retired(e, seenMarks) \/ seen.status = "cancelled" \/ ~AccountsFor(seen, t))
(* Retired ids are busy for everyone, before the exclusion of a booking's own event; an   *)
(* event nothing accounts for is busy where it stands.                                    *)
IsBusy(e, t, seen, seenMarks, own) ==
    \/ e = Foreign
    \/ Retired(e, seenMarks)
    \/ e # Foreign /\ ~own /\ (seen.status = "cancelled" \/ ~AccountsFor(seen, t))

(* hostOccupancy: the confirmed time and the reserved one, without the excluded row. *)
Occupancy(own) ==
    IF own THEN {}
    ELSE (IF row.status = "confirmed" THEN {row.start} ELSE {}) \cup ({row.reserved} \ {None})

-----------------------------------------------------------------------------
(* The reaper's order: smallest inspectSeq first, null before any, then the issue order.  *)
(* A batch is the first of the selectable ids in that order, each at its place.           *)
Sooner(x, y) == marks[x] < marks[y] \/ (marks[x] = marks[y] /\ x < y)
Ahead(S, x) == {y \in S : Sooner(y, x)}
Eligible == {x \in Leftovers : marks[x] # None}
BatchSize(S) == IF Cardinality(S) < ReapMax THEN Cardinality(S) ELSE ReapMax
Batch(S) == [i \in 1 .. BatchSize(S) |-> CHOOSE x \in S : Cardinality(Ahead(S, x)) = i - 1]

(* Mutant: the mark is the time of the inspection, and the clock stands still. *)
StampedByClock(batch) == [x \in Leftovers |-> IF x \in Range(batch) THEN 1 ELSE marks[x]]
(* Mutant: the batch is stamped after its deletes, by nobody if the call dies. *)
StampedLater(batch) == marks
(* STAMP_REAP_SQL: each of the batch gets the next value of the row's cursor. *)
Stamped(batch) ==
    [x \in Leftovers |->
        IF x \in Range(batch) THEN cursor + (CHOOSE i \in DOMAIN batch : batch[i] = x) ELSE marks[x]]

-----------------------------------------------------------------------------
Nobody == [at |-> "idle", own |-> FALSE, from |-> 0, to |-> 0, current |-> 0,
           items |-> {}, busy |-> {}, found |-> {}, todo |-> <<>>, accounted |-> {},
           times |-> {}, held |-> {}]
Is(r, at) == reader[r].at = at
Becomes(r, fields) == reader' = [reader EXCEPT ![r] = fields]
world == <<place, row, marks, cursor, cal, landed, spent, passed>>

(* R0: the page asks for a range, for the public or, with its own booking left out, to    *)
(* move it; the calendar is listed.  With no event of the booking's, no row is read.      *)
List(r) ==
    /\ Is(r, "idle") /\ spent.reads < place.reads
    /\ \E own \in BOOLEAN : \E ask \in place.asks :
          LET items == {<<e, cal[e]>> : e \in Listed}
          IN  /\ own => row.status = "confirmed"
              /\ Becomes(r, [Nobody EXCEPT
                    !.at = IF Listed \subseteq {Foreign} THEN "occupy" ELSE "row",
                    !.own = own, !.from = ask[1], !.to = ask[2], !.current = row.start,
                    !.items = items,
                    !.busy = IF Foreign \in Listed THEN {cal[Foreign]} ELSE {}])
    /\ spent' = [spent EXCEPT !.reads = @ + 1]
    /\ UNCHANGED <<place, row, marks, cursor, cal, landed, passed>>

(* The row of the listed events is read, once, and they are told apart. *)
ReadRow(r) ==
    LET me == reader[r]
        retired == {e \in Leftovers : marks[e] # None /\ \E i \in me.items : i[1] = e}
    IN  /\ Is(r, "row")
        /\ Becomes(r, [me EXCEPT
              !.at = IF retired = {} THEN "occupy" ELSE "select",
              !.busy = {i[2] : i \in {x \in me.items : IsBusy(x[1], x[2], row, marks, me.own)}},
              !.accounted = {row.start, row.reserved} \ {None},
              !.found = retired])
        /\ UNCHANGED world

(* selectListedBatch: chosen and stamped in one locked transaction, from a fresh row. *)
Selectable(r) == Eligible \cap reader[r].found
Select(r) ==
    LET batch == Batch(Selectable(r))
    IN  /\ Is(r, "select")
        /\ marks' = Stamped(batch)
        /\ cursor' = cursor + Len(batch)
        /\ passed' = [x \in Leftovers |->
                        IF x \in Range(batch) THEN {}
                        ELSE IF x \in Selectable(r) THEN passed[x] \cup Range(batch)
                        ELSE passed[x]]
        /\ Becomes(r, [reader[r] EXCEPT !.at = IF batch = <<>> THEN "occupy" ELSE "remove",
                                        !.found = {}, !.todo = batch])
        /\ UNCHANGED <<place, row, cal, landed, spent>>

(* reapListedItems deletes the chosen one after another.  A delete that fails, or finds   *)
(* nothing, is left for the next observing call.                                          *)
AfterOne(me) ==
    [me EXCEPT !.todo = Tail(@), !.at = IF Len(me.todo) > 1 THEN "remove" ELSE "occupy"]
RemoveWorks(r) ==
    LET x == Head(reader[r].todo)
    IN  /\ Is(r, "remove")
        /\ cal[x] # None
        /\ cal' = [cal EXCEPT ![x] = None]
        /\ Becomes(r, [reader[r] EXCEPT !.at = "retire"])
        /\ UNCHANGED <<place, row, marks, cursor, landed, spent, passed>>
RemoveFails(r) ==
    /\ Is(r, "remove")
    /\ Becomes(r, AfterOne(reader[r]))
    /\ UNCHANGED world
Retire(r) ==
    /\ Is(r, "retire")
    /\ marks' = [marks EXCEPT ![Head(reader[r].todo)] = None]
    /\ Becomes(r, AfterOne(reader[r]))
    /\ UNCHANGED <<place, row, cursor, cal, landed, spent, passed>>

(* hostOccupancy is read last, and the grid is cut: the answer.  A move is never offered  *)
(* the start the page's booking had.                                                      *)
Offer(me, taken) ==
    ListAvailableTimes(place, place.len, Increment(place.len, me.own), me.from, me.to,
                       {At(t) : t \in taken}) \ (IF me.own THEN {me.current} ELSE {})
Occupy(r) ==
    LET me == reader[r]
        taken == me.busy \cup Occupancy(me.own)
    IN  /\ Is(r, "occupy")
        /\ Becomes(r, [Nobody EXCEPT
              !.own = me.own, !.from = me.from, !.to = me.to, !.current = me.current,
              !.accounted = me.accounted, !.busy = taken,
              !.times = Offer(me, taken),
              !.held = Occupancy(me.own)])
        /\ UNCHANGED world

-----------------------------------------------------------------------------
(* Meanwhile: the transactions and calendar calls of the other flows, one by one.         *)
Moves == ~place.still

(* Reschedule T1 reserves; the event is patched; T2 moves the row, or it is given up and  *)
(* the event is patched back.                                                             *)
ReserveMove ==
    /\ Moves /\ spent.moves < place.moves
    /\ row.status = "confirmed" /\ row.reserved = None
    /\ \E t \in place.slots \ {row.start} : row' = [row EXCEPT !.reserved = t]
    /\ spent' = [spent EXCEPT !.moves = @ + 1]
    /\ UNCHANGED <<place, marks, cursor, cal, landed, reader, passed>>
PatchEvent ==
    /\ Moves /\ row.reserved # None /\ cal[Live] # None
    /\ \E t \in {row.start, row.reserved} : cal' = [cal EXCEPT ![Live] = t]
    /\ UNCHANGED <<place, row, marks, cursor, landed, reader, spent, passed>>
EndMove ==
    /\ Moves /\ row.reserved # None
    /\ row' = IF cal[Live] = row.reserved THEN [row EXCEPT !.start = row.reserved, !.reserved = None]
              ELSE [row EXCEPT !.reserved = None]
    /\ UNCHANGED <<place, marks, cursor, cal, landed, reader, spent, passed>>

(* A cancel replaces the row first and deletes the event after. *)
CancelRow ==
    /\ Moves /\ row.status = "confirmed"
    /\ row' = [row EXCEPT !.status = "cancelled", !.reserved = None]
    /\ UNCHANGED <<place, marks, cursor, cal, landed, reader, spent, passed>>
DeleteEvent ==
    /\ Moves /\ row.status = "cancelled" /\ cal[Live] # None
    /\ cal' = [cal EXCEPT ![Live] = None]
    /\ UNCHANGED <<place, row, marks, cursor, landed, reader, spent, passed>>

(* An insert whose worker is long gone executes, once, under a retired id. *)
LateInsert(x) ==
    /\ Moves /\ x \in place.ids \ landed
    /\ landed' = landed \cup {x}
    /\ \E t \in place.slots : cal' = [cal EXCEPT ![x] = t]
    /\ UNCHANGED <<place, row, marks, cursor, reader, spent, passed>>

(* The host moves or deletes an event by hand, or enters one. *)
HostEdits(e) ==
    /\ Moves /\ spent.edits < place.edits
    /\ e \in {Live, Foreign} /\ (e = Live => cal[e] # None)
    /\ \E t \in place.slots \cup {None} : t # cal[e] /\ cal' = [cal EXCEPT ![e] = t]
    /\ spent' = [spent EXCEPT !.edits = @ + 1]
    /\ UNCHANGED <<place, row, marks, cursor, landed, reader, passed>>

-----------------------------------------------------------------------------
(* What stands while a read goes on: every event but the booking's own, when it is asked  *)
(* to be left out and nothing has retired it.                                             *)
Standing(own, marksNow, calNow) ==
    {<<e, calNow[e]>> : e \in {x \in Events :
        calNow[x] # None /\ (x = Foreign \/ Retired(x, marksNow) \/ (x = Live /\ ~own))}}
Watch ==
    stood' = [r \in Readers |->
        IF reader'[r].at = "idle" THEN stood[r]
        ELSE LET now == Standing(reader'[r].own, marks', cal')
             IN  IF Is(r, "idle") THEN now ELSE stood[r] \cap now]

Init ==
    /\ place \in Places
    /\ row = [status |-> "confirmed", start |-> CHOOSE t \in place.slots : TRUE, reserved |-> None]
    /\ marks = [x \in Leftovers |-> IF x \in place.ids THEN 0 ELSE None]
    /\ cursor = 0
    /\ cal = [e \in Events |-> IF e = Live \/ e \in place.there THEN row.start ELSE None]
    /\ landed = place.there
    /\ reader = [r \in Readers |-> Nobody]
    /\ spent = [reads |-> 0, moves |-> 0, edits |-> 0]
    /\ stood = [r \in Readers |-> {}]
    /\ passed = [x \in Leftovers |-> {}]

ReadStep(r) ==
    \/ List(r) \/ ReadRow(r) \/ Select(r)
    \/ RemoveWorks(r) \/ RemoveFails(r) \/ Retire(r) \/ Occupy(r)
Meanwhile ==
    \/ ReserveMove \/ PatchEvent \/ EndMove \/ CancelRow \/ DeleteEvent
    \/ \E x \in Leftovers : LateInsert(x)
    \/ \E e \in {Live, Foreign} : HostEdits(e)
Next == ((\E r \in Readers : ReadStep(r)) \/ Meanwhile) /\ Watch

Spec == Init /\ [][Next]_vars

-----------------------------------------------------------------------------
(* Every variable has its type; what a reader still has to delete it has stamped. *)
TypeOK ==
    /\ row.status \in {"confirmed", "cancelled"} /\ row.start \in place.slots
    /\ row.reserved \in place.slots \cup {None}
    /\ cal \in [Events -> place.slots \cup {None}]
    /\ landed \subseteq Leftovers /\ passed \in [Leftovers -> SUBSET Leftovers]
    /\ cursor \in Nat
    /\ \A x \in Leftovers : marks[x] = None \/ marks[x] \in 0 .. cursor
    /\ \A r \in Readers :
          Is(r, "remove") \/ Is(r, "retire") =>
              \A i \in DOMAIN reader[r].todo : marks[reader[r].todo[i]] # 0

(* What is offered is free.  It meets nothing the host's rows hold when the answer is     *)
(* given, and no event that stood in the calendar during the whole read, though the rows  *)
(* and the events were read one after another.  (An event of the booking's own is left to *)
(* its row where the row accounted for it when it was read.)                              *)
OfferedIsFree ==
    \A r \in Readers : \A t \in reader[r].times :
        /\ \A u \in reader[r].held : ~Overlaps(At(t), At(u))
        /\ \A s \in stood[r] : Overlaps(At(t), At(s[2])) =>
              s[1] = Live /\ s[2] \in reader[r].accounted

(* "Every offered slot is accepted and nothing else is" (slots.ts:50): the mutations ask  *)
(* their own grid, of a day on either side, and agree with the list of any range.         *)
OfferedIsAccepted ==
    \A r \in Readers :
        LET me == reader[r]
            accepted == {t \in me.from .. me.to : IsCandidate(place, place.len, me.own, me.current, t)}
        IN  me.at = "idle" => 
            me.times = {t \in accepted : t + place.len <= me.to
                                        /\ \A u \in me.busy : ~Overlaps(At(t), At(u))}

(* And an offered slot lies within the published hours of its local day, whatever the     *)
(* clocks do in between, if every published time of those days is shown exactly once.     *)
PublishedTimes(from, to) ==
    UNION {{d * Day + w.start, d * Day + w.end} :
        d \in (DateOf(place.zone, from) .. DateOf(place.zone, to)), w \in place.windows}
InHours(t) ==
    LET z == place.zone
        d == DateOf(z, t)
    IN  \E w \in place.windows :
            /\ Weekday(d) = w.weekday
            /\ d * Day + w.start <= Local(z, t) /\ Local(z, t + place.len) <= d * Day + w.end
SlotsInHours ==
    \A r \in Readers :
        (\A l \in PublishedTimes(reader[r].from, reader[r].to) : Plain(place.zone, l)) =>
            \A t \in reader[r].times : InHours(t)

GridIsSound == OfferedIsAccepted /\ SlotsInHours

(* Each retired id has its turn: none is inspected twice while another, that the same     *)
(* reads listed, has not been inspected in between (rows.ts:166, REV13-01).               *)
NoIdPassedOver ==
    [][\A r \in Readers : Is(r, "select") /\ reader'[r].at = "remove" =>
          \A x \in Range(reader'[r].todo), y \in Selectable(r) \ Range(reader'[r].todo) :
              x \notin passed[y]]_vars
=============================================================================
