-------------------------- MODULE FixtureBookings --------------------------
(***************************************************************************)
(* The retained in-memory bookings of group and collective event types    *)
(* (lib/booking/booking.ts, reached through lib/booking/fixture-create.ts *)
(* and the legacy branches of the reschedule and cancel routes).  They    *)
(* have no row, no key and no operation: a map of bookings, and one       *)
(* promise chain per <host, start>.  A create holds the chain of every    *)
(* host it assigns, a move that of the organizer only, a cancel none.     *)
(* Time is a grid of slots; a booking of LengthOf[e] slots starts on a    *)
(* multiple of its length, as the published grid does.                    *)
(*                                                                         *)
(* Calls are numbered in the order they arrive, and a booking is named by *)
(* the call that made it.  The host order of the locks is the order of    *)
(* host ids, so hosts are numbers.                                        *)
(***************************************************************************)
EXTENDS Integers, Sequences, FiniteSets, Functions

CONSTANTS
    NCalls,        \* how many calls arrive
    Slots,         \* the slots of the day, an interval of Nat
    Types,         \* the event types
    HostsOf,       \* type -> its assigned hosts, the organizer first
    LengthOf,      \* type -> duration in slots
    Seats,         \* type -> maxInvitees of a group, 0 for a collective
    CalendarBusy,  \* <<host, slot>>: what the hosts' own calendars hold
    None, Gone     \* no booking or event; an event that was deleted

Calls == 1 .. NCalls
IsGroup(e) == Seats[e] > 0
Organizer(e) == HostsOf[e][1]
Assigned(e) == {HostsOf[e][i] : i \in 1 .. Len(HostsOf[e])}
Hosts == UNION {Assigned(e) : e \in Types}
Span(e, t) == t .. (t + LengthOf[e] - 1)
GridStarts(e) == {t \in Slots : t % LengthOf[e] = 0 /\ Span(e, t) \subseteq Slots}

ASSUME TypesAreSane ==
    /\ NCalls \in Nat /\ Slots \subseteq Nat /\ IsFiniteSet(Types)
    /\ \A e \in Types :
          /\ LengthOf[e] \in Nat \ {0} /\ Seats[e] \in Nat
          /\ HostsOf[e] \in Seq(Nat) /\ Len(HostsOf[e]) > 0

Bookings == [type : Types, start : Slots, status : {"confirmed", "cancelled"}]
ASSUME NoneIsNoBooking == None \notin Bookings

VARIABLES
    job,        \* call -> what it asks
    pc,         \* call -> where its handler is
    keys,       \* call -> the lock keys it takes, in order
    at,         \* call -> the index of the lock key it waits for
    queue,      \* lock key -> the calls chained on it, the holder first
    busy,       \* call -> the slots it read as busy, under its locks
    bookings,   \* booking -> [type, start, status], or None
    events,     \* booking -> start of its calendar event, Gone or None
    \* ghosts
    missed,     \* call -> bookings placed since it read `busy`
    unseen,     \* booking -> bookings its placement could not see
    shifted,    \* bookings a move has placed
    clashed     \* bookings two calls worked on at once

vars == <<job, pc, keys, at, queue, busy, bookings, events, missed, unseen, shifted, clashed>>

Confirmed(b) == bookings[b] # None /\ bookings[b].status = "confirmed"
(* The slots booking b takes, at the length of its event type. *)
SlotsOf(b) == Span(bookings[b].type, bookings[b].start)
HostsOfBooking(b) ==
    IF IsGroup(bookings[b].type) THEN {Organizer(bookings[b].type)}
    ELSE Assigned(bookings[b].type)

(* listConfirmedBookingsForHost as busy windows, without the bookings to skip. *)
HostBusy(h, skip) ==
    UNION {SlotsOf(b) : b \in {x \in Calls \ skip : Confirmed(x) /\ h \in HostsOfBooking(x)}}

(* The seats taken at one start of a group event. *)
CountConfirmedAt(e, t) ==
    Cardinality({b \in Calls : Confirmed(b) /\ bookings[b].type = e /\ bookings[b].start = t})

-----------------------------------------------------------------------------
(* The event type a job is about, and the booking a call changes. *)
TypeOf(j) == IF j.do = "create" THEN j.type ELSE bookings[j.of].type
About(c) == IF job[c].do = "create" THEN c ELSE job[c].of

(* Mutant: a collective locks its organizer only. *)
LockOrganizer(j) == {Organizer(TypeOf(j))}
(* A create locks every assigned host, sorted; a move the organizer alone. *)
LockHosts(j) ==
    IF j.do = "create" /\ ~IsGroup(j.type) THEN Assigned(j.type) ELSE {Organizer(TypeOf(j))}
(* Mutant: the hosts as the event type lists them. *)
AsListed(e, S) == SelectSeq(HostsOf[e], LAMBDA h : h \in S)
Sorted(e, S) == [i \in 1 .. Cardinality(S) |-> CHOOSE h \in S : Cardinality({g \in S : g < h}) = i - 1]
LockKeys(j) ==
    LET hs == Sorted(TypeOf(j), LockHosts(j))
    IN  [i \in DOMAIN hs |-> <<hs[i], j.start>>]

(* extraBusy: a group ignores its own event type, a collective reads every assigned     *)
(* host, a move ignores the booking it moves and reads its organizer.                   *)
ExtraBusy(c) ==
    LET e == TypeOf(job[c])
        ownSessions == {b \in Calls : bookings[b] # None /\ bookings[b].type = e}
    IN  CASE job[c].do = "move" -> HostBusy(Organizer(e), {About(c)})
          [] job[c].do = "create" /\ IsGroup(e) -> HostBusy(Organizer(e), ownSessions)
          [] OTHER -> UNION {HostBusy(h, {}) : h \in Assigned(e)}

(* freeBusy of the calendars asked: those of every assigned host of a collective create. *)
CalendarTakes(c) ==
    LET asked == IF job[c].do = "create" THEN LockHosts(job[c]) ELSE {Organizer(TypeOf(job[c]))}
    IN  {s \in Slots : \E h \in asked : <<h, s>> \in CalendarBusy}

(* listAvailableTimes includes the start, and a group has a seat left at it. *)
Offered(c) ==
    LET e == TypeOf(job[c])
        t == job[c].start
    IN  /\ t \in GridStarts(e)
        /\ Span(e, t) \cap (busy[c] \cup CalendarTakes(c)) = {}
        /\ job[c].do = "create" /\ IsGroup(e) => CountConfirmedAt(e, t) < Seats[e]

-----------------------------------------------------------------------------
(* Where a handler has read its preconditions and has not yet written. *)
Deciding == {"listing", "calling", "recording"}
AtWork(b) == {c \in Calls : pc[c] \in Deciding /\ About(c) = b}
NowAt(c, b) == clashed' = IF AtWork(b) = {} THEN clashed ELSE clashed \cup {b}

(* withSlotLock: the call joins the chain of one key. *)
Chained(c, k) == queue' = [queue EXCEPT ![k] = Append(@, c)]
(* Mutant: only the lock asked for last. *)
ReleaseInner(c) ==
    queue' = IF keys[c] = <<>> THEN queue ELSE [queue EXCEPT ![keys[c][at[c]]] = Tail(@)]
(* The finally blocks: every lock the call holds is released. *)
Release(c) ==
    queue' = [k \in DOMAIN queue |->
                IF queue[k] # <<>> /\ Head(queue[k]) = c THEN Tail(queue[k]) ELSE queue[k]]
(* The handler is over, and what it held in its own variables with it. *)
Ends(c) ==
    /\ pc' = [pc EXCEPT ![c] = "done"]
    /\ Release(c)
    /\ keys' = [keys EXCEPT ![c] = <<>>]
    /\ at' = [at EXCEPT ![c] = 1]
    /\ busy' = [busy EXCEPT ![c] = {}]
    /\ missed' = [missed EXCEPT ![c] = {}]

Arrived(c) == pc[c] = "idle" /\ (c > 1 => pc[c - 1] # "idle")

(* A create or a move begins: its first lock is asked for in the same turn. *)
Locks(c, j) ==
    /\ job' = [job EXCEPT ![c] = j]
    /\ pc' = [pc EXCEPT ![c] = "waiting"]
    /\ keys' = [keys EXCEPT ![c] = LockKeys(j)]
    /\ Chained(c, keys'[c][1])
    /\ UNCHANGED <<at, busy, bookings, events, missed, unseen, shifted, clashed>>

BeginCreate(c) ==
    /\ Arrived(c)
    /\ \E e \in Types : \E t \in GridStarts(e) :
          Locks(c, [do |-> "create", type |-> e, start |-> t])

BeginMove(c) ==
    /\ Arrived(c)
    /\ \E b \in Calls :
          /\ Confirmed(b)
          /\ \E t \in GridStarts(bookings[b].type) :
                Locks(c, [do |-> "move", of |-> b, start |-> t])

(* cancelBooking takes no lock: the status is read once, then the event is deleted. *)
BeginCancel(c) ==
    /\ Arrived(c)
    /\ \E b \in Calls :
          /\ Confirmed(b)
          /\ job' = [job EXCEPT ![c] = [do |-> "cancel", of |-> b]]
          /\ NowAt(c, b)
    /\ pc' = [pc EXCEPT ![c] = "calling"]
    /\ UNCHANGED <<keys, at, queue, busy, bookings, events, missed, unseen, shifted>>

Granted(c) == pc[c] = "waiting" /\ Head(queue[keys[c][at[c]]]) = c

(* One lock of several is granted, and the next is asked for. *)
NextLock(c) ==
    /\ Granted(c)
    /\ at[c] < Len(keys[c])
    /\ at' = [at EXCEPT ![c] = @ + 1]
    /\ Chained(c, keys[c][at[c] + 1])
    /\ UNCHANGED <<job, pc, keys, busy, bookings, events, missed, unseen, shifted, clashed>>

(* Every lock is held: busy is read, before the calendars are. *)
Enter(c) ==
    /\ Granted(c)
    /\ at[c] = Len(keys[c])
    /\ job[c].do = "move" => Confirmed(job[c].of)
    /\ busy' = [busy EXCEPT ![c] = ExtraBusy(c)]
    /\ missed' = [missed EXCEPT ![c] = {}]
    /\ pc' = [pc EXCEPT ![c] = "listing"]
    /\ NowAt(c, About(c))
    /\ UNCHANGED <<job, keys, at, queue, bookings, events, unseen, shifted>>

(* Under the lock the booking to move is no longer confirmed. *)
TurnedAway(c) ==
    /\ Granted(c)
    /\ at[c] = Len(keys[c])
    /\ job[c].do = "move" /\ ~Confirmed(job[c].of)
    /\ Ends(c)
    /\ UNCHANGED <<job, bookings, events, unseen, shifted, clashed>>

(* The calendars have answered. *)
Listed(c) ==
    /\ pc[c] = "listing"
    /\ \/ /\ Offered(c)
          /\ pc' = [pc EXCEPT ![c] = "calling"]
          /\ UNCHANGED <<queue, keys, at, busy, missed>>
       \/ ~Offered(c) /\ Ends(c)
    /\ UNCHANGED <<job, bookings, events, unseen, shifted, clashed>>

(* createEvent, updateEvent or deleteEvent takes effect. *)
CalendarDoes(c) ==
    /\ pc[c] = "calling"
    /\ events' = [events EXCEPT ![About(c)] =
                    IF job[c].do = "cancel" THEN Gone ELSE job[c].start]
    /\ pc' = [pc EXCEPT ![c] = "recording"]
    /\ UNCHANGED <<job, keys, at, queue, busy, bookings, missed, unseen, shifted, clashed>>

(* The map is written, whatever the booking has become since it was read. *)
Written(c) ==
    CASE job[c].do = "create" ->
            [type |-> job[c].type, start |-> job[c].start, status |-> "confirmed"]
      [] job[c].do = "move" -> [bookings[job[c].of] EXCEPT !.start = job[c].start]
      [] OTHER -> [bookings[job[c].of] EXCEPT !.status = "cancelled"]

(* Mutant: the throw is swallowed and the map written all the same. *)
WriteAnyway(c) == Ends(c) /\ bookings' = [bookings EXCEPT ![About(c)] = Written(c)]
(* It throws instead: nothing is written. *)
AfterThrow(c) == Ends(c) /\ UNCHANGED bookings
CalendarThrows(c) ==
    /\ pc[c] = "calling"
    /\ AfterThrow(c)
    /\ UNCHANGED <<job, events, unseen, shifted, clashed>>

Record(c) ==
    LET b == About(c)
        places == job[c].do # "cancel"
    IN  /\ pc[c] = "recording"
        /\ bookings' = [bookings EXCEPT ![b] = Written(c)]
        /\ missed' = [d \in Calls |->
                        IF places /\ pc[d] \in Deciding /\ d # c THEN missed[d] \cup {b}
                        ELSE missed[d]]
        /\ unseen' = IF places THEN [unseen EXCEPT ![b] = missed[c]] ELSE unseen
        /\ shifted' = IF job[c].do = "move" THEN shifted \cup {b} ELSE shifted
        /\ pc' = [pc EXCEPT ![c] = "telling"]
        /\ UNCHANGED <<job, keys, at, queue, busy, events, clashed>>

(* The notification and the webhook are still inside the lock, and may throw. *)
Told(c) ==
    /\ pc[c] = "telling"
    /\ Ends(c)
    /\ UNCHANGED <<job, bookings, events, unseen, shifted, clashed>>

-----------------------------------------------------------------------------
Init ==
    /\ job = [c \in Calls |-> None]
    /\ pc = [c \in Calls |-> "idle"]
    /\ keys = [c \in Calls |-> <<>>]
    /\ at = [c \in Calls |-> 1]
    /\ queue = [k \in Hosts \X Slots |-> <<>>]
    /\ busy = [c \in Calls |-> {}]
    /\ bookings = [c \in Calls |-> None]
    /\ events = [c \in Calls |-> None]
    /\ missed = [c \in Calls |-> {}]
    /\ unseen = [c \in Calls |-> {}]
    /\ shifted = {}
    /\ clashed = {}

Next == \E c \in Calls :
    \/ BeginCreate(c) \/ BeginMove(c) \/ BeginCancel(c)
    \/ NextLock(c) \/ Enter(c) \/ TurnedAway(c) \/ Listed(c)
    \/ CalendarDoes(c) \/ CalendarThrows(c) \/ Record(c) \/ Told(c)

Spec == Init /\ [][Next]_vars

-----------------------------------------------------------------------------
(* Every variable has its type; a chain holds live calls once each. *)
TypeOK ==
    /\ pc \in [Calls -> {"idle", "waiting", "listing", "calling", "recording", "telling", "done"}]
    /\ at \in [Calls -> 1 .. Cardinality(Hosts) + 1]
    /\ busy \in [Calls -> SUBSET Slots]
    /\ missed \in [Calls -> SUBSET Calls] /\ unseen \in [Calls -> SUBSET Calls]
    /\ shifted \subseteq Calls /\ clashed \subseteq Calls
    /\ bookings \in [Calls -> Bookings \cup {None}]
    /\ \A k \in DOMAIN queue :
          /\ IsInjective(queue[k])
          /\ \A i \in DOMAIN queue[k] : pc[queue[k][i]] \notin {"idle", "done"}

(* No host is in two confirmed meetings at once and no group session holds more than its  *)
(* seats.  Two exceptions the code has: bookings at different starts lock different keys, *)
(* so two calls that decided at the same time may overlap; and a move reads the organizer *)
(* alone, so it may land on a co-host's meeting.  (withHostStartLocks, extraBusy.)        *)
Overlapping(a, b) ==
    /\ a # b /\ Confirmed(a) /\ Confirmed(b)
    /\ SlotsOf(a) \cap SlotsOf(b) # {}
SameSession(a, b) ==
    /\ bookings[a].type = bookings[b].type /\ IsGroup(bookings[a].type)
    /\ bookings[a].start = bookings[b].start
CoHost(h, b) == b \in shifted /\ h # Organizer(bookings[b].type)
HostsHeldOnce ==
    /\ \A a, b \in Calls : Overlapping(a, b) =>
          \/ SameSession(a, b)
          \/ bookings[a].start # bookings[b].start /\ (a \in unseen[b] \/ b \in unseen[a])
          \/ \A h \in HostsOfBooking(a) \cap HostsOfBooking(b) : CoHost(h, a) \/ CoHost(h, b)
    /\ \A e \in Types : IsGroup(e) => \A t \in Slots : CountConfirmedAt(e, t) <= Seats[e]

(* While no call works on it, a booking's calendar event is where the map says, and a     *)
(* cancelled booking has none, whatever threw on the way; unless two calls once worked on *)
(* it at the same time: a move and a cancel, or moves to two starts, share no lock.       *)
EventFollowsBooking ==
    \A b \in Calls : bookings[b] # None /\ b \notin clashed /\ AtWork(b) = {} =>
        events[b] = IF Confirmed(b) THEN bookings[b].start ELSE Gone

(* Calls never wait for each other in a circle: while a call has begun and not ended, one  *)
(* that has begun can take its next step.  (The locks of several hosts: withHostStartLocks *)
(* takes them in one order, whatever order the event type lists its hosts in.)             *)
Underway(c) == pc[c] \notin {"idle", "done"}
NoWaitingCircle ==
    (\E c \in Calls : Underway(c)) =>
        \E c \in Calls : Underway(c) /\ (pc[c] = "waiting" => Granted(c))
=============================================================================
