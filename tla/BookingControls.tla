--------------------------- MODULE BookingControls ---------------------------
(***************************************************************************)
(* The guest's page of one booking: BookingControlsStore and the buttons   *)
(* BookingControls.tsx offers over it.  Every asynchronous handler is a    *)
(* thread, named by the click that started it, that runs from one await to *)
(* the next as one step; between them other handlers, the server and other *)
(* people's changes of the booking go on.                                  *)
(*                                                                         *)
(* The server is what the lifecycle routes promise the page: a change that *)
(* names the row's revision becomes the pending operation, or takes over   *)
(* one left stale; it is made once, by whoever holds the operation then,   *)
(* and the answer tells of the row as it is when the worker ends.          *)
(***************************************************************************)
EXTENDS Integers, FiniteSets

CONSTANTS
  Clicks,      \* bound: the clicks that start a thread
  Others,      \* bound: the changes other people begin
  None

ASSUME BoundsAreCounts == Clicks \in Nat /\ Others \in Nat

VARIABLES
  booking,  \* the row: its revision and latest action
  open,     \* the request whose operation is pending on the server
  others,   \* changes begun by others so far
  made,     \* the changes made: the click behind each (0 for others), its revision and action
  page,     \* the store's snapshot and its latch
  thread,   \* click -> where its handler awaits
  clicks,   \* clicks so far
  crossed   \* has a handler that takes no latch written page.state while another was at work?

server == <<booking, open, others, made>>
vars == <<server, page, thread, clicks, crossed>>

Threads == 1 .. Clicks

Idle == [at |-> "none", req |-> None, op |-> None, auto |-> FALSE, answer |-> "none", saw |-> None]

FreshPage ==
  [shown |-> [rev |-> 1, action |-> "confirm"], state |-> "idle", request |-> None,
   unknown |-> FALSE, armed |-> FALSE, picker |-> FALSE, slots |-> FALSE, loading |-> FALSE,
   last |-> None, latch |-> FALSE]

Init ==
  /\ booking = FreshPage.shown /\ open = None /\ others = 0 /\ made = {}
  /\ page = FreshPage
  /\ thread = [c \in Threads |-> Idle]
  /\ clicks = 0 /\ crossed = FALSE

\* A request carries the revision the guest saw, a resend the pair the page holds.
Actions == {"reschedule", "cancel"}
Bookings == [rev : Nat, action : {"confirm"} \cup Actions]
Changes == [kind : Actions, on : Bookings, click : 0 .. Clicks]
Requests == Changes \cup [kind : {"notify"}, on : Bookings \cup {None}, click : 0 .. Clicks]
Made == [click : 0 .. Clicks, rev : Nat, action : Actions]

Pages ==
  [shown : Bookings, state : {"idle", "pending", "stalled", "conflict", "error", "done"},
   request : Requests \cup {None}, unknown : BOOLEAN, armed : BOOLEAN, picker : BOOLEAN,
   slots : BOOLEAN, loading : BOOLEAN, last : Bookings \cup {None}, latch : BOOLEAN]

\* A thread that never sent, and a page with nothing to send, hold no record.
ASSUME NoneIsNoRecord == None \notin Requests \cup Bookings

Handlers ==
  [at : {"none", "request", "serving", "answered", "wait", "refresh", "reload", "times"},
   req : Requests \cup {None}, op : Changes \cup {None}, auto : BOOLEAN,
   answer : {"none", "ok", "in_progress", "slot", "changed", "stale", "unknown", "error"},
   saw : Bookings \cup {None}]
-----------------------------------------------------------------------------
\* The server.

Cancelled(b) == b.action = "cancel"

Effect(op) ==
  /\ booking' = [rev |-> booking.rev + 1, action |-> op.kind]
  /\ made' = made \cup {[click |-> op.click, rev |-> booking.rev + 1, action |-> op.kind]}

\* Mutant: the row's revision is not compared with the one the request names.
FitsAnyRevision(req) == req.kind \in Actions /\ ~Cancelled(booking)

Fits(req) == req.kind \in Actions /\ ~Cancelled(booking) /\ req.on.rev = booking.rev

OthersBegin ==
  /\ others < Others /\ open = None /\ ~Cancelled(booking)
  /\ others' = others + 1
  /\ \E k \in Actions : open' = [kind |-> k, on |-> booking, click |-> 0]
  /\ UNCHANGED <<booking, made, page, thread, clicks, crossed>>

\* Whoever owns the pending operation finishes or abandons it.
OpenEnds ==
  /\ open # None /\ open' = None
  /\ Effect(open) \/ UNCHANGED <<booking, made>>
  /\ UNCHANGED <<others, page, thread, clicks, crossed>>

At(c, p) == thread[c].at = p
Become(c, t) == thread' = [thread EXCEPT ![c] = t]
Answer(c, a, b) == Become(c, [thread[c] EXCEPT !.at = "answered", !.op = None, !.answer = a, !.saw = b])

Serving(c, op) == Become(c, [thread[c] EXCEPT !.at = "serving", !.op = op])

\* "error" stands for a lost answer too: the page cannot tell what the server did.
Refused(c, req) ==
  \/ Answer(c, "error", None)
  \/ open # None /\ (req.kind = "notify" \/ Fits(req)) /\ Answer(c, "in_progress", None)
  \/ req.kind = "reschedule" /\ open = None /\ Fits(req) /\ Answer(c, "slot", None)

Notified(c, req) ==
  /\ req.kind = "notify" /\ open = None
  /\ \/ req.on \in {None, booking} /\ Serving(c, None)
     \/ req.on \notin {None, booking} /\ Answer(c, "stale", None)

\* A cancel of a cancelled booking is answered 200 whatever revision it names.
Elsewhere(c, req) ==
  \/ req.kind = "cancel" /\ Cancelled(booking) /\ Answer(c, "ok", booking)
  \/ /\ req.kind \in Actions /\ ~Fits(req) /\ ~(req.kind = "cancel" /\ Cancelled(booking))
     /\ Answer(c, "changed", booking)

\* A stale operation of its kind is completed; a stale move may be abandoned or replaced.
Begins(c, req) ==
  /\ Fits(req)
  /\ \/ (open # None => open.kind = "reschedule") /\ open' = req
     \/ open # None /\ open.kind = req.kind /\ open' = open
  /\ Serving(c, open')

Serve(c) ==
  /\ At(c, "request")
  /\ LET req == thread[c].req IN
       \/ (Refused(c, req) \/ Notified(c, req) \/ Elsewhere(c, req)) /\ UNCHANGED open
       \/ Begins(c, req)
  /\ UNCHANGED <<booking, others, made, page, clicks, crossed>>

Owned(c) == open # None /\ open = thread[c].op

Succeeds(c) ==
  /\ Effect(open) /\ open' = None
  /\ Answer(c, "ok", booking') \/ \E a \in {"unknown", "error"} : Answer(c, a, None)

Fails(c) ==
  /\ open' = None /\ UNCHANGED <<booking, made>> /\ Answer(c, "error", None)

GivesUp(c) ==
  /\ UNCHANGED <<booking, open, made>>
  /\ \E a \in {"unknown", "error"} : Answer(c, a, None)

\* Another worker ended the operation: the answer is read from the row.
Superseded(c) ==
  /\ UNCHANGED <<booking, open, made>>
  /\ LET kind == thread[c].req.kind IN
       \/ kind = booking.action /\ Answer(c, "ok", booking)
       \/ ~(kind = "cancel" /\ Cancelled(booking)) /\ Answer(c, "changed", booking)

Work(c) ==
  /\ At(c, "serving")
  /\ \/ thread[c].op # None /\ Owned(c) /\ (Succeeds(c) \/ Fails(c))
     \/ thread[c].op # None /\ ~Owned(c) /\ Superseded(c)
     \/ thread[c].op # None /\ GivesUp(c)
     \/ /\ thread[c].op = None /\ UNCHANGED <<booking, open, made>>
        /\ Answer(c, "ok", booking) \/ Answer(c, "error", None)
  /\ UNCHANGED <<others, page, clicks, crossed>>

\* getBookingById: what it reads is read before the page sees it.
ReadBooking(c) ==
  /\ thread[c].at \in {"refresh", "reload"} /\ thread[c].saw = None
  /\ Become(c, [thread[c] EXCEPT !.saw = booking])
  /\ UNCHANGED <<server, page, clicks, crossed>>
-----------------------------------------------------------------------------
\* The machine.

\* Mutant: only a stalled page is disabled.
EnabledUnlessStalled == page.state # "stalled"

ControlsEnabled == page.state \notin {"pending", "stalled"}

Send(c, p, req, auto) ==
  \/ p.latch /\ page' = p /\ Become(c, Idle)
  \/ /\ ~p.latch
     /\ page' = [p EXCEPT !.latch = TRUE, !.state = "pending", !.unknown = FALSE]
     /\ Become(c, [Idle EXCEPT !.at = "request", !.req = req, !.auto = auto])

Click(c) == c = clicks + 1 /\ clicks' = c

Confirm(c, kind) ==
  Send(c, page, [kind |-> kind, on |-> page.shown, click |-> c], FALSE)

SelectSlot(c) ==
  /\ ControlsEnabled /\ page.picker /\ page.slots /\ ~page.loading
  /\ Click(c) /\ Confirm(c, "reschedule")

ConfirmCancel(c) ==
  /\ ControlsEnabled /\ page.armed /\ ~Cancelled(page.shown)
  /\ Click(c) /\ Confirm(c, "cancel")

\* The revision-specific form for a pair in hand, the latest form otherwise.
Resend(c) ==
  /\ ControlsEnabled
  /\ Click(c)
  /\ Send(c, page, [kind |-> "notify", on |-> page.last, click |-> c], FALSE)

TryAgain(c) ==
  /\ page.request # None
  /\ page.state = "stalled" \/ (page.state = "error" /\ ~page.unknown)
  /\ Click(c)
  /\ Send(c, [page EXCEPT !.state = "idle", !.request = None], page.request, FALSE)

OpenPicker(c) ==
  /\ ControlsEnabled /\ ~Cancelled(page.shown)
  /\ Click(c)
  /\ page' = [page EXCEPT !.picker = TRUE, !.loading = TRUE]
  /\ Become(c, [Idle EXCEPT !.at = "times"])

Reload(c) ==
  /\ page.state = "stalled" \/ page.unknown
  /\ Click(c)
  /\ page' = [page EXCEPT !.state = "pending"]
  /\ Become(c, [Idle EXCEPT !.at = "reload"])

\* The handlers that await nothing.
ClosePicker == page.picker /\ page' = [page EXCEPT !.picker = FALSE, !.slots = FALSE]
ArmCancel == ControlsEnabled /\ ~Cancelled(page.shown) /\ page' = [page EXCEPT !.armed = TRUE]
DisarmCancel == page.armed /\ page' = [page EXCEPT !.armed = FALSE]

Toggle ==
  /\ ClosePicker \/ ArmCancel \/ DisarmCancel
  /\ UNCHANGED <<server, thread, clicks, crossed>>
-----------------------------------------------------------------------------
\* What a handler does when the promise it awaited settles.

Released == [page EXCEPT !.latch = FALSE]

\* The action is the request's, the revision the answer's.
PairOf(c) ==
  [rev |-> thread[c].saw.rev,
   action |-> IF thread[c].req.kind = "cancel" THEN "cancel" ELSE "reschedule"]

Done(c) ==
  [Released EXCEPT !.shown = thread[c].saw, !.state = "done", !.armed = FALSE, !.picker = FALSE,
                   !.slots = FALSE, !.request = None,
                   !.last = IF thread[c].req.kind = "notify" THEN page.last ELSE PairOf(c)]

Succeeded(c) == thread[c].answer = "ok" /\ page' = Done(c) /\ Become(c, Idle)

\* A transport failure, or a code with no branch of its own: the request is kept.
Errored(c) ==
  /\ thread[c].answer = "error"
  /\ page' = [Released EXCEPT !.state = "error", !.request = thread[c].req]
  /\ Become(c, Idle)

\* Mutant: every refusal is waited out, not the first alone.
WaitsAlways(c) ==
  /\ thread[c].answer = "in_progress"
  /\ page' = Released /\ Become(c, [thread[c] EXCEPT !.at = "wait"])

InProgress(c) ==
  /\ thread[c].answer = "in_progress"
  /\ \/ /\ thread[c].auto
        /\ page' = [Released EXCEPT !.state = "stalled", !.request = thread[c].req]
        /\ Become(c, Idle)
     \/ /\ ~thread[c].auto
        /\ page' = Released /\ Become(c, [thread[c] EXCEPT !.at = "wait"])

SlotGone(c) ==
  /\ thread[c].answer = "slot"
  /\ page' = [Released EXCEPT !.state = "conflict", !.request = None]
  /\ Become(c, IF page.picker THEN [Idle EXCEPT !.at = "times"] ELSE Idle)

\* Mutant: a refresh that finds nothing overwrites the booking.
ShowWhatever(p, b) ==
  [p EXCEPT !.shown = b, !.state = "conflict", !.request = None, !.armed = FALSE]

ShowLatest(p, b) ==
  [p EXCEPT !.shown = IF b = None THEN @ ELSE b, !.state = "conflict", !.request = None,
            !.armed = FALSE]

ChangedElsewhere(c) ==
  \/ /\ thread[c].answer = "changed"
     /\ page' = ShowLatest(Released, thread[c].saw) /\ Become(c, Idle)
  \/ /\ thread[c].answer = "stale"
     /\ page' = Released /\ Become(c, [Idle EXCEPT !.at = "refresh"])

OutcomeUnknown(c) ==
  /\ thread[c].answer = "unknown"
  /\ page' = [Released EXCEPT !.state = "error", !.unknown = TRUE, !.request = None]
  /\ Become(c, Idle)

Resume(c) ==
  /\ At(c, "answered")
  /\ \/ Succeeded(c) \/ Errored(c) \/ InProgress(c)
     \/ SlotGone(c) \/ ChangedElsewhere(c) \/ OutcomeUnknown(c)
  /\ UNCHANGED <<server, clicks, crossed>>

WaitOver(c) ==
  /\ At(c, "wait") /\ Send(c, page, thread[c].req, TRUE)
  /\ UNCHANGED <<server, clicks, crossed>>

\* Mutant: the failed refresh of a changed booking leaves the page as it is.
RefreshForgotten(c) == page' \in {page, ShowLatest(page, thread[c].saw)}

\* The refresh delivers, or fails into the reload-only error.
RefreshShown(c) ==
  \/ page' \in {ShowLatest(page, thread[c].saw), ShowLatest(page, None)}
  \/ page' = [page EXCEPT !.state = "error", !.unknown = TRUE, !.request = None, !.armed = FALSE]

Refreshed(c) ==
  /\ At(c, "refresh") /\ thread[c].saw # None
  /\ RefreshShown(c) /\ Become(c, Idle)
  /\ UNCHANGED <<server, clicks, crossed>>

Reloaded(c) ==
  /\ At(c, "reload") /\ thread[c].saw # None
  /\ \/ page' = [page EXCEPT !.shown = thread[c].saw, !.state = "idle", !.request = None,
                             !.unknown = FALSE, !.armed = FALSE, !.picker = FALSE, !.last = None]
     \/ page' = [page EXCEPT !.state = "error"]
  /\ Become(c, Idle)
  /\ UNCHANGED <<server, clicks, crossed>>

Busy(c) == thread[c].at \notin {"none", "times"}
Crosses == crossed' = (crossed \/ \E c \in Threads : Busy(c))

\* loadTimes: its failure writes the page's state, whoever else is at work.
TimesLoaded(c) ==
  /\ At(c, "times")
  /\ \/ \E some \in BOOLEAN : page' = [page EXCEPT !.slots = some, !.loading = FALSE]
        /\ UNCHANGED crossed
     \/ /\ Crosses
        /\ page' = [page EXCEPT !.slots = FALSE, !.loading = FALSE, !.state = "error"]
  /\ Become(c, Idle)
  /\ UNCHANGED <<server, clicks>>

Goes(c) ==
  Serve(c) \/ Work(c) \/ ReadBooking(c) \/ Resume(c) \/ WaitOver(c) \/ Refreshed(c) \/ Reloaded(c) \/ TimesLoaded(c)

Clicked(c) ==
  /\ \/ /\ SelectSlot(c) \/ ConfirmCancel(c) \/ Resend(c) \/ TryAgain(c) \/ OpenPicker(c)
        /\ UNCHANGED crossed
     \/ Reload(c) /\ Crosses
  /\ UNCHANGED <<server>>

Next == (\E c \in Threads : Clicked(c) \/ Goes(c)) \/ Toggle \/ OthersBegin \/ OpenEnds

Spec == Init /\ [][Next]_vars

\* Requests have deadlines and timers fire; nobody has to finish a pending operation.
FairSpec == Spec /\ \A c \in Threads : WF_vars(Goes(c))
-----------------------------------------------------------------------------
TypeOK ==
  /\ booking \in Bookings /\ open \in Changes \cup {None}
  /\ others \in 0 .. Others /\ clicks \in 0 .. Clicks /\ crossed \in BOOLEAN
  /\ made \subseteq Made
  /\ page \in Pages
  /\ thread \in [Threads -> Handlers]

\* The page never sits disabled with nothing in flight (REV8-03, REVIEW-08): a pending
\* page has a request, a wait or a read under way that will end it.
NothingSpins == page.state = "pending" => \E c \in Threads : Busy(c)

\* A change the guest confirmed once is made at most once, though the page sends it
\* again by itself, the guest tries again after lost answers, and others may finish it
\* meanwhile: every send names the revision the guest saw.
AtMostOnce == \A a, b \in made : a.click = b.click /\ a.click # 0 => a = b

\* The pair a resend names is one the row really went through (booking-controls-store.ts:54),
\* though its action is the request's and its revision the answer's, and the change may have
\* been another worker's.
PairIsReal == page.last # None => \E m \in made : m.rev = page.last.rev /\ m.action = page.last.action

\* Sending again is safe: a change is made once, and the pair sent names a change made.
ResendsAreSafe == AtMostOnce /\ PairIsReal

\* The page runs one operation at a time, though the latch is free during the wait and
\* the refresh (booking-controls-store.ts:134), until a handler that takes no latch, a
\* second reload or a failed availability read, enables the controls under another.
OneAtATime == ~crossed => Cardinality({c \in Threads : Busy(c)}) <= 1

\* Until then it never goes back to an older booking than it has shown: no read that was
\* overtaken is displayed late.
ShownNeverOlder == [][~crossed => page'.shown.rev >= page.shown.rev]_vars

\* A pending page always reaches a state that offers the guest a way on, even while
\* another operation holds the booking for ever.
PendingEnds == page.state = "pending" ~> page.state # "pending"
=============================================================================
