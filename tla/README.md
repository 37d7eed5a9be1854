# A TLA+ model of Marlo's booking core

Marlo offers a host's free time to guests, writes a booking to Postgres and mirrors it as an
event on the host's Google Calendar. There is no background worker, no queue and no scheduler:
every HTTP call does its own work, and whatever a call leaves half done is found and finished by
the calls that come after it. That makes the interleavings of calls, their interruptions and
Google's late answers the heart of the program, and it is what these modules are about.

The modules are written from the source; line references are to `src/`. Section names such as
C6.3, CF-2 or N-1 are the ones the source's own comments use.

## 1. The system and its components

| Component (code) | State it keeps | Operations | Interacts with |
|---|---|---|---|
| Host occupancy and create idempotency (`create.ts`, `pg-store.ts`, `rows.ts`) | rows of `bookings`, reservations, idempotency keys, `create_rejections` | L0 lookup, R0 read, T1 under the host lock, C9 replay | every flow meets the others only here |
| Booking row, operation ownership, attempt ledger (`rows.ts`, `ops.ts`, `pg-store.ts`) | `pending_op` (kind, opId, gen, renewed_at, attempts), `unfinished_create`, `unresolved_inserts` | begin, take over, own, append and resolve an attempt, clear | shared by all lifecycle flows |
| Create, reschedule, cancel flows (`create.ts`, `reschedule.ts`, `cancel.ts`) | the call's memory between transactions: its opId and gen, etags it read | T1, calendar steps, T2 or T2', compensation, restart | row, calendar, settle, superseded |
| Settling and superseded workers (`settle.ts`, `superseded.ts`) | – | decide from a locked read what an unknown COMMIT did; answer for a worker that lost its operation | all flows |
| Repair and notify (`repair.ts`, `notify/route-order.ts`) | – | N-1 recovery of a stale create or repair, N-2 repair of a failed calendar, N-3 emails | row, calendar, ledger |
| Reaping (`reap.ts`, `rows.ts`) | `unresolved_inserts`, `reap_cursor`, each entry's `inspectSeq` | stamp a bounded batch, inspect, delete, retire | row, calendar, every call that reads |
| Google adapter (`google/*.ts`) | events, etags | insert, get, conditional patch, conditional delete, list | may refuse, time out, and execute late |
| Delivery ledger (`notify/send.ts`, `notify/ledger.ts`) | `notification_deliveries` | claim, send, finalize, retry | row (revision and action), Gmail |
| Availability pages (`availability.ts`, `occupancy.ts`) | – | list, read the rows the events name, classify, reap, read the occupancy | calendar, rows |
| Slot generation and time zones (`availability/slots.ts`, `timezone.ts`) | – | the grid of offered starts, membership tests of the mutations, local time to UTC | availability, create and reschedule |
| Guest booking controls (`booking-controls-store.ts`, `BookingControls.tsx`) | the booking shown, the state, the kept request, the observed pair, the latch | select, cancel, resend, try again, reload, one automatic retry | the HTTP routes |
| Public form (`booking-form-store.ts`, `submission-record.ts`) | the submission record in memory and in sessionStorage, the latch, the keys already replayed automatically | submit, replay after a reload, one automatic replay, Try again, Start over | the HTTP routes |
| In-memory group and collective bookings (`booking.ts`) | maps of bookings and events, one promise chain per host and start | create, move, cancel under the chains | calendar adapter, webhooks |
| Single-use links, one-off meetings (`single-use-link.ts`) | in-memory maps | consume | T2 |
| Reminders, webhooks, email composition, owners, auth, routes, pages | configuration, an in-memory log | – | – |

`PROJECT.json` lists the same parts with what is modelled of each, and every hazard with the line
where it bites.

### What is hard in this code

* **Two decisions on different reads.** A create decides from L0, then R0, then T1. Only T1 holds
  the host lock; everything before it may be stale (`create.ts:200`, `create.ts:224`).
* **Work that outlives its worker.** A request Google never answered may still be executed after
  its operation was cleared, replaced or cancelled (`rows.ts:222`), or by a worker that was paused
  long enough to be declared stale (`ops.ts:259`).
* **Unknown commits.** After a lost COMMIT response others can write before the locked re-read
  that is meant to tell what happened (`settle.ts:60`).
* **Replaced operations.** A cancel replaces an unfinished create or move and may itself fail; the
  creation it carries must become an operation again (`cancel.ts:571`).
* **At-least-once email.** A claim can go stale while its owner is still sending
  (`pg-store.ts:256`).
* **Handlers that overlap in one page.** The guest page's latch is free while a refused request
  waits and while a changed booking is read again, and some handlers never take it
  (`booking-controls-store.ts:271`, `:309`, `:230`, `:169`).
* **Answers that outlive their page.** The form may be reloaded between a request and its answer,
  with a browser that keeps the record, cannot, or stops being readable; the request of the old
  page is still served (`submission-record.ts:56`, `booking-form-store.ts:276`).
* **Free time read in pieces.** Availability lists the calendar, reads rows and reads occupancy
  one after the other while the booking moves, late inserts land and ids are retired
  (`occupancy.ts:75`, `:104`).
* **Bounded reaping.** A call deletes a few retired events only; readers overlap and die between
  the stamp and the deletion (`rows.ts:166`).
* **Local hours that are skipped or repeated** (`timezone.ts:75`), and two grids, of the page and
  of the mutation, that must agree (`slots.ts:50`).
* **Locks named by host and start** in the in-memory path: collectives take several of them, and
  overlapping times at different starts share none (`booking.ts:318`, `:685`).

### What makes each component correct

* Occupancy: no two bookings of a host hold overlapping time; a refused payload is refused for
  ever; a key names one booking; answers to one request never contradict each other.
* Row and flows: an unfinished creation always has an owner; every insert that might still happen
  is on record; a settled booking has its event at its time; nothing live is on no record; one
  worker per generation; a failure answered is a failure.
* Guest page: a change confirmed once is made at most once, however often it is sent; one
  operation at a time; nothing older is shown; the page never sits disabled with nothing in
  flight; a resend names a change that happened.
* Form: a guest who does not start over holds one booking at most; a booking that was made is on
  record or on screen; "your earlier booking didn't go through" is true and stays true; a stale answer moves nobody; the page always comes to
  offer something.
* Availability: what is offered meets no reservation and no event that stood during the whole
  read; it is what the mutations accept; it lies in the published hours; no retired id is passed
  over for ever.
* In-memory bookings: hosts and seats are held once, event and map agree, nobody waits in a circle.
* Ledger: copies never exceed recorded attempts; only the latest claim settles; "sent" was
  accepted; only the latest change is ever claimed.

## 2. Modules

| Module | Models | State ↔ code |
|---|---|---|
| `HostBookings` | all bookings and create requests of one host, one action per transaction | `status`, `window`, `reserved`, `op`, `to`, `finalized`, `carried` are columns of `bookings`; `fences` is `create_rejections`; `stage`, `decided`, `target`, `answer` are where each request is in `createBooking` |
| `HostBookingsProofs` | theorems about it | |
| `Booking` | one row, its events, what Google does with a request, the conditional updates | `row` = the row, `cal` = event id → event, `late` = requests timed out but not dead, `wk` = each call's memory, `edits` = host deletions |
| `CalendarSteps` | insert, finish, look, bump, reap, sweep: the calendar steps flows share | `settle`/`attempts`/`reap.ts` |
| `Completion` | T2, T2', unknown commits, compensation, clearing, superseded endings | `settle.ts`, `superseded.ts`, the T2s of the flows |
| `CreateFlow`, `RescheduleFlow`, `CancelFlow` | the steps peculiar to one flow | one action per transaction or per Google call |
| `BookingLifecycle` | composes them: `Init`, `Next`, fairness, properties, and the refinement `Rows` | |
| `LifecycleOwnership` | proofs: the types, what a call has in hand at each step, who owns the operation, what calls answer, the refinement | |
| `LifecycleLedger` | proofs, on the former: retired ids and the attempt ledger | |
| `DeliveryLedger` | the emails of one booking: claims, sends, finalization | `state`, `attempts`, `stale` are `notification_deliveries`; `claims`, `settling` are what calls hold between statements |
| `DeliveryLedgerProofs` | theorems about it | |
| `BookingControls` | the guest's page, every handler a thread that runs from await to await, over what the lifecycle routes promise it | `page` = `ControlsSnapshot` with its latch, `thread` = where each handler awaits, `booking` and `open` = the row's revision, action and pending operation; `made` and `crossed` record history for the properties |
| `BookingControlsProofs` | theorems about it | |
| `BookingForm` | the public form, every handler a thread from await to await, reloads, over what the server promises one key | `memory`, `stored` = the record in memory and in sessionStorage, `storage` = what the browser allows, `recovery`, `latch`, `auto`, `notice` = the store's fields, `late` = requests whose page is gone; `unfit`, `forgotten`, `unread` say of each key what became of it, for the server and the properties |
| `BookingFormProofs` | theorems about it | |
| `SlotGrid` | pure operators: local time to UTC, weekly windows, the grid, candidate tests | no state |
| `Availability` | readers of free time, in steps, among a move or cancel, late inserts, host edits and other readers; bounded reaping | `row`, `cal` = the booking and its events, `marks`, `cursor` = `inspectSeq` and `reap_cursor`, `reader` = what a read holds |
| `AvailabilityProofs` | theorems about it and about `SlotGrid` | |
| `FixtureBookings` | the in-memory group and collective bookings | `bookings`, `events` = the maps, `queue` = the promise chains, `pc`, `keys`, `at` = where each call is |
| `FixtureBookingsProofs` | theorems about it | |
| `MC*` | workloads and symmetry for TLC | |

`HostBookings` is the abstract specification of the rows. `BookingLifecycle` instantiates it for
its one row (`Rows == INSTANCE HostBookings WITH ...`); every step of every call is one that
`HostBookings!RowsSpec` allows (`RowsImplemented`, checked by TLC and proved as `RowsImplement`).
The absence of double bookings is therefore proved on the steps that the detailed flows take, of
which only T1 reads the host's other rows: `HostBookings` says what it finds there.

### Abstractions in `HostBookings`

* A transaction under the per-host advisory lock is one action. The calendar calls between two
  transactions are the freedom to run the next one at any later time, or never.
* An update conditioned on opId and gen changes nothing when the condition fails, so only the
  owner's update appears. `calendar_repair` touches neither interval nor key and is left out.
* R0 is a read outside the lock whose answer (busy, free, unknown) is any of the three.

### Abstractions in the lifecycle modules

* What a worker mints (its opId, its intended event id) is named by the worker; an etag is the
  event's version; a time is a small number; two starts overlap only when they are equal.
* Merged steps, each because nothing the second half reads is written by the first or by anyone
  in a way that matters: observing an event and appending the attempt; a reschedule's inspection
  and its T1 when no operation is in the way (R0 writes nothing); L0 with `acquireStaleOp`; T1
  with the ownership check before the first patch; the two gets that judge a fallback (the old
  event has been bumped by then, so a predecessor's patch on it fails).
* A read of Google that fails, or a 503, ends the call having written nothing: the worker simply
  never steps again. The same stands for a crash.
* A delete answered 404 or 410 counts as done. A definite failure of a T2 other than the
  reschedule's leaves the operation for others, as the code does.
* `reuseLands` says what Google does with an insert under the id of a deleted event: refuse it as
  a duplicate or land it (the two collision modes of `mock-calendar.ts`).
* A malformed 2xx answer to an insert is ambiguous, like a timeout (`verifyInsert`).
* A reap inspects every eligible id in turn: two or three calls never fill the batch of five. The
  bounded batch and its cursor are in `Availability`. Only insert attempts are kept: no code reads
  the others.

### Abstractions in `DeliveryLedger`

* A (revision, action) pair is a number, 0 for a row without one. Two minutes' age of
  `claimed_at` is membership in `stale`.
* Each recipient is claimed in a savepoint of its own, so any subset of the claimable ones may be
  granted. A claim whose COMMIT fails or whose response is lost sends nothing.
* Notify's N-3 and a flow's `sendBookingEmails` differ only in the pair they expect; notify's
  "latest" form expects 0.

### Abstractions in `BookingControls`

* A row is its revision and latest action; the token, the times offered and what a slot starts at
  are left out. A request names the booking the guest saw, and the click that made it.
* The server is three steps of a request: it is refused or answered from the row, or it becomes
  (or takes over) the pending operation; its worker ends the operation, gives up, or finds itself
  superseded. Others may begin an operation, and whoever holds one may end it at any time.
* A lost answer and an error answer are one answer, since the page cannot tell them apart.
* A click has its effect when the button is there and enabled, as `BookingControls.tsx` renders
  it. A booking not found by a refresh or a reload is one of their outcomes.
* `crossed` turns true when a handler that takes no latch (a reload, or a failed availability
  read) writes the page's state while another handler is at work. `OneAtATime` and
  `ShownNeverOlder` promise nothing after that, because the code then does not keep them.

### Abstractions in `BookingForm`

* A booking is its key. The server holds at most one row for a key and none once a rejection of
  that key is on record, which is what `HostBookings` is proved to do (`OneBookingPerKey`,
  `FencedNeverBooked`); a create may stay in progress for ever.
* Answers are kept by what the page does with them. Terminal for the key, so that its record is
  cleared (`IsTerminalForKey`): created; conflict; invalid (a 400); and garbled, a 201 whose body
  was cut off, which `client.ts:191` answers with status 201 and not ok. Not terminal: in progress
  (replayed once by itself); unknown (every 5xx, and a superseded create); refused (neither
  terminal nor replayable: a page that no longer exists, or a 409 cut off); lost. Of the terminal
  ones only created navigates, and only a conflict loads the times anew; a garbled or invalid one
  is a generic error after a submit and the notice after a replay.
* `unfit` are the keys of payloads that the form accepts and the server does not: its check of the
  address (`address.ts:54`) is stricter than the form's (`booking-form-store.ts:115`). Such a
  payload is refused before any write, each time it is sent. A 422, a key with another payload's
  row, has the same effects on the page and is not told apart: the form sends a key with one
  payload only.
* `unread` are the keys whose record was cleared on a garbled 201. It is history for the
  properties, and takes a key back out when a reload finds its record after all.
* A request whose page was reloaded goes to `late`, from which it may be served at any later time
  and any number of times.
* `storage` works, is full (reads but does not write) or is denied, and may change at a reload.
* The month shown, the selection and the times are left out: they decide nothing here. The load
  after a conflict is kept, because it holds the latch.
* `twice` is React's development mode, in which the effects of a page run twice and `start()`
  replays one record in two handlers. Safety is claimed with it. `FormAnswers` is not: the answer
  of one replay may clear the record and leave the other's page "recovering".

### Abstractions in `SlotGrid` and `Availability`

* A day has `Day` units and a week `Week` days; a zone has one change of offset. Weekly windows
  only: one-off windows and calendars read through freeBusy are left out.
* One booking stands for the host's, with one event of its own (`Live`), events of the host's
  (`Foreign`) and the ids it has retired, numbered as they were issued (`Leftovers`).
* Moving, cancelling, patching and deleting are the steps a move and a cancel take in the
  lifecycle modules, reduced to what a reader can see of them.
* `place` is a schedule together with how much of everything happens in it; in a `still` place
  only readers move. `stood` and `passed` record history for the properties.
* A batch is said by where its ids stand in the fair order (`Ahead`, how many come before one), not
  as the front of a sorted list: the order is total, so the two are the same.
* `OfferedIsFree` has one exception, which the code has: an event of the booking's own is left to
  its row where the row, when read, accounted for it.
* `SlotsInHours` promises something only where every published time of the days in question is
  shown exactly once by the local clock. West of Greenwich the code takes a skipped time an hour
  late and a repeated one at its first showing; east, an hour early and at its second.

### Abstractions in `FixtureBookings`

* Each call is the chain of its awaits: locks one after another, the listing of busy times, the
  calendar call, the record in the map, the webhooks. A slot is a unit of time. A chain entry is
  never deleted, because `locks.get(key) === current` never holds (`booking.ts`); that leak
  changes no behaviour and is left out.
* Two exceptions in `HostsHeldOnce` are the code's. Locks are named by host and start, so two
  calls for overlapping times at different starts may decide without seeing each other (`unseen`).
  A moved collective locks and reads its organizer only, so it may land on a co-host's meeting
  (`shifted`). One more is left out by assumption: the starts of one event type are multiples of
  its length (`GridStarts`), that is, they have one phase. A group create ignores the bookings of
  its own type (`booking.ts:331`), so a schedule with two overlapping windows out of phase would
  let a group overlap its own sessions without any race; no route creates such a schedule. In `EventFollowsBooking`, a move and a cancel, or two moves to different starts,
  share no lock; a booking they met on is left out (`clashed`).

## 3. What TLC checks

| Run | Instance | Properties | Distinct states |
|---|---|---|---|
| `host_bookings` | 3 requests, 2 keys, 2 payloads, 3 windows overlapping in a chain | `TypeOK`, `NoDoubleBooking`, `FencedNeverBooked`, `OneBookingPerKey`, `AnswersHold`, `WorkHasOwner` | 534,510 |
| `moves` | five groups of scenarios, below | `TypeOK`, `InsertsOnRecord`, `StrandedByMovesOnly`, `OneOwner`, `EventAgrees`, `CreationAccounted`, `AnswersAreTrue`, `RetiredStaysRetired`, `RowsImplemented` | 1,976,634 |
| `interrupted` | reschedule, cancel from a finished or a failed creation; refusals, timeouts, lost COMMITs, one event deleted by the host; and a create, its replay and a cancel, timeouts, re-used ids that land, lost first COMMITs; fair | `FailedMeansUnwritten`, `EveryCallAnswers` | 303,643 |
| `delivery` | 2 callers, 2 pairs, 2 recipients | `TypeOK`, `CopiesAgree`, `SettledByLatest`, `ClaimsAreCurrent` | 286,505 |
| `controls` | 4 clicks, one change by others; fair | `TypeOK`, `NothingSpins`, `ResendsAreSafe`, `OneAtATime`, `ShownNeverOlder`, `PendingEnds` | 600,218 |
| `form` | 2 keys, 2 handlers, 2 reloads; storage that works, is full or denied; every kind of answer; fair | `TypeOK`, `OneBooking`, `NoticeIsTrue`, `NeverDraggedBack`, `FormAnswers` | 854,438 |
| `fixtures` | 4 calls on a group and two collectives of two hosts, 2 slots | `TypeOK`, `HostsHeldOnce`, `EventFollowsBooking`, `NoWaitingCircle` | 1,263,961 |
| `availability` | 3 plots in which things move, 2,912 schedules around a change of offset | `TypeOK`, `OfferedIsFree`, `GridIsSound`, `NoIdPassedOver` | 792,102 |

The scenarios of `moves`: from no row, a create, a move and a cancel, with refusals and timeouts;
a create, its replay and a cancel, with lost COMMITs of ending transactions too;
from a finished or a failed creation, a repairing notify, a move and a cancel, with timeouts; the
same notify with one move, and a reaping read with two moves, each with refusals, timeouts, lost
COMMITs and one event deleted by the host. Several properties are conjunctions of named parts:
`AnswersHold` is `AnswersAgree` and `CreatedIsFinalized`; `WorkHasOwner` is `ReservationHasOwner`
and `UnfinishedHasOwner`; `EventAgrees` is `BookingHasItsEvent` and `EventWithinHeldTime`;
`CopiesAgree` is `CopiesBounded` and `SentWasAccepted`; `ResendsAreSafe` is `AtMostOnce` and
`PairIsReal`; `GridIsSound` is `OfferedIsAccepted` and `SlotsInHours`.

What they show: in every interleaving of these calls, with these faults, the properties hold. A
mutant of the code beside each property (`PROJECT.json`, `mutants`) breaks it, so none holds by
the model's shape.

### Bounds, and why they are enough

* **Three requests, two keys, two payloads.** A race for a key or a fence takes two requests. The
  third gives the booking that holds the time in the way, or the second replay. Both payloads ask
  for time that overlaps window B, and windows A and C do not overlap, so that overlap is not
  taken for equality. The theorems cover every other number.
* **Two or three calls on one booking.** Every hazard listed needs a predecessor, a successor and
  at most one call that meets what both left. Takeovers chain: a third call meets generation 3.
* **Moves ask for different times** (1 and 2), so no move agrees with another by chance.
* `Scenarios` gives a run its workloads: a history (no row yet, a finished creation, a failed
  one), a world and the call each worker makes. A world is the fault model: which refusals and
  timeouts Google may give, which COMMITs may be lost (a create's first, an ending transaction's,
  or both), what an insert under a deleted event's id does, and how many events the host may delete by hand. `MCBookingLifecycle` lists them. A
  scenario turns off what its question does not concern so that the rest is covered in full;
  none has all of them on with three flows.
* `hostEdits` (at most one) is the only counter bounded in the lifecycle. Versions, generations and
  attempt numbers are bounded by the number of calls. The theorems cover every number of calls and
  of host edits, and every mixture of faults.
* `Clicks = 4` allows the longest story the page has: open the picker, send and be refused while
  the times fail to load, start something else, and try the first again. `Others = 1` gives one
  change by somebody else, which a request can be refused by or take over. The theorems cover
  every other number.
* `Keys = 2`, `Handlers = 2` and `Reloads = 2` in the form: a submission and its successor, a
  handler that waits beside one that acts, and a second reload that meets what the first left in
  flight. The theorems cover every other number.
* In `fixtures`, four calls give two that decide at once and two that meet what they wrote; one
  event type lists its two hosts in the opposite order of another; one spans two slots, so that
  overlap is not equality. `CalendarBusy` is empty: a busy calendar only refuses more.
* In `availability`, `ReapMax = 1` with up to three leftovers fills the batch (the code's is 5)
  and five reads give each its turn and two of them another. The booking's increment (`RescheduleStep = 1`) is
  shorter than a length of 2. Changes of offset by one unit at every point from well before to
  well after the window, in zones two units west and east, cover a window that starts, ends or
  lies in a skipped or repeated hour; three asked ranges cut the day before, inside and after it.
* `Pairs = 2` gives one pair that is superseded and one that is current.

Symmetry is used only where names are interchangeable (the two senders, requests, keys, the two
readers) and never with liveness. Deadlock checking is off
because all calls may have answered, or all clicks been spent, which is the end of a behaviour;
in `fixtures`, where calls wait for each other, `NoWaitingCircle` says what it would.

`CreationAccounted` and `AnswersAreTrue` are true of every scenario and proved so (section 4). TLC
checks them in `moves`, where a create's own T1 does not lose its COMMIT: `OneOwner` and
`InsertsOnRecord`, checked beside them, are false where it does (finding 3).

Two properties are checked under conditions worth knowing. `EventWithinHeldTime` is
checked with `reuseLands` false: if Google lands an insert under a deleted event's id, a delayed
insert can put the event at an old time until the next call observes it. `StrandedByMovesOnly` is
`NothingStranded` wherever at most one call moves, because with two it is false (finding 1). `BookingHasItsEvent` and
`EventWithinHeldTime` say nothing once the host has deleted an event by hand; those behaviours
are kept for the properties beside them. `OneBooking` and `NoticeIsTrue` leave out the bookings
whose 201 could not be read, because of finding 4.

### Fairness

`FairSpec` gives each worker weak fairness on its own next step, and nothing else any. The code
justifies it: every HTTP request to Google and Gmail has a deadline and every transaction has a
lock timeout (`db/index.ts:263`), so a call that is not killed takes its next step. Nothing
obliges time to pass (`TimePasses`), Google to execute a request it did not answer
(`LateExecutes`) or a host to edit. In `BookingControls` and
`BookingForm` each handler has weak fairness on its next step: requests end, timers fire and
promises resolve. The guest never has to click. Nobody has to finish a pending operation, so
`PendingEnds` and `FormAnswers` hold even against one that holds the booking, or the create, for
ever. Liveness is a claim about calls that are not killed; the safety runs have no fairness, so in
them any worker may stop for ever anywhere. `FixtureBookings` and `Availability` claim no liveness.

### Findings

Each is a run that TLC finds violated.

1. **`stranded_fallback`.** `resolveAttempt` (`pg-store.ts:485`) settles an attempt by opId and
   ignores the generation. A superseded move's fallback insert can land after its successor judged
   the fallback absent, be marked `applied` in the operation the successor then abandons
   (`reschedule.ts:825`), and so be on no record when it is cleared; `cleanupEligible`
   (`superseded.ts:184`) finds nothing that names it. A live event remains that no reap will find.
   The repository's `README.md:126` says such an event never persists.
2. **`settle_failed`.** `settle.ts:63` says that the original transaction "is known to have
   finished without committing". For a reschedule `didCommit` (`reschedule.ts:626`) compares the
   row's start with the operation's destination; a committed move that another move has since
   overwritten is answered `reschedule_failed`, and a compensation is attempted. A repair meets the
   same with a cancel (`repair.ts:209`): it looks for a calendar state that a finished cancel has
   set to `deleted`. `FailuresAreTrue` proves that nothing else brings it about.
3. **`two_owners`.** `reconcileT1` (`create.ts:317`) recognises its own row by opId and adopts
   the generation it finds. If a notify took the operation over meanwhile, two workers hold one
   generation, which `ops.ts:331` says the stale window exists to prevent. From there the ledger can lose an
   insert: one of the two replaces what the other appends (see `InsertsKept` below).

4. **`unreadable_answer`.** `readJson` (`transport.ts:39`) turns a body that was cut off into
   null, so a 201 that announces a booking becomes a failure with status 201 (`client.ts:191`), and
   a status of 201 clears the record (`submission-record.ts:56`). After a submit
   (`booking-form-store.ts:600`) the guest sees a generic error over a free form, and the next
   submission mints a second key: two bookings. After a replay (`:298`) the page says that the
   earlier booking did not go through, of one that was made. `client.ts:187` says that "a committed
   booking must never reach the form's failure path". The run shows the cause of both: a booking
   that is neither on record nor on screen. `CommittedStaysKnown` proves that nothing else brings
   it about.

The run `moves`, which reaches 1 and 2 with every fault, keeps the properties listed beside it;
so does `form`, which reaches 4.

Four more facts met while modelling and proving are written into properties and theorems instead. The one automatic
retry of the guest's page may be dropped: while it waits the latch is free, and `loadTimes`'
failure (`booking-controls-store.ts:169`) or a second reload (`:230-253`) enables the controls;
another action starts, and when the wait is over `run` returns at `:257` and the page says nothing
of it (the change is still made at most once: `ResendsAreSafe` has no such condition). The
in-memory path lets bookings overlap in the two ways described under `FixtureBookings`. And in
development mode a form that replays one record twice may be left recovering. And where, east of
Greenwich, the clocks skip a midnight by more than an event's length, a window that starts then is moved to the
evening before (`timezone.ts:75`): a list whose range ends that evening leaves out starts that the
mutation accepts, because `expandWeeklyWindows` stops at the local date of the range's end and the
mutation looks a day further.

## 4. What is proved

TLAPS proves the following for every value of the constants.

`HostBookingsProofs` assumes that windows are pairs of integers (`WindowsAreIntervals`), that a
payload determines its window (`WindowOfType`) and that NULL is not a window (`NoneIsNoWindow`).

| Theorem | Property | Why the property needs strengthening |
|---|---|---|
| `Typing` | `TypeOK` | follows from `Shape` |
| `DoubleBookingImpossible` | `NoDoubleBooking` | completing a move makes the operation's destination the booking's interval, safe only because that destination is the one still reserved: `MoveIsReserved` |
| `KeysUnique` | `OneBookingPerKey` | T1 inserts only after reading the key under its own lock |
| `RejectionIsTerminal` | `FencedNeverBooked` | an insert is undecided, a fence is unbooked, and neither is undone (`FenceStep`) |
| `AnswersAlwaysHold` | `AnswersHold` | `Truthful`: what an answer says, stated per request, and `Monotone`: what no step undoes; with the fence and the key invariants (`CreatedMeansFinalized`, `AnswersNeverContradict`) |
| `WorkIsOwned` | `WorkHasOwner` | an insert must not overwrite a row (`OpenOpIsConfirmed`), and a pending cancel has either a finished creation or a carried one (`CancelCarries`); from `ReservationsOwned`, `CreationsHaveOwners` |

The shared inductive invariant is `Shape`: `TypeOK`, `ReservationHasOwner`, `MoveIsReserved` and
`OpenOpIsConfirmed`. It is local to each row. `NoDoubleBooking` needs two facts more about steps:
every row's held time either shrinks (`HeldShrinks`) or grows by a window just found free
(`HeldGrows`), and only one row changes at a time.

`DeliveryLedgerProofs` assumes `Pairs \in Nat`; the callers are any set.

| Theorem | Property | Inductive invariant |
|---|---|---|
| `LedgerTyping` | `TypeOK` | itself |
| `CopiesAlwaysAgree` | `CopiesAgree` | `Budget`: copies, plus claims still to be sent, plus refused sends still to be recorded, plus one for a delivery marked failed, stay within attempts; `SentHasCopy`: an unwritten "sent" has a copy behind it |
| `OnlyLatestSettles` | `SettledByLatest` | `OneHolder`: no generation is held twice, nor sent on again once answered, nor ahead of the row |
| `ClaimsStayCurrent` | `ClaimsAreCurrent` | the type invariant |

`BookingControlsProofs` assumes that `Clicks` and `Others` are natural numbers and that `None` is no
request and no booking (`NoneIsNoRecord`).

| Theorem | Property | Inductive invariant |
|---|---|---|
| `ControlsTyping` | `TypeOK` | `Typed`: also, a handler that may send holds a request, and one answered "ok" a booking |
| `ResendsStaySafe` | `ResendsAreSafe` | `Once`: all who hold a click's request hold the same one, the pending operation fits the row, and a request whose change was made names the revision before it, so it never fits again; `Observed`: a worker's operation is of its request's kind, and an "ok" to a change tells of a change made (`NeverTwice`, `PairStaysReal`) |
| `NeverSpins`, `OneOperation` | `NothingSpins`, `OneAtATime` | `Alone`: the latch is held by the one handler that is sending, and until a crossing a handler at work is alone under a pending page |
| `NeverShowsOlder` | `ShownNeverOlder` | `Newest`, with `Alone`: nobody has seen more than the row holds, nor the handler at work less than the page shows |

`BookingFormProofs` assumes `PageStarts`: the handlers of `start()` are handlers, the number of
reloads is a natural number and `None` is no key. Keys and handlers are any sets.

| Theorem | Property |
|---|---|
| `FormTyping` | `TypeOK` |
| `OneBookingHeld` | `OneBooking` |
| `NoticeStaysTrue` | `NoticeIsTrue` |
| `CommittedStaysKnown` | `CommittedIsKnown`, but for a 201 that could not be read |
| `NavigationIsWanted` | `NeverDraggedBack` |

They follow from one inductive invariant, `IInv` (theorem `Inductive`), because each needs the
others: `Promised` (a key that is `Barred`, fenced or unfit, has no row, and answers are truthful:
`Says`), `Fresh` (a key not yet minted is untouched), `RecordSound` (the record is no key the guest
gave up, and memory and storage do not name two), `NoticeSound` (a notice is about a barred key, or
an unread one), `VisitSound` (a page that has left has no record), and `Accounted`: a key that was
minted is given up, or is the current record, or the booking shown, or barred, or unread, or was
never sent. `OneBookingHeld` and `CommittedStaysKnown` are `Accounted` read for the keys that have
rows; for the first, the current record and the booking shown exclude each other.

The lifecycle proofs assume that the booking's original call is none of the calls
(`OriginIsNoWorker`), that starts are integers (`StartsAreTimes`), that NULL is no other value
(`NoneIsNoValue`) and that the scenarios are histories, worlds and calls as `Booking` names them
(`ScenariosAreWellFormed`). Workers are any set, finite or not, and a scenario may give them any
calls, faults, lost COMMITs and number of host edits.

| Theorem | Property | Inductive invariant |
|---|---|---|
| `LifecycleTyping` | `TypeOK` | `Typed`: also `Shape`, what kinds of operation, ids, attempts and read results a call has at each place of its flow (`KindFits`, `RouteFits`, `HandFits`) |
| `CreationsAccounted`, `AnswersTrue` | `CreationAccounted`, `AnswersAreTrue` | `Owned`, below |
| `OwnerUnique` | `OneOwner`, unless a T1 COMMIT may be lost | `Owned` |
| `RowsImplement` | `RowsImplemented` | `Owned` before and after each step |
| `FailuresAreTrue` | `FailedMeansUnwritten`, where `Tellable` | `Spoken`, below |
| `RetiredStays` | `RetiredStaysRetired` | `Retired`, below |
| `InsertsKept` | `InsertsOnRecord`, unless a T1 COMMIT may be lost | `KeptOnRecord`, with `Retired`, below |

Some forty actions would each have to be taken through every part of these invariants. The proofs
show instead, once per action, that it is one of a few effects, and then, once per effect, that it
keeps the invariant.

* `Owned` needs every operation to be named by the call that minted it (`AllMinted`); no call to
  remember a later generation than the row, and whoever remembers the same one to remember the same
  operation (`Behind`); nothing to bear the name of a call that has yet to mint (`PristineUnused`);
  the columns to fit together (`RowRules`); and answers, also those a reap still delays, to be true
  of the row (`Claims`). A step has an `Effect`: it changes ledgers only and its call goes on or
  leaves, or it takes over, completes, clears, creates, begins, replaces, or recognises its own row.
* `OwnerUnique` and `InsertsKept` leave out the loss of a T1 response because they are false with
  it: the first by finding 3; the second in the behaviour TLC gives for two deliveries of one
  create and a cancel, where both deliveries work under one generation.
* `RetiredStays` needs to know of each call which events it may still make the booking's (`Aims`),
  that the open operation names no retired id (`IdRules`), and that a call that has yet to mint has
  an id nobody has used (`FreshIds`).
* `KeptOnRecord`: attempts are issued in order (`Numbered`), only a call that gave up leaves an
  insert behind (`LateAreOver`), what is about to be retired can no longer be executed
  (`HeldAreSpent`), no entry anywhere is settled while its insert is pending (`EntriesStand`), and
  whoever replaces a ledger has all of it in hand (`LedgersCovered`).
* `FailuresAreTrue` is about behaviours in which at most one call moves the booking and a repair and
  a cancel do not meet (`Tellable`); the others are finding 2. There, what a call wrote is visible
  to its locked read until it has read it (`Settling`), however many takeovers, replays and lost
  COMMITs come between.

`FixtureBookingsProofs` assumes that lengths, seats and starts are natural numbers, types finitely
many and each with a host (`TypesAreSane`), and that `None` is no booking (`NoneIsNoBooking`).

| Theorem | Property | Inductive invariant |
|---|---|---|
| `FixtureTypes` | `TypeOK` | `Fit`: a call is on the chains of the keys it has asked for, once each, and heads all but the last (`Queued`), and these are what its job locks (`KeysFit`) |
| `NobodyWaitsInACircle` | `NoWaitingCircle` | `Fit`: keys are asked for in the order of the hosts, so a call that waits for the latest host heads its chain |
| `EventsFollow` | `EventFollowsBooking` | `EventFits`, with `Fit`: who works on a booking nobody clashed on works alone, and where the event is at each of its steps |
| `HostsHeld` | `HostsHeldOnce` | `PlaceFits`, with `Fit`: a call that will place a booking has read every confirmed one of its hosts, but for those it missed, and these are at another start or at its co-hosts |

`AvailabilityProofs` assumes that a batch holds at least one id (`ReapAssumption`), that retired ids
are finitely many and numbered as they were issued (`EventsAssumption`), that the hours of a window
lie within a day and an event has a length (`PlacesAssumption`), and that a day, a week and the step
of a move are positive (`GridAssumption`). Readers are any set, places any schedules.

| Theorem | Property | Inductive invariant |
|---|---|---|
| `TypesHold` | `TypeOK` | `Typed`: also, what a reader has in hand at each of its steps |
| `OffersAreFree` | `OfferedIsFree` | `Free`: what the watch holds against a read still stands (`Stands`); it is on the list until the row is read and afterwards busy, or accounted for by the row (`Covered`); what is offered meets nothing found busy (`Clear`) |
| `NobodyPassedOver` | `NoIdPassedOver` | `InTurn`: whatever was inspected while another waited stands behind it. Stamps of a batch are above every earlier one (`StampEffect`), and a batch is what comes first in the fair order (`BatchComesSooner`) |
| `HoursKept` | `SlotsInHours` | `Answered`: what a reader answered is the grid of its range less what it found busy. Where a time is shown exactly once, the conversion finds that instant, and the clock shows less before it and no less after it, whatever the change is (`PlainTimes`) |
| `GridHolds` | `GridIsSound`, in datewise places | `Answered`, with `GridsAgree`: a start is of one local date, which both ranges reach |

`GridHolds` is about places in which dates never go back, the hours published for a date are on it
and no event is longer than a day (`Datewise`). Elsewhere the property can fail in the code, as
section 3 says. `DaytimeChangesAreDatewise` shows that a zone whose clocks change further from
midnight than they change by is such a place, which the usual change of an hour at 1, 2 or 3 o'clock
is; `HoursKept` has no such hypothesis, and TLC checks `GridIsSound` with changes at every hour.

### Only model-checked

* `StrandedByMovesOnly` and `EventAgrees`: where the event is, at each step of each flow and for
  each late request, is the largest invariant the lifecycle has; both hold under conditions on the
  world.
* `GridIsSound` in places that are not datewise: over every window and change of the bounds only.
* `EveryCallAnswers`, `PendingEnds` and `FormAnswers`: liveness under fairness is beyond the prover.

### Not modelled, and why

* Single-use links: one synchronous assignment, idempotent for its booking, inside T2 of the shared
  create, which is modelled; no state that is modelled sees it.
* One-off windows and freeBusy calendars: a list of intervals in place of the weekly ones, and more
  of the busy time that a listing already gives.
* Reminders: jobs kept in a map that nothing reads back. Webhooks: that delivery may throw is a step
  of the in-memory calls (`Told`); the log and its manual retry promise no order and no
  exactly-once.
* Email composition, owners, catalog and demo seed, authentication, OAuth, routes and the rendering
  of pages: configuration, formatting or delegation, with no ordering promise of their own.
* `memory-store.ts` mirrors `pg-store.ts`, which is the one modelled; its occupancy and its
  stamping are the ones `Availability` translates. Paging and parsing in `live-calendar.ts`.

## 5. Plan

Written, in this order: `HostBookings` and its proofs; the lifecycle modules; the refinement
between them; `DeliveryLedger` and its proofs; `BookingControls` and its proofs; `BookingForm` and
its proofs; `FixtureBookings`; `SlotGrid` and `Availability`; the proofs of the lifecycle, of
`FixtureBookings` and of `Availability`.

Next, in this order:

1. `StrandedByMovesOnly` as a theorem, from `KeptOnRecord` and an invariant of which ids have live
   events; then `EventAgrees`.
2. Single-use links, together with T2 and a COMMIT that fails.

## 6. Running

    tlc -workers 2 -config MCHostBookings.cfg MCHostBookings
    tlc -workers 2 -config Moves.cfg MCBookingLifecycle     # and the other lifecycle .cfg files
    tlc -workers 2 -config MCDeliveryLedger.cfg MCDeliveryLedger
    tlc -workers 2 -config BookingControls.cfg BookingControls
    tlc -workers 2 -config BookingForm.cfg BookingForm
    tlc -workers 2 -config UnreadableAnswer.cfg BookingForm
    tlc -workers 2 -config FixtureBookings.cfg MCFixtureBookings
    tlc -workers 2 -config Availability.cfg MCAvailability
    tlapm HostBookingsProofs.tla
    tlapm LifecycleOwnership.tla
    tlapm LifecycleLedger.tla
    tlapm FixtureBookingsProofs.tla
    tlapm BookingControlsProofs.tla
    tlapm DeliveryLedgerProofs.tla
    tlapm BookingFormProofs.tla
    tlapm AvailabilityProofs.tla
