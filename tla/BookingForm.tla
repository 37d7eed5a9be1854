----------------------------- MODULE BookingForm -----------------------------
(***************************************************************************)
(* The public booking form, BookingFormStore, and the submission record it *)
(* keeps for a create whose outcome it does not know (C9).  Each           *)
(* asynchronous handler runs from one await to the next as one step; a     *)
(* reload kills them all and leaves their requests to the server.          *)
(*                                                                         *)
(* The server is what createDurableBooking promises one idempotency key:   *)
(* at most one row, and none at all behind a rejection on record or for a  *)
(* payload it does not accept.  A request nobody waits for any more may be *)
(* served at any later time.                                               *)
(***************************************************************************)
EXTENDS Integers, FiniteSets

CONSTANTS
  Keys,       \* bound: the keys the guest's submissions may mint
  Handlers,   \* bound: the handlers running at once
  First, Second,   \* the handlers that start() runs in
  Reloads,    \* bound: the reloads of the page
  None

ASSUME PageStarts == {First, Second} \subseteq Handlers /\ Reloads \in Nat /\ None \notin Keys

VARIABLES
  row,        \* key -> the server's row: none, open (create pending) or booked (finalized)
  fenced,     \* the keys with a rejection on record
  late,       \* the keys of requests whose sender is gone
  stored,     \* the key of the record in sessionStorage
  storage,    \* what the page may do with sessionStorage
  memory,     \* pendingRecord: the key of the record in memory
  minted,     \* the keys used so far
  unfit,      \* the keys minted for a payload that the form accepts and the server does not
  forgotten,  \* the keys given up by Start over, or by a reload that finds no record
  unread,     \* the keys whose record was cleared on a 201 that could not be read
  recovery, latch, auto, notice,
  visited,    \* the key of the booking the page navigated to
  at, key, answer,   \* handler -> where it awaits, for which key, and the answer it got
  twice,      \* does React run the page's effects twice, as its StrictMode does?
  reloads

server == <<row, fenced, late>>
record == <<stored, memory, minted, unfit, forgotten, unread>>
handler == <<at, key, answer>>
page == <<recovery, latch, auto, notice, visited>>
rest == <<storage, twice, reloads>>
vars == <<server, record, handler, page, rest>>

Init ==
  /\ row = [k \in Keys |-> "none"] /\ fenced = {} /\ late = {}
  /\ stored = None /\ storage \in {"works", "full", "denied"}
  /\ memory = None /\ minted = {} /\ unfit = {} /\ forgotten = {} /\ unread = {}
  /\ recovery = "idle" /\ latch = FALSE /\ auto = None /\ notice = None /\ visited = None
  /\ at = [h \in Handlers |-> "idle"] /\ key = [h \in Handlers |-> None]
  /\ answer = [h \in Handlers |-> "none"] /\ twice \in BOOLEAN /\ reloads = 0
-----------------------------------------------------------------------------
\* The server.

SetRow(k, r) == row' = [row EXCEPT ![k] = r] /\ UNCHANGED fenced

\* Mutant: a rejection is answered without being recorded.
FencesNothing(k) == row[k] = "none" /\ UNCHANGED <<row, fenced>>

Fences(k) == row[k] = "none" /\ fenced' = fenced \cup {k} /\ UNCHANGED row

Opens(k) == row[k] = "none" /\ k \notin fenced /\ SetRow(k, "open")
Books(k) == row[k] # "booked" /\ k \notin fenced /\ SetRow(k, "booked")
Writes(k) == k \notin unfit /\ (Fences(k) \/ Opens(k) \/ Books(k))
Stays == UNCHANGED <<row, fenced>>

LateArrives == \E k \in late : Writes(k) /\ UNCHANGED <<late, record, handler, page, rest>>

\* An open create is finished by the worker that has it, a replay's or a notify's.
OpenEnds ==
  \E k \in Keys : /\ row[k] = "open" /\ Books(k)
                  /\ UNCHANGED <<late, record, handler, page, rest>>

\* What one request does and how it is answered.  "garbled" is a 201 whose body is no
\* booking, cut off for one: the client reads it as status 201 and not ok.  "invalid" is a
\* 400 or a 422.  "unknown" stands for every 5xx and for operation_superseded, "refused"
\* for what is neither terminal nor replayable: a page that is gone, or a 409 cut off.
Serves(k, a) ==
  \/ a \in {"created", "garbled"} /\ k \notin unfit /\ (Books(k) \/ (row[k] = "booked" /\ Stays))
  \/ a = "conflict" /\ k \notin unfit /\ (Fences(k) \/ (k \in fenced /\ Stays))
  \/ a = "in_progress" /\ row[k] = "open" /\ Stays
  \/ a = "invalid" /\ k \in unfit /\ Stays
  \/ a \in {"unknown", "refused"} /\ (Writes(k) \/ Stays)

Answers == {"created", "garbled", "conflict", "in_progress", "invalid", "unknown", "refused"}
InFlight(h) == at[h] \in {"submit", "replay"} /\ answer[h] = "none"

Served(h) ==
  /\ InFlight(h)
  /\ \/ \E a \in Answers :
          /\ Serves(key[h], a) /\ answer' = [answer EXCEPT ![h] = a]
          /\ UNCHANGED late
     \/ /\ answer' = [answer EXCEPT ![h] = "lost"] /\ late' = late \cup {key[h]}
        /\ Stays
  /\ UNCHANGED <<record, at, key, page, rest>>
-----------------------------------------------------------------------------
\* The record.

Readable == IF storage = "denied" THEN None ELSE stored
Unresolved == IF memory # None THEN memory ELSE Readable

\* Mutant: every answer is taken for the current submission's.
AnyIsCurrent(k) == TRUE

IsCurrentKey(k) == Unresolved = k

RememberUnresolved(k) ==
  memory' = k /\ stored' = (IF storage = "works" THEN k ELSE stored)

ClearUnresolved == memory' = None /\ stored' = (IF storage = "denied" THEN stored ELSE None)

\* Mutant: a 5xx proves that no booking was made.
TerminalOnErrors(a) == a \in {"created", "garbled", "conflict", "invalid", "unknown"}

\* 201, 400, 409 slot_unavailable or session_full, 422: a 201 is terminal even if not ok.
IsTerminalForKey(a) == a \in {"created", "garbled", "conflict", "invalid"}
IsAutoReplayable(a) == a = "in_progress"
IsReplayable(a) == a \in {"in_progress", "unknown"}
-----------------------------------------------------------------------------
\* The handlers.

Awaits(h, p, k) ==
  /\ at' = [at EXCEPT ![h] = p] /\ key' = [key EXCEPT ![h] = k]
  /\ answer' = [answer EXCEPT ![h] = "none"]
Ends(h) == Awaits(h, "idle", None)
Release == latch' = FALSE

\* Mutant: the one automatic replay is never spent.
AutoReplayAlways(h, k) ==
  recovery' = "recovering" /\ Awaits(h, "wait", k) /\ UNCHANGED auto

AutoReplay(h, k) ==
  IF auto = k THEN recovery' = "stalled" /\ Ends(h) /\ UNCHANGED auto
              ELSE auto' = k /\ recovery' = "recovering" /\ Awaits(h, "wait", k)

Navigate(h) == visited' = key[h] /\ Ends(h)
Stalls(h) == recovery' = "stalled" /\ Ends(h)

\* The page is on screen, and nothing has taken the guest away from it.
Shows(r) == recovery = r /\ visited = None

\* submit: a start that has passed, before a key is minted or in createBooking, reaches
\* no server and reloads the times under the latch.
Submit(h) ==
  /\ Shows("idle") /\ ~latch /\ at[h] = "idle"
  /\ \/ /\ latch' = TRUE /\ Awaits(h, "conflict", None) /\ UNCHANGED <<record, recovery>>
     \/ /\ Unresolved # None /\ recovery' = "stalled"
        /\ UNCHANGED <<record, handler, latch>>
     \/ /\ Unresolved = None /\ latch' = TRUE
        /\ \E k \in Keys \ minted :
             /\ minted' = minted \cup {k}
             /\ \/ /\ RememberUnresolved(k) /\ Awaits(h, "submit", k)
                   /\ unfit' \in {unfit, unfit \cup {k}}
                \/ ClearUnresolved /\ Awaits(h, "conflict", None) /\ UNCHANGED unfit
        /\ UNCHANGED <<forgotten, unread, recovery>>
  /\ UNCHANGED <<server, auto, notice, visited, rest>>

\* The load after a conflict is over, well or badly.
ConflictOver(h) ==
  /\ at[h] = "conflict" /\ Ends(h) /\ Release
  /\ UNCHANGED <<server, record, recovery, auto, notice, visited, rest>>

SubmitFails(h, a) ==
  /\ UNCHANGED <<record, visited>> /\ Release
  /\ \/ a = "lost" /\ Stalls(h) /\ UNCHANGED auto
     \/ /\ a # "lost" /\ ~IsCurrentKey(key[h])
        /\ Ends(h) /\ UNCHANGED <<recovery, auto>>
     \/ a # "lost" /\ IsCurrentKey(key[h]) /\ IsAutoReplayable(a) /\ AutoReplay(h, key[h])
     \/ /\ a # "lost" /\ IsCurrentKey(key[h]) /\ ~IsAutoReplayable(a) /\ ~IsTerminalForKey(a)
        /\ UNCHANGED auto
        /\ IF IsReplayable(a) THEN Stalls(h) ELSE Ends(h) /\ UNCHANGED recovery

\* A terminal answer for the current key clears its record.
Clears(h, a) ==
  /\ a # "lost" /\ IsCurrentKey(key[h]) /\ IsTerminalForKey(a)
  /\ ClearUnresolved /\ UNCHANGED <<minted, unfit, forgotten>>
  /\ unread' = (IF a = "garbled" THEN unread \cup {key[h]} ELSE unread)

\* Only an ok answer navigates; a terminal one that is no conflict is a generic error,
\* under which the guest may submit again.
SubmitSettles(h, a) ==
  /\ Clears(h, a) /\ UNCHANGED <<recovery, auto>>
  /\ \/ a = "created" /\ Navigate(h) /\ UNCHANGED latch
     \/ a = "conflict" /\ Awaits(h, "conflict", None) /\ UNCHANGED <<latch, visited>>
     \/ a \notin {"created", "conflict"} /\ Ends(h) /\ Release /\ UNCHANGED visited

Submitted(h) ==
  /\ at[h] = "submit" /\ answer[h] # "none"
  /\ SubmitFails(h, answer[h]) \/ SubmitSettles(h, answer[h])
  /\ UNCHANGED <<server, notice, rest>>

ReplayFails(h, a) ==
  /\ UNCHANGED <<record, visited, notice>>
  /\ \/ a = "lost" /\ Stalls(h) /\ UNCHANGED auto
     \/ /\ a # "lost" /\ ~IsCurrentKey(key[h])
        /\ Ends(h) /\ UNCHANGED <<recovery, auto>>
     \/ a # "lost" /\ IsCurrentKey(key[h]) /\ IsAutoReplayable(a) /\ AutoReplay(h, key[h])
     \/ /\ a # "lost" /\ IsCurrentKey(key[h]) /\ ~IsAutoReplayable(a) /\ ~IsTerminalForKey(a)
        /\ Stalls(h) /\ UNCHANGED auto

ReplaySettles(h, a) ==
  /\ Clears(h, a) /\ UNCHANGED auto
  /\ IF a = "created" THEN Navigate(h) /\ UNCHANGED <<recovery, notice>>
                      ELSE /\ recovery' = "idle" /\ notice' = key[h] /\ Ends(h)
                           /\ UNCHANGED visited

Replayed(h) ==
  /\ at[h] = "replay" /\ answer[h] # "none"
  /\ ReplayFails(h, answer[h]) \/ ReplaySettles(h, answer[h])
  /\ UNCHANGED <<server, latch, rest>>

WaitOver(h) ==
  /\ at[h] = "wait"
  /\ IF IsCurrentKey(key[h]) THEN Awaits(h, "replay", key[h]) ELSE Ends(h)
  /\ UNCHANGED <<server, record, page, rest>>

\* Mutant: Try again trusts that a stalled page has a record.
TryAgainBlindly(h) ==
  /\ Shows("stalled") /\ at[h] = "idle"
  /\ auto' = None /\ recovery' = "recovering" /\ Awaits(h, "replay", Unresolved)
  /\ UNCHANGED <<server, record, latch, notice, visited, rest>>

\* retryRecovery
TryAgain(h) ==
  /\ Shows("stalled") /\ at[h] = "idle"
  /\ IF Unresolved = None
       THEN recovery' = "idle" /\ UNCHANGED <<auto, handler>>
       ELSE auto' = None /\ recovery' = "recovering" /\ Awaits(h, "replay", Unresolved)
  /\ UNCHANGED <<server, record, latch, notice, visited, rest>>

\* discardRecovery
StartOver ==
  /\ Shows("stalled")
  /\ forgotten' = forgotten \cup ({Unresolved} \ {None})
  /\ ClearUnresolved /\ recovery' = "idle"
  /\ UNCHANGED <<server, minted, unfit, unread, handler, latch, auto, notice, visited, rest>>

\* The page is loaded anew: its handlers are gone, a record it can read is replayed
\* before anything is shown.
Reload ==
  /\ visited = None /\ reloads < Reloads /\ reloads' = reloads + 1
  /\ storage' \in {"works", "full", "denied"} /\ memory' = None
  /\ LET found == IF storage' = "denied" THEN None ELSE stored
         mounted == IF twice THEN {First, Second} ELSE {First}
     IN
       /\ forgotten' = (forgotten \cup ({Unresolved} \ {None})) \ {found}
       /\ unread' = unread \ {found}
       /\ recovery' = (IF found = None THEN "idle" ELSE "recovering")
       /\ at' = [h \in Handlers |-> IF found # None /\ h \in mounted THEN "replay" ELSE "idle"]
       /\ key' = [h \in Handlers |-> IF h \in mounted THEN found ELSE None]
  /\ answer' = [h \in Handlers |-> "none"]
  /\ late' = late \cup {key[h] : h \in {g \in Handlers : InFlight(g)}}
  /\ latch' = FALSE /\ auto' = None /\ notice' = None
  /\ UNCHANGED <<row, fenced, stored, minted, unfit, visited, twice>>

Goes(h) == Served(h) \/ Submitted(h) \/ Replayed(h) \/ WaitOver(h) \/ ConflictOver(h)

Next ==
  \/ \E h \in Handlers : Submit(h) \/ TryAgain(h) \/ Goes(h)
  \/ StartOver \/ Reload \/ LateArrives \/ OpenEnds

Spec == Init /\ [][Next]_vars

\* Requests end, timers fire and promises resolve.
FairSpec == Spec /\ \A h \in Handlers : WF_vars(Goes(h))
-----------------------------------------------------------------------------
TypeOK ==
  /\ row \in [Keys -> {"none", "open", "booked"}]
  /\ fenced \subseteq Keys /\ late \subseteq Keys
  /\ minted \subseteq Keys /\ unfit \subseteq Keys /\ forgotten \subseteq Keys /\ unread \subseteq Keys
  /\ {stored, memory, auto, notice, visited} \subseteq Keys \cup {None}
  /\ storage \in {"works", "full", "denied"}
  /\ recovery \in {"idle", "recovering", "stalled"} /\ latch \in BOOLEAN /\ twice \in BOOLEAN
  /\ at \in [Handlers -> {"idle", "submit", "replay", "wait", "conflict"}]
  /\ answer \in [Handlers -> Answers \cup {"none", "lost"}]
  /\ key \in [Handlers -> Keys \cup {None}] /\ reloads \in 0 .. Reloads
  /\ \A h \in Handlers : at[h] \in {"submit", "replay", "wait"} => key[h] \in Keys

Held == {k \in Keys : row[k] # "none"}

\* However answers are lost, delayed or refused and whenever the page is reloaded, a guest
\* who never presses Start over, and whose browser keeps the record, holds one booking at
\* most: "clearing here is exactly how a guest ends up with two bookings"
\* (submission-record.ts:15).  The code has one exception, a 201 that cannot be read.
OneBooking == Cardinality(Held \ (forgotten \cup unread)) <= 1

\* "Your earlier booking didn't go through" (booking-form-store.ts:299) is true when it is
\* shown and stays true: no request still under way can make that booking.  It is false of
\* a booking whose 201 could not be read.
NoticeIsTrue == notice # None => row[notice] = "none" \/ notice \in unread

Known(K) == \A k \in K : row[k] = "booked" => k \in {Unresolved, visited}

\* "a committed booking must never reach the form's failure path" (client.ts:187, REV8-02):
\* one that was made, and that the guest has not given up, is on record or on screen.
CommittedIsKnown == Known(Keys \ forgotten)

\* The page goes to a booking that was made, and never to one the guest has given up: an
\* answer that arrives after Start over changes nothing (REV8-01).
NeverDraggedBack == visited # None => row[visited] = "booked" /\ visited \notin forgotten

\* A page that is recovering, or holds its latch, comes to offer the guest something or
\* leaves for the booking, even if the create is in progress elsewhere for ever.  Not so
\* where start() runs twice: the answers of one replay may leave the other's page hanging.
FormAnswers ==
  /\ ~twice /\ recovery = "recovering" ~> recovery # "recovering" \/ visited # None
  /\ latch ~> ~latch \/ visited # None
=============================================================================
