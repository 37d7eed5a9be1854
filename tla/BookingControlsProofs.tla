----------------------- MODULE BookingControlsProofs -----------------------
(***************************************************************************)
(* The guest page's safety for every number of clicks and of changes by    *)
(* others.  After the types come what each step does to the fields the     *)
(* invariants read, then three inductive invariants: Once (the holders of  *)
(* a click's request agree, and a spent one is behind the row), Alone (the *)
(* latch has one holder) and Observed; Newest needs Alone besides.         *)
(***************************************************************************)
EXTENDS BookingControls, FiniteSetTheorems, TLAPS

USE BoundsAreCounts

States == {"idle", "pending", "stalled", "conflict", "error", "done"}
Stages == {"none", "request", "serving", "answered", "wait", "refresh", "reload", "times"}
Answers == {"none", "ok", "in_progress", "slot", "changed", "stale", "unknown", "error"}

\* A handler that may send holds a request; one answered "ok" holds a booking.
Ready(t) ==
  /\ t.at \in {"request", "serving", "answered", "wait"} => t.req # None
  /\ t.at = "answered" /\ t.answer = "ok" => t.saw # None

Typed == TypeOK /\ \A c \in Threads : Ready(thread[c])

\* Setting a field of the page to a value of its type leaves a page.
LEMMA PageFields ==
  \A p \in Pages :
    /\ \A b \in Bookings : [p EXCEPT !.shown = b] \in Pages
    /\ \A s \in States : [p EXCEPT !.state = s] \in Pages
    /\ \A r \in Requests \cup {None} : [p EXCEPT !.request = r] \in Pages
    /\ \A b \in Bookings \cup {None} : [p EXCEPT !.last = b] \in Pages
    /\ \A v \in BOOLEAN :
         /\ [p EXCEPT !.unknown = v] \in Pages /\ [p EXCEPT !.armed = v] \in Pages
         /\ [p EXCEPT !.picker = v] \in Pages /\ [p EXCEPT !.slots = v] \in Pages
         /\ [p EXCEPT !.loading = v] \in Pages /\ [p EXCEPT !.latch = v] \in Pages
  BY DEF Pages, States

\* The same of a handler.
LEMMA HandlerFields ==
  \A h \in Handlers :
    /\ \A s \in Stages : [h EXCEPT !.at = s] \in Handlers
    /\ \A r \in Requests \cup {None} : [h EXCEPT !.req = r] \in Handlers
    /\ \A o \in Changes \cup {None} : [h EXCEPT !.op = o] \in Handlers
    /\ \A v \in BOOLEAN : [h EXCEPT !.auto = v] \in Handlers
    /\ \A a \in Answers : [h EXCEPT !.answer = a] \in Handlers
    /\ \A b \in Bookings \cup {None} : [h EXCEPT !.saw = b] \in Handlers
  BY DEF Handlers, Stages, Answers

LEMMA PageParts ==
  \A p \in Pages :
    p.shown \in Bookings /\ p.request \in Requests \cup {None} /\ p.last \in Bookings \cup {None}
  BY DEF Pages

LEMMA ShowLatestTyped ==
  ASSUME NEW p \in Pages, NEW b \in Bookings \cup {None}
  PROVE  ShowLatest(p, b) \in Pages
<1> DEFINE shown == IF b = None THEN p.shown ELSE b
<1>1. shown \in Bookings
  BY PageParts
<1> HIDE DEF shown
<1>2. [p EXCEPT !.shown = shown, !.state = "conflict", !.request = None, !.armed = FALSE] \in Pages
  BY <1>1, PageFields DEF States
<1>3. QED
  BY <1>2 DEF ShowLatest, shown

LEMMA HandlerParts ==
  \A h \in Handlers :
    h.req \in Requests \cup {None} /\ h.op \in Changes \cup {None} /\ h.saw \in Bookings \cup {None}
  BY DEF Handlers

LEMMA IdleTyped == Idle \in Handlers /\ Ready(Idle)
  BY DEF Idle, Handlers, Ready

LEMMA BecomeTyped ==
  ASSUME Typed, NEW c \in Threads, NEW t \in Handlers, Ready(t), Become(c, t)
  PROVE  thread' \in [Threads -> Handlers] /\ \A d \in Threads : Ready(thread'[d])
  BY DEF Typed, TypeOK, Become

LEMMA SendTyped ==
  ASSUME Typed, NEW c \in Threads, NEW p \in Pages, NEW r \in Requests, NEW a \in BOOLEAN,
         Send(c, p, r, a)
  PROVE  /\ page' \in Pages
         /\ thread' \in [Threads -> Handlers] /\ \A d \in Threads : Ready(thread'[d])
<1>1. page' \in Pages
  BY PageFields DEF Send, States
<1>2. CASE Become(c, Idle)
  BY <1>1, <1>2, IdleTyped, BecomeTyped
<1>3. CASE Become(c, [Idle EXCEPT !.at = "request", !.req = r, !.auto = a])
  <2> DEFINE t == [Idle EXCEPT !.at = "request", !.req = r, !.auto = a]
  <2>1. t \in Handlers
    BY IdleTyped, HandlerFields DEF Stages
  <2>2. Ready(t)
    BY NoneIsNoRecord DEF Ready, Idle
  <2>3. QED
    BY <1>1, <1>3, <2>1, <2>2, BecomeTyped
<1>4. QED
  BY <1>2, <1>3 DEF Send

LEMMA RequestParts ==
  /\ \A r \in Requests : /\ r.kind \in Actions \cup {"notify"} /\ r.click \in 0 .. Clicks
                         /\ r.kind \in Actions => r \in Changes
  /\ \A r \in Changes : /\ r \in Requests /\ r.kind \in Actions /\ r.click \in 0 .. Clicks
                        /\ r.on \in Bookings /\ r # None
  BY NoneIsNoRecord DEF Requests, Changes, Actions

LEMMA AnswerTyped ==
  ASSUME Typed, NEW c \in Threads, thread[c].at \in {"request", "serving"},
         NEW a \in Answers, NEW b \in Bookings \cup {None}, a = "ok" => b # None, Answer(c, a, b)
  PROVE  thread' \in [Threads -> Handlers] /\ \A d \in Threads : Ready(thread'[d])
<1> DEFINE t == [thread[c] EXCEPT !.at = "answered", !.op = None, !.answer = a, !.saw = b]
<1>1. thread[c] \in Handlers /\ thread[c].req # None
  BY DEF Typed, TypeOK, Ready
<1>2. t \in Handlers
  BY <1>1, HandlerFields DEF Stages
<1>3. t.at = "answered" /\ t.answer = a /\ t.saw = b /\ t.req = thread[c].req
  BY <1>1 DEF Handlers
<1>4. Ready(t)
  BY <1>1, <1>3 DEF Ready
<1>5. QED
  BY <1>2, <1>4, BecomeTyped DEF Answer

LEMMA ServingTyped ==
  ASSUME Typed, NEW c \in Threads, At(c, "request"), NEW o \in Changes \cup {None}, Serving(c, o)
  PROVE  thread' \in [Threads -> Handlers] /\ \A d \in Threads : Ready(thread'[d])
<1> DEFINE t == [thread[c] EXCEPT !.at = "serving", !.op = o]
<1>1. thread[c] \in Handlers /\ thread[c].req # None
  BY DEF Typed, TypeOK, Ready, At
<1>2. t \in Handlers
  BY <1>1, HandlerFields DEF Stages
<1>3. t.at = "serving" /\ t.req = thread[c].req
  BY <1>1 DEF Handlers
<1>4. Ready(t)
  BY <1>1, <1>3 DEF Ready
<1>5. QED
  BY <1>2, <1>4, BecomeTyped DEF Serving

LEMMA EffectTyped ==
  ASSUME TypeOK, NEW o \in Changes, Effect(o)
  PROVE  booking' \in Bookings /\ made' \subseteq Made
<1>1. o.kind \in Actions /\ o.click \in 0 .. Clicks /\ booking.rev + 1 \in Nat
  BY RequestParts DEF TypeOK, Bookings
<1>2. [click |-> o.click, rev |-> booking.rev + 1, action |-> o.kind] \in Made
  BY <1>1 DEF Made
<1>3. QED
  BY <1>1, <1>2 DEF TypeOK, Effect, Bookings

LEMMA ServeTyped ==
  ASSUME Typed, NEW c \in Threads, Serve(c)
  PROVE  Typed'
<1> DEFINE req == thread[c].req
<1>1. /\ req \in Requests /\ booking \in Bookings /\ booking # None /\ At(c, "request")
      /\ open \in Changes \cup {None} /\ UNCHANGED <<booking, others, made, page, clicks, crossed>>
  BY NoneIsNoRecord, HandlerParts DEF Serve, Typed, TypeOK, Ready, At
<1>2. ASSUME NEW a \in Answers, NEW b \in {None, booking}, a = "ok" => b # None, Answer(c, a, b)
      PROVE  thread' \in [Threads -> Handlers] /\ \A d \in Threads : Ready(thread'[d])
  BY <1>1, <1>2, AnswerTyped DEF At
<1>3. ASSUME NEW o \in Changes \cup {None}, Serving(c, o)
      PROVE  thread' \in [Threads -> Handlers] /\ \A d \in Threads : Ready(thread'[d])
  BY <1>1, <1>3, ServingTyped
<1>4. CASE Begins(c, req)
  <2>1. open' \in Changes /\ Serving(c, open')
    BY <1>1, <1>4, RequestParts DEF Begins, Fits
  <2>2. QED
    BY <1>1, <1>3, <2>1 DEF Typed, TypeOK
<1>5. CASE (Refused(c, req) \/ Notified(c, req) \/ Elsewhere(c, req)) /\ UNCHANGED open
  <2>1. thread' \in [Threads -> Handlers] /\ \A d \in Threads : Ready(thread'[d])
    BY <1>1, <1>2, <1>3, <1>5 DEF Refused, Notified, Elsewhere, Answers
  <2>2. QED
    BY <1>1, <1>5, <2>1 DEF Typed, TypeOK
<1>6. QED
  BY <1>4, <1>5 DEF Serve

LEMMA WorkTyped ==
  ASSUME Typed, NEW c \in Threads, Work(c)
  PROVE  Typed'
<1>1. /\ booking \in Bookings /\ booking # None /\ thread[c].at = "serving"
      /\ open \in Changes \cup {None} /\ UNCHANGED <<others, page, clicks, crossed>>
  BY NoneIsNoRecord DEF Work, Typed, TypeOK, At
<1>2. booking' \in Bookings /\ booking' # None /\ made' \subseteq Made /\ open' \in Changes \cup {None}
  <2>1. CASE Owned(c) /\ Succeeds(c)
    BY <1>1, <2>1, EffectTyped, NoneIsNoRecord DEF Owned, Succeeds, Typed, TypeOK
  <2>2. CASE UNCHANGED <<booking, made>> /\ open' \in {open, None}
    BY <1>1, <2>2 DEF Typed, TypeOK
  <2>3. QED
    BY <2>1, <2>2 DEF Work, Fails, Superseded, GivesUp
<1>3. PICK a \in Answers, b \in {None, booking, booking'} : (a = "ok" => b # None) /\ Answer(c, a, b)
  BY <1>1, <1>2 DEF Work, Succeeds, Fails, Superseded, GivesUp, Answers
<1>4. thread' \in [Threads -> Handlers] /\ \A d \in Threads : Ready(thread'[d])
  BY <1>1, <1>2, <1>3, AnswerTyped
<1>5. QED
  BY <1>1, <1>2, <1>4 DEF Typed, TypeOK

LEMMA ReadTyped ==
  ASSUME Typed, NEW c \in Threads, ReadBooking(c)
  PROVE  Typed'
<1> DEFINE t == [thread[c] EXCEPT !.saw = booking]
<1>1. thread[c] \in Handlers /\ booking \in Bookings /\ thread[c].at \in {"refresh", "reload"}
  BY DEF Typed, TypeOK, ReadBooking
<1>2. t \in Handlers /\ t.at = thread[c].at
  <2>1. t \in Handlers
    BY <1>1, HandlerFields
  <2>2. t.at = thread[c].at
    BY <1>1 DEF Handlers
  <2>3. QED
    BY <2>1, <2>2
<1>3. Ready(t)
  BY <1>1, <1>2 DEF Ready
<1>4. thread' \in [Threads -> Handlers] /\ \A d \in Threads : Ready(thread'[d])
  BY <1>2, <1>3, BecomeTyped DEF ReadBooking
<1>5. QED
  BY <1>4 DEF ReadBooking, Typed, TypeOK, server

\* A step that changes the page and one handler, and nothing else the type reads.
LEMMA HandlerStepTyped ==
  ASSUME Typed, NEW c \in Threads, NEW t \in Handlers, Ready(t), Become(c, t),
         page' \in Pages, UNCHANGED server, clicks' \in 0 .. Clicks, crossed' \in BOOLEAN
  PROVE  Typed'
<1>1. thread' \in [Threads -> Handlers] /\ \A d \in Threads : Ready(thread'[d])
  BY BecomeTyped
<1>2. QED
  BY <1>1 DEF Typed, TypeOK, server

LEMMA StageTyped ==
  ASSUME NEW s \in {"times", "refresh", "reload"}
  PROVE  [Idle EXCEPT !.at = s] \in Handlers /\ Ready([Idle EXCEPT !.at = s])
<1>1. [Idle EXCEPT !.at = s] \in Handlers
  BY IdleTyped, HandlerFields DEF Stages
<1>2. Ready([Idle EXCEPT !.at = s])
  BY DEF Idle, Ready
<1>3. QED
  BY <1>1, <1>2

LEMMA ResumeTyped ==
  ASSUME Typed, NEW c \in Threads, Resume(c)
  PROVE  Typed'
<1>1. /\ page \in Pages /\ thread[c] \in Handlers
      /\ thread[c].req \in Requests /\ thread[c].saw \in Bookings \cup {None}
      /\ thread[c].answer = "ok" => thread[c].saw \in Bookings
  BY HandlerParts DEF Typed, TypeOK, Ready, Resume, At
<1>2. /\ UNCHANGED server /\ clicks' \in 0 .. Clicks /\ crossed' \in BOOLEAN
      /\ Released \in Pages
  BY <1>1, PageFields DEF Resume, Typed, TypeOK, Released
<1>3. CASE Succeeded(c)
  <2>1. thread[c].saw \in Bookings /\ PairOf(c) \in Bookings
    BY <1>1, <1>3 DEF Succeeded, Bookings, PairOf, Actions
  <2>2. Done(c) \in Pages
    BY <1>1, <1>2, <2>1, PageFields, PageParts DEF States, Done
  <2>3. QED
    BY <1>2, <1>3, <2>2, IdleTyped, HandlerStepTyped DEF Succeeded
<1>4. CASE Errored(c)
  <2>1. page' \in Pages
    BY <1>1, <1>2, <1>4, PageFields DEF Errored, States
  <2>2. QED
    BY <1>2, <1>4, <2>1, IdleTyped, HandlerStepTyped DEF Errored
<1>5. CASE InProgress(c)
  <2>1. page' \in Pages
    <3>1. thread[c].auto \in BOOLEAN
      BY <1>1 DEF Handlers
    <3>2. \/ page' = Released
          \/ page' = [Released EXCEPT !.state = "stalled", !.request = thread[c].req]
      BY <1>5, <3>1 DEF InProgress
    <3>3. [Released EXCEPT !.state = "stalled", !.request = thread[c].req] \in Pages
      BY <1>1, <1>2, PageFields DEF States
    <3>4. QED
      BY <1>2, <3>2, <3>3
  <2> DEFINE t == [thread[c] EXCEPT !.at = "wait"]
  <2>2. t \in Handlers /\ t.at = "wait" /\ t.req = thread[c].req
    <3>1. t \in Handlers
      BY <1>1, HandlerFields DEF Stages
    <3>2. t.at = "wait" /\ t.req = thread[c].req
      BY <1>1 DEF Handlers
    <3>3. QED
      BY <3>1, <3>2
  <2>3. Ready(t)
    BY <1>1, <2>2, NoneIsNoRecord DEF Ready
  <2>4. QED
    BY <1>2, <1>5, <2>1, <2>2, <2>3, IdleTyped, HandlerStepTyped DEF InProgress
<1>6. CASE SlotGone(c)
  <2>1. page' \in Pages
    BY <1>2, <1>6, PageFields DEF SlotGone, States
  <2>2. QED
    BY <1>2, <1>6, <2>1, IdleTyped, StageTyped, HandlerStepTyped DEF SlotGone
<1>7. CASE ChangedElsewhere(c)
  <2>1. page' \in Pages
    BY <1>1, <1>2, <1>7, ShowLatestTyped DEF ChangedElsewhere
  <2>2. QED
    BY <1>2, <1>7, <2>1, IdleTyped, StageTyped, HandlerStepTyped DEF ChangedElsewhere
<1>8. CASE OutcomeUnknown(c)
  <2>1. page' \in Pages
    BY <1>2, <1>8, PageFields DEF OutcomeUnknown, States
  <2>2. QED
    BY <1>2, <1>8, <2>1, IdleTyped, HandlerStepTyped DEF OutcomeUnknown
<1>9. QED
  BY <1>3, <1>4, <1>5, <1>6, <1>7, <1>8 DEF Resume

\* A step that sends, or does not because the latch is held.
LEMMA SendStepTyped ==
  ASSUME Typed, NEW c \in Threads, NEW p \in Pages, NEW r \in Requests, NEW a \in BOOLEAN,
         Send(c, p, r, a), UNCHANGED server, clicks' \in 0 .. Clicks, crossed' = crossed
  PROVE  Typed'
  BY SendTyped DEF Typed, TypeOK, server

LEMMA ClickedTyped ==
  ASSUME Typed, NEW c \in Threads, Clicked(c)
  PROVE  Typed'
<1>1. /\ page \in Pages /\ page.shown \in Bookings /\ page.last \in Bookings \cup {None}
      /\ page.request \in Requests \cup {None} /\ UNCHANGED server /\ c \in 0 .. Clicks
  BY PageParts DEF Typed, TypeOK, Clicked, Bookings, Threads
<1>2. ASSUME NEW p \in Pages, NEW r \in Requests, Send(c, p, r, FALSE), Click(c), crossed' = crossed
      PROVE  Typed'
  BY <1>1, <1>2, SendStepTyped DEF Click
<1>3. /\ \A k \in Actions : [kind |-> k, on |-> page.shown, click |-> c] \in Requests
      /\ [kind |-> "notify", on |-> page.last, click |-> c] \in Requests
  BY <1>1 DEF Requests, Changes
<1>4. CASE (SelectSlot(c) \/ ConfirmCancel(c)) /\ UNCHANGED crossed
  BY <1>1, <1>2, <1>3, <1>4 DEF SelectSlot, ConfirmCancel, Confirm, Actions
<1>5. CASE Resend(c) /\ UNCHANGED crossed
  BY <1>1, <1>2, <1>3, <1>5 DEF Resend
<1>6. CASE TryAgain(c) /\ UNCHANGED crossed
  <2>1. [page EXCEPT !.state = "idle", !.request = None] \in Pages
    BY <1>1, PageFields DEF States
  <2>2. QED
    BY <1>1, <1>2, <1>6, <2>1 DEF TryAgain
<1>7. CASE OpenPicker(c) /\ UNCHANGED crossed
  <2>1. [page EXCEPT !.picker = TRUE, !.loading = TRUE] \in Pages
    BY <1>1, PageFields
  <2>2. QED
    BY <1>1, <1>7, <2>1, StageTyped, HandlerStepTyped DEF OpenPicker, Click, Typed, TypeOK
<1>8. CASE Reload(c) /\ Crosses
  <2>1. [page EXCEPT !.state = "pending"] \in Pages /\ crossed' \in BOOLEAN
    BY <1>1, <1>8, PageFields DEF States, Crosses, Typed, TypeOK
  <2>2. QED
    BY <1>1, <1>8, <2>1, StageTyped, HandlerStepTyped DEF Reload, Click
<1>9. QED
  BY <1>4, <1>5, <1>6, <1>7, <1>8 DEF Clicked

LEMMA SettledTyped ==
  ASSUME Typed, NEW c \in Threads, WaitOver(c) \/ Refreshed(c) \/ Reloaded(c) \/ TimesLoaded(c)
  PROVE  Typed'
<1>1. /\ page \in Pages /\ page.shown \in Bookings /\ thread[c].saw \in Bookings \cup {None}
      /\ UNCHANGED server /\ clicks' \in 0 .. Clicks /\ crossed \in BOOLEAN
  BY PageParts, HandlerParts DEF Typed, TypeOK, WaitOver, Refreshed, Reloaded, TimesLoaded
<1>2. CASE WaitOver(c)
  <2>1. thread[c].req \in Requests
    BY <1>2, HandlerParts DEF Typed, TypeOK, Ready, WaitOver, At
  <2>2. QED
    BY <1>1, <1>2, <2>1, SendStepTyped DEF WaitOver
<1>3. CASE Refreshed(c)
  <2>1. page' \in Pages
    <3>1. [page EXCEPT !.state = "error", !.unknown = TRUE, !.request = None, !.armed = FALSE] \in Pages
      BY <1>1, PageFields DEF States
    <3>2. QED
      BY <1>1, <1>3, <3>1, ShowLatestTyped DEF Refreshed, RefreshShown
  <2>2. QED
    BY <1>1, <1>3, <2>1, IdleTyped, HandlerStepTyped DEF Refreshed
<1>4. CASE Reloaded(c)
  <2>1. /\ [page EXCEPT !.shown = thread[c].saw, !.state = "idle", !.request = None,
                       !.unknown = FALSE, !.armed = FALSE, !.picker = FALSE, !.last = None] \in Pages
        /\ [page EXCEPT !.state = "error"] \in Pages
    BY <1>1, <1>4, PageFields DEF Reloaded, States
  <2>2. QED
    BY <1>1, <1>4, <2>1, IdleTyped, HandlerStepTyped DEF Reloaded
<1>5. CASE TimesLoaded(c)
  <2>1. crossed' \in BOOLEAN
    BY <1>1, <1>5 DEF TimesLoaded, Crosses
  <2>2. /\ \A some \in BOOLEAN : [page EXCEPT !.slots = some, !.loading = FALSE] \in Pages
        /\ [page EXCEPT !.slots = FALSE, !.loading = FALSE, !.state = "error"] \in Pages
    BY <1>1, PageFields DEF States
  <2>3. page' \in Pages
    BY <1>5, <2>2 DEF TimesLoaded
  <2>4. QED
    BY <1>1, <1>5, <2>1, <2>3, IdleTyped, HandlerStepTyped DEF TimesLoaded
<1>6. QED
  BY <1>2, <1>3, <1>4, <1>5

\* Every step keeps the types.
LEMMA TypedInductive == Typed /\ [Next]_vars => Typed'
<1> SUFFICES ASSUME Typed, [Next]_vars PROVE Typed'
  OBVIOUS
<1>1. CASE UNCHANGED vars
  BY <1>1 DEF vars, server, Typed, TypeOK, Ready
<1>2. ASSUME NEW c \in Threads, Clicked(c) \/ Goes(c)
      PROVE  Typed'
  BY <1>2, ClickedTyped, ServeTyped, WorkTyped, ReadTyped, ResumeTyped, SettledTyped DEF Goes
<1>3. CASE Toggle
  <2>1. page' \in Pages
    BY <1>3, PageFields DEF Typed, TypeOK, Toggle, ClosePicker, ArmCancel, DisarmCancel
  <2>2. QED
    BY <1>3, <2>1 DEF Toggle, Typed, TypeOK, server
<1>4. CASE OthersBegin
  <2>1. open' \in Changes
    BY <1>4 DEF OthersBegin, Typed, TypeOK, Changes
  <2>2. QED
    BY <1>4, <2>1 DEF OthersBegin, Typed, TypeOK
<1>5. CASE OpenEnds
  <2>1. open \in Changes
    BY <1>5 DEF OpenEnds, Typed, TypeOK
  <2>2. booking' \in Bookings /\ made' \subseteq Made
    BY <1>5, <2>1, EffectTyped DEF OpenEnds, Typed, TypeOK
  <2>3. QED
    BY <1>5, <2>2 DEF OpenEnds, Typed, TypeOK
<1>6. QED
  BY <1>1, <1>2, <1>3, <1>4, <1>5 DEF Next

LEMMA TypedInit == Init => Typed
<1> SUFFICES ASSUME Init PROVE Typed
  OBVIOUS
<1>1. FreshPage \in Pages /\ booking \in Bookings
  BY DEF Init, FreshPage, Pages, Bookings
<1>2. thread \in [Threads -> Handlers] /\ \A c \in Threads : Ready(thread[c])
  BY IdleTyped DEF Init
<1>3. /\ open = None /\ others \in 0 .. Others /\ clicks \in 0 .. Clicks
      /\ made = {} /\ crossed = FALSE /\ page = FreshPage
  BY DEF Init
<1>4. QED
  BY <1>1, <1>2, <1>3 DEF Typed, TypeOK

\* The store's fields, every handler and the server keep their types: a handler that may
\* send always holds a request, and one answered "ok" always holds a booking.
THEOREM ControlsTyping == Spec => []TypeOK
<1>1. Spec => []Typed
  BY TypedInit, TypedInductive, PTL DEF Spec
<1>2. Typed => TypeOK
  BY DEF Typed
<1>3. QED
  BY <1>1, <1>2, PTL
-----------------------------------------------------------------------------
\* What each step does to the fields the invariants read.

LEMMA OneHandler ==
  ASSUME Typed, NEW c \in Threads, NEW t, Become(c, t)
  PROVE  thread'[c] = t /\ \A d \in Threads \ {c} : thread'[d] = thread[d]
  BY DEF Typed, TypeOK, Become

\* Sending takes the latch; with the latch held the handler ends (booking-controls-store.ts:257).
LEMMA SendEffect ==
  ASSUME Typed, NEW c \in Threads, NEW p \in Pages, NEW r, NEW a, Send(c, p, r, a)
  PROVE  /\ page'.request = p.request /\ page'.last = p.last /\ page'.shown = p.shown
         /\ \A d \in Threads \ {c} : thread'[d] = thread[d]
         /\ thread'[c].op = None /\ thread'[c].saw = None /\ thread'[c].answer = "none"
         /\ \/ /\ p.latch = TRUE /\ page' = p
               /\ thread'[c].at = "none" /\ thread'[c].req = None
            \/ /\ p.latch = FALSE /\ page'.latch = TRUE /\ page'.state = "pending"
               /\ thread'[c].at = "request" /\ thread'[c].req = r
<1>1. p.latch \in BOOLEAN
  BY DEF Pages
<1>2. CASE p.latch /\ page' = p /\ Become(c, Idle)
  BY <1>1, <1>2, OneHandler DEF Idle
<1>3. CASE ~p.latch /\ ~(p.latch /\ page' = p /\ Become(c, Idle))
  <2> DEFINE t == [Idle EXCEPT !.at = "request", !.req = r, !.auto = a]
  <2>1. t.at = "request" /\ t.req = r /\ t.op = None /\ t.saw = None /\ t.answer = "none"
    BY DEF Idle
  <2>2. page' = [p EXCEPT !.latch = TRUE, !.state = "pending", !.unknown = FALSE] /\ Become(c, t)
    BY <1>3 DEF Send
  <2>3. thread'[c] = t /\ \A d \in Threads \ {c} : thread'[d] = thread[d]
    BY <2>2, OneHandler
  <2>4. /\ page'.request = p.request /\ page'.last = p.last /\ page'.shown = p.shown
        /\ page'.latch = TRUE /\ page'.state = "pending"
    BY <2>2 DEF Pages
  <2>5. QED
    BY <1>1, <1>3, <2>1, <2>3, <2>4
<1>4. QED
  BY <1>2, <1>3 DEF Send

\* An answer keeps the handler's request.
LEMMA AnswerEffect ==
  ASSUME Typed, NEW c \in Threads, NEW a, NEW b, Answer(c, a, b)
  PROVE  /\ thread'[c].at = "answered" /\ thread'[c].req = thread[c].req /\ thread'[c].op = None
         /\ thread'[c].answer = a /\ thread'[c].saw = b
         /\ \A d \in Threads \ {c} : thread'[d] = thread[d]
<1> DEFINE t == [thread[c] EXCEPT !.at = "answered", !.op = None, !.answer = a, !.saw = b]
<1>1. /\ t.at = "answered" /\ t.req = thread[c].req /\ t.op = None
      /\ t.answer = a /\ t.saw = b
  BY DEF Typed, TypeOK, Handlers
<1>2. thread'[c] = t /\ \A d \in Threads \ {c} : thread'[d] = thread[d]
  BY OneHandler DEF Answer
<1>3. QED
  BY <1>1, <1>2

LEMMA ServingEffect ==
  ASSUME Typed, NEW c \in Threads, NEW o, Serving(c, o)
  PROVE  /\ thread'[c].at = "serving" /\ thread'[c].req = thread[c].req /\ thread'[c].op = o
         /\ thread'[c].saw = thread[c].saw
         /\ \A d \in Threads \ {c} : thread'[d] = thread[d]
<1> DEFINE t == [thread[c] EXCEPT !.at = "serving", !.op = o]
<1>1. t.at = "serving" /\ t.req = thread[c].req /\ t.op = o /\ t.saw = thread[c].saw
  BY DEF Typed, TypeOK, Handlers
<1>2. thread'[c] = t /\ \A d \in Threads \ {c} : thread'[d] = thread[d]
  BY OneHandler DEF Serving
<1>3. QED
  BY <1>1, <1>2

\* Serve refuses, or makes the handler's worker the owner of an operation that fits.
LEMMA ServeEffect ==
  ASSUME Typed, NEW c \in Threads, Serve(c)
  PROVE  LET req == thread[c].req IN
         /\ req \in Requests /\ UNCHANGED <<booking, others, made, page, clicks, crossed>>
         /\ thread[c].at = "request" /\ thread'[c].req = req
         /\ \A d \in Threads \ {c} : thread'[d] = thread[d]
         /\ \/ /\ thread'[c].at = "answered" /\ thread'[c].op = None /\ open' = open
               /\ thread'[c].saw \in {None, booking}
               /\ thread'[c].answer = "ok" => req.kind = "cancel" /\ booking.action = "cancel"
            \/ /\ thread'[c].at = "serving" /\ thread'[c].saw = thread[c].saw
               /\ \/ thread'[c].op = None /\ open' = open /\ req.kind = "notify"
                  \/ /\ Fits(req) /\ open' # None /\ thread'[c].op = open' /\ open'.kind = req.kind
                     /\ open' = open \/ open' = req
<1> DEFINE req == thread[c].req
<1>1. /\ req \in Requests /\ req # None /\ thread[c].at = "request"
      /\ UNCHANGED <<booking, others, made, page, clicks, crossed>>
  BY HandlerParts DEF Serve, Typed, TypeOK, Ready, At
<1>2. CASE Begins(c, req)
  <2>1. /\ Fits(req) /\ open' # None /\ open'.kind = req.kind /\ Serving(c, open')
        /\ open' = open \/ open' = req
    BY <1>1, <1>2 DEF Begins
  <2>2. QED
    BY <1>1, <2>1, ServingEffect
<1>3. CASE Refused(c, req) /\ UNCHANGED open
  BY <1>1, <1>3, AnswerEffect DEF Refused
<1>4. CASE Notified(c, req) /\ UNCHANGED open
  BY <1>1, <1>4, AnswerEffect, ServingEffect DEF Notified
<1>5. CASE Elsewhere(c, req) /\ UNCHANGED open
  BY <1>1, <1>5, AnswerEffect DEF Elsewhere, Cancelled
<1>6. QED
  BY <1>2, <1>3, <1>4, <1>5 DEF Serve

\* Work makes the change its operation stands for, or changes nothing in the row.
LEMMA WorkEffect ==
  ASSUME Typed, NEW c \in Threads, Work(c)
  PROVE  LET h == thread[c] IN
         /\ UNCHANGED <<others, page, clicks, crossed>>
         /\ h.at = "serving" /\ thread'[c].at = "answered"
         /\ thread'[c].req = h.req /\ thread'[c].op = None /\ thread'[c].saw \in {None, booking'}
         /\ \A d \in Threads \ {c} : thread'[d] = thread[d]
         /\ \/ /\ UNCHANGED <<booking, made>> /\ open' \in {open, None}
               /\ thread'[c].answer = "ok" => h.op = None \/ booking.action = h.req.kind
            \/ open # None /\ open = h.op /\ Effect(open) /\ open' = None
<1>1. UNCHANGED <<others, page, clicks, crossed>> /\ thread[c].at = "serving"
  BY DEF Work, At
<1>3. CASE Owned(c) /\ Succeeds(c)
  <2>1. PICK a2 \in Answers, b2 \in {None, booking'} : Answer(c, a2, b2)
    BY <1>3 DEF Succeeds, Answers
  <2>2. QED
    BY <1>1, <1>3, <2>1, AnswerEffect DEF Owned, Succeeds
<1>4. CASE Fails(c)
  BY <1>1, <1>4, AnswerEffect DEF Fails
<1>5. CASE Superseded(c)
  BY <1>1, <1>5, AnswerEffect DEF Superseded
<1>6. CASE GivesUp(c)
  BY <1>1, <1>6, AnswerEffect DEF GivesUp
<1>7. CASE /\ thread[c].op = None /\ UNCHANGED <<booking, open, made>>
           /\ Answer(c, "ok", booking) \/ Answer(c, "error", None)
  BY <1>1, <1>7, AnswerEffect
<1>8. QED
  BY <1>3, <1>4, <1>5, <1>6, <1>7 DEF Work

\* Resume releases the latch; the handler waits or refreshes under an unchanged page, or
\* is over (but for the times it may load) and the page is no longer pending.
LEMMA ResumeEffect ==
  ASSUME Typed, NEW c \in Threads, Resume(c)
  PROVE  LET h == thread[c] IN
         /\ UNCHANGED server /\ clicks' = clicks /\ crossed' = crossed
         /\ h.at = "answered" /\ \A d \in Threads \ {c} : thread'[d] = thread[d]
         /\ page'.latch = FALSE
         /\ page'.request \in {None, page.request, h.req} /\ thread'[c].req \in {None, h.req}
         /\ thread'[c].op \in {None, h.op}
         /\ \/ page'.last = page.last
            \/ h.answer = "ok" /\ h.req.kind # "notify" /\ page'.last = PairOf(c)
         /\ \/ /\ page'.shown = page.shown /\ page'.state = page.state
               /\ \/ thread'[c].at = "wait" /\ thread'[c].saw = h.saw /\ thread'[c].req = h.req
                  \/ thread'[c].at = "refresh" /\ thread'[c].saw = None
            \/ /\ page'.state # "pending" /\ thread'[c].at \in {"none", "times"}
               /\ thread'[c].saw = None
               /\ page'.shown = page.shown \/ (h.saw # None /\ page'.shown = h.saw)
<1>1. /\ page \in Pages /\ Released \in Pages /\ thread[c] \in Handlers /\ thread[c].at = "answered"
      /\ thread[c].auto \in BOOLEAN
      /\ thread[c].answer = "ok" => thread[c].saw # None
      /\ UNCHANGED server /\ clicks' = clicks /\ crossed' = crossed
  BY PageFields DEF Typed, TypeOK, Ready, Resume, At, Released, Handlers
<1>2. /\ Released.latch = FALSE /\ Released.request = page.request /\ Released.last = page.last
      /\ Released.shown = page.shown /\ Released.state = page.state
  BY <1>1 DEF Released, Pages
<1>3. /\ Idle.at = "none" /\ Idle.req = None /\ Idle.op = None /\ Idle.saw = None
      /\ \A s \in {"times", "refresh"} : LET t == [Idle EXCEPT !.at = s] IN
           t.at = s /\ t.req = None /\ t.op = None /\ t.saw = None
      /\ LET t == [thread[c] EXCEPT !.at = "wait"] IN
           t.at = "wait" /\ t.req = thread[c].req /\ t.op = thread[c].op /\ t.saw = thread[c].saw
  BY <1>1 DEF Idle, Handlers
<1>4. CASE Succeeded(c)
  <2>1. /\ page'.shown = thread[c].saw /\ page'.state = "done" /\ page'.request = None
        /\ page'.latch = FALSE
        /\ page'.last = IF thread[c].req.kind = "notify" THEN page.last ELSE PairOf(c)
    <3>1. page' = Done(c) /\ Released \in Pages /\ Released.latch = FALSE
      BY <1>1, <1>2, <1>4 DEF Succeeded
    <3>2. page'.shown = thread[c].saw /\ page'.state = "done" /\ page'.request = None
      BY <3>1 DEF Done, Pages
    <3>3. page'.latch = FALSE
      BY <3>1 DEF Done, Pages
    <3>4. page'.last = IF thread[c].req.kind = "notify" THEN page.last ELSE PairOf(c)
      BY <3>1 DEF Done, Pages
    <3>5. QED
      BY <3>2, <3>3, <3>4
  <2>2. thread'[c] = Idle /\ \A d \in Threads \ {c} : thread'[d] = thread[d]
    BY <1>4, OneHandler DEF Succeeded
  <2>3. thread[c].answer = "ok" /\ thread[c].saw # None
    BY <1>1, <1>4 DEF Succeeded
  <2>4. \/ page'.last = page.last
        \/ thread[c].req.kind # "notify" /\ page'.last = PairOf(c)
    BY <2>1
  <2>5. QED
    BY <1>1, <1>3, <2>1, <2>2, <2>3, <2>4
<1>5. CASE Errored(c)
  <2>1. /\ page'.shown = page.shown /\ page'.state = "error" /\ page'.latch = FALSE
        /\ page'.last = page.last /\ page'.request = thread[c].req
    BY <1>1, <1>2, <1>5 DEF Errored, Pages
  <2>2. QED
    BY <1>1, <1>3, <1>5, <2>1, OneHandler DEF Errored
<1>6. CASE InProgress(c)
  <2>1. CASE thread[c].auto
    <3>1. /\ page'.shown = page.shown /\ page'.state = "stalled" /\ page'.latch = FALSE
          /\ page'.last = page.last /\ page'.request = thread[c].req
      <4>1. page' = [Released EXCEPT !.state = "stalled", !.request = thread[c].req]
        BY <1>1, <1>6, <2>1 DEF InProgress
      <4>2. QED
        BY ONLY <1>1, <1>2, <4>1 DEF Pages
    <3>2. QED
      BY <1>1, <1>3, <1>6, <2>1, <3>1, OneHandler DEF InProgress
  <2>2. CASE ~thread[c].auto
    <3>1. page' = Released /\ Become(c, [thread[c] EXCEPT !.at = "wait"])
      BY <1>6, <2>2 DEF InProgress
    <3>2. /\ thread'[c] = [thread[c] EXCEPT !.at = "wait"]
          /\ \A d \in Threads \ {c} : thread'[d] = thread[d]
      BY <3>1, OneHandler
    <3>3. QED
      BY <1>1, <1>2, <1>3, <3>1, <3>2
  <2>3. QED
    BY <2>1, <2>2
<1>7. CASE SlotGone(c)
  <2>1. /\ page'.shown = page.shown /\ page'.state = "conflict" /\ page'.latch = FALSE
        /\ page'.last = page.last /\ page'.request = None
    BY <1>1, <1>2, <1>7 DEF SlotGone, Pages
  <2>2. PICK t \in {Idle, [Idle EXCEPT !.at = "times"]} : Become(c, t)
    BY <1>7 DEF SlotGone
  <2>3. thread'[c] = t /\ \A d \in Threads \ {c} : thread'[d] = thread[d]
    BY <2>2, OneHandler
  <2>4. QED
    BY <1>1, <1>3, <2>1, <2>2, <2>3
<1>8. CASE ChangedElsewhere(c)
  <2>1. CASE thread[c].answer = "changed"
    <3>1. /\ page'.shown = page.shown \/ (thread[c].saw # None /\ page'.shown = thread[c].saw)
          /\ page'.state = "conflict" /\ page'.latch = FALSE
          /\ page'.last = page.last /\ page'.request = None
      BY <1>1, <1>2, <1>8, <2>1 DEF ChangedElsewhere, ShowLatest, Pages
    <3>2. QED
      BY <1>1, <1>3, <1>8, <2>1, <3>1, OneHandler DEF ChangedElsewhere
  <2>2. CASE thread[c].answer = "stale"
    <3>1. page' = Released /\ Become(c, [Idle EXCEPT !.at = "refresh"])
      BY <1>8, <2>2 DEF ChangedElsewhere
    <3>2. /\ thread'[c] = [Idle EXCEPT !.at = "refresh"]
          /\ \A d \in Threads \ {c} : thread'[d] = thread[d]
      BY <3>1, OneHandler
    <3>3. QED
      BY <1>1, <1>2, <1>3, <3>1, <3>2
  <2>3. QED
    BY <1>8, <2>1, <2>2 DEF ChangedElsewhere
<1>9. CASE OutcomeUnknown(c)
  <2>1. /\ page'.shown = page.shown /\ page'.state = "error" /\ page'.latch = FALSE
        /\ page'.last = page.last /\ page'.request = None
    BY <1>1, <1>2, <1>9 DEF OutcomeUnknown, Pages
  <2>2. QED
    BY <1>1, <1>3, <1>9, <2>1, OneHandler DEF OutcomeUnknown
<1>10. QED
  BY <1>4, <1>5, <1>6, <1>7, <1>8, <1>9 DEF Resume

\* The other steps of a handler that take no latch: refresh, reload and the times.
LEMMA SettledEffect ==
  ASSUME Typed, NEW c \in Threads, Refreshed(c) \/ Reloaded(c) \/ TimesLoaded(c)
  PROVE  LET h == thread[c] IN
         /\ UNCHANGED server /\ clicks' = clicks
         /\ \A d \in Threads \ {c} : thread'[d] = thread[d]
         /\ thread'[c].at = "none" /\ thread'[c].req = None /\ thread'[c].op = None
         /\ thread'[c].saw = None
         /\ page'.latch = page.latch /\ page'.request \in {None, page.request}
         /\ page'.last \in {None, page.last}
         /\ \/ /\ h.at \in {"refresh", "reload"} /\ crossed' = crossed /\ page'.state # "pending"
               /\ page'.shown = page.shown \/ (h.saw # None /\ page'.shown = h.saw)
            \/ /\ h.at = "times" /\ page'.shown = page.shown
               /\ \/ page'.state = page.state /\ crossed' = crossed
                  \/ page'.state # "pending" /\ Crosses
<1>1. /\ page \in Pages /\ UNCHANGED server /\ clicks' = clicks
      /\ Idle.at = "none" /\ Idle.req = None /\ Idle.op = None /\ Idle.saw = None
  BY DEF Typed, TypeOK, Refreshed, Reloaded, TimesLoaded, Idle
<1>2. CASE Refreshed(c)
  <2>1. /\ page'.shown = page.shown \/ (thread[c].saw # None /\ page'.shown = thread[c].saw)
        /\ page'.state # "pending" /\ page'.latch = page.latch
        /\ page'.last = page.last /\ page'.request = None
    BY <1>1, <1>2 DEF Refreshed, RefreshShown, ShowLatest, Pages
  <2>2. QED
    BY <1>1, <1>2, <2>1, OneHandler DEF Refreshed, At
<1>3. CASE Reloaded(c)
  <2>1. /\ page'.shown = page.shown \/ (thread[c].saw # None /\ page'.shown = thread[c].saw)
        /\ page'.state # "pending" /\ page'.latch = page.latch
        /\ page'.last \in {None, page.last} /\ page'.request \in {None, page.request}
    BY <1>1, <1>3 DEF Reloaded, Pages
  <2>2. QED
    BY <1>1, <1>3, <2>1, OneHandler DEF Reloaded, At
<1>4. CASE TimesLoaded(c)
  <2>1. /\ page'.shown = page.shown /\ page'.latch = page.latch
        /\ page'.last = page.last /\ page'.request = page.request
        /\ \/ page'.state = page.state /\ crossed' = crossed
           \/ page'.state # "pending" /\ Crosses
    BY <1>1, <1>4 DEF TimesLoaded, Pages
  <2>2. QED
    BY <1>1, <1>4, <2>1, OneHandler DEF TimesLoaded, At
<1>5. QED
  BY <1>2, <1>3, <1>4

\* A read is of the row as it is.
LEMMA ReadEffect ==
  ASSUME Typed, NEW c \in Threads, ReadBooking(c)
  PROVE  /\ UNCHANGED <<server, page, clicks, crossed>>
         /\ \A d \in Threads \ {c} : thread'[d] = thread[d]
         /\ thread[c].at \in {"refresh", "reload"} /\ thread'[c].at = thread[c].at
         /\ thread'[c].req = thread[c].req /\ thread'[c].op = thread[c].op
         /\ thread'[c].saw = booking
<1> DEFINE t == [thread[c] EXCEPT !.saw = booking]
<1>1. t.at = thread[c].at /\ t.req = thread[c].req /\ t.op = thread[c].op /\ t.saw = booking
  BY DEF Typed, TypeOK, Handlers
<1>2. QED
  BY <1>1, OneHandler DEF ReadBooking

\* A click starts the next handler: it sends a request of its own or the one behind
\* Try again, loads the times, or reads the booking again.
LEMMA ClickedEffect ==
  ASSUME Typed, NEW c \in Threads, Clicked(c)
  PROVE  /\ UNCHANGED server /\ c = clicks + 1 /\ clicks' = c
         /\ \A d \in Threads \ {c} : thread'[d] = thread[d]
         /\ thread'[c].op = None /\ thread'[c].saw = None
         /\ page'.shown = page.shown /\ page'.last = page.last
         /\ \/ thread'[c].req \in {None, page.request}
            \/ thread'[c].req \in Requests /\ thread'[c].req.click = c
         /\ page'.request \in {None, page.request}
         /\ \/ /\ page.state # "pending" /\ crossed' = crossed
               /\ \/ page.latch = TRUE /\ page'.latch = TRUE /\ page'.state # "pending"
                     /\ thread'[c].at = "none"
                  \/ page.latch = FALSE /\ page'.latch = TRUE /\ page'.state = "pending"
                     /\ thread'[c].at = "request"
            \/ /\ page'.latch = page.latch /\ page'.state = page.state /\ crossed' = crossed
               /\ thread'[c].at = "times"
            \/ /\ page'.latch = page.latch /\ page'.state = "pending" /\ Crosses
               /\ thread'[c].at = "reload"
<1>1. /\ page \in Pages /\ page.shown \in Bookings /\ page.last \in Bookings \cup {None}
      /\ UNCHANGED server /\ c = clicks + 1 /\ clicks' = c /\ c \in 0 .. Clicks
  <2>1. Click(c) /\ UNCHANGED server
    BY DEF Clicked, SelectSlot, ConfirmCancel, Resend, TryAgain, OpenPicker, Reload
  <2>2. /\ page \in Pages /\ page.shown \in Bookings /\ page.last \in Bookings \cup {None}
        /\ c \in 0 .. Clicks
    BY PageParts DEF Typed, TypeOK, Bookings, Threads
  <2>3. QED
    BY <2>1, <2>2 DEF Click
<1>2. ASSUME ControlsEnabled,
             NEW r \in Requests, r.click = c, Send(c, page, r, FALSE)
      PROVE  /\ page.state # "pending" /\ thread'[c].op = None /\ thread'[c].saw = None
             /\ \A d \in Threads \ {c} : thread'[d] = thread[d]
             /\ page'.shown = page.shown /\ page'.last = page.last /\ page'.request = page.request
             /\ \/ thread'[c].req = None
                \/ thread'[c].req \in Requests /\ thread'[c].req.click = c
             /\ \/ page.latch = TRUE /\ page'.latch = TRUE /\ page'.state # "pending"
                   /\ thread'[c].at = "none"
                \/ page.latch = FALSE /\ page'.latch = TRUE /\ page'.state = "pending"
                   /\ thread'[c].at = "request"
  <2>1. page.state # "pending"
    BY <1>2 DEF ControlsEnabled
  <2>2. /\ page'.request = page.request /\ page'.last = page.last /\ page'.shown = page.shown
        /\ \A d \in Threads \ {c} : thread'[d] = thread[d]
        /\ thread'[c].op = None /\ thread'[c].saw = None
        /\ \/ /\ page.latch = TRUE /\ page' = page
              /\ thread'[c].at = "none" /\ thread'[c].req = None
           \/ /\ page.latch = FALSE /\ page'.latch = TRUE /\ page'.state = "pending"
              /\ thread'[c].at = "request" /\ thread'[c].req = r
    <3>1. page \in Pages
      BY <1>1
    <3>2. c \in Threads /\ Send(c, page, r, FALSE)
      BY <1>2
    <3>3. QED
      BY ONLY Typed, <3>1, <3>2, SendEffect
  <2>3. QED
    BY ONLY <1>2, <2>1, <2>2
<1>3. CASE (SelectSlot(c) \/ ConfirmCancel(c)) /\ UNCHANGED crossed
  <2>1. PICK k \in Actions : ControlsEnabled /\ Confirm(c, k)
    BY <1>3 DEF SelectSlot, ConfirmCancel, Actions
  <2> DEFINE r == [kind |-> k, on |-> page.shown, click |-> c]
  <2>2. r \in Requests /\ r.click = c /\ Send(c, page, r, FALSE)
    BY <1>1, <2>1 DEF Confirm, Requests, Changes
  <2> HIDE DEF r
  <2>3. QED
    BY <1>1, <1>2, <1>3, <2>1, <2>2
<1>4. CASE Resend(c) /\ UNCHANGED crossed
  <2> DEFINE r == [kind |-> "notify", on |-> page.last, click |-> c]
  <2>1. r \in Requests /\ r.click = c /\ Send(c, page, r, FALSE) /\ ControlsEnabled
    BY <1>1, <1>4 DEF Resend, Requests
  <2> HIDE DEF r
  <2>2. QED
    BY <1>1, <1>2, <1>4, <2>1
<1>5. CASE TryAgain(c) /\ UNCHANGED crossed
  <2> DEFINE p == [page EXCEPT !.state = "idle", !.request = None]
  <2>1. p \in Pages
    BY <1>1, PageFields DEF States
  <2>2. /\ p.state = "idle" /\ p.request = None /\ p.latch = page.latch
        /\ p.shown = page.shown /\ p.last = page.last
    BY <1>1 DEF Pages
  <2>3. Send(c, p, page.request, FALSE) /\ page.state # "pending"
    BY <1>5 DEF TryAgain
  <2> HIDE DEF p
  <2>4. /\ page'.request = None /\ page'.last = p.last /\ page'.shown = p.shown
        /\ \A d \in Threads \ {c} : thread'[d] = thread[d]
        /\ thread'[c].op = None /\ thread'[c].saw = None
        /\ \/ /\ p.latch = TRUE /\ page' = p
              /\ thread'[c].at = "none" /\ thread'[c].req = None
           \/ /\ p.latch = FALSE /\ page'.latch = TRUE /\ page'.state = "pending"
              /\ thread'[c].at = "request" /\ thread'[c].req = page.request
    BY <2>1, <2>2, <2>3, SendEffect
  <2>5. QED
    BY <1>1, <1>5, <2>2, <2>3, <2>4
<1>6. CASE OpenPicker(c) /\ UNCHANGED crossed
  <2>1. /\ page'.latch = page.latch /\ page'.state = page.state /\ page'.shown = page.shown
        /\ page'.last = page.last /\ page'.request = page.request
    BY <1>1, <1>6 DEF OpenPicker, Pages
  <2>2. /\ thread'[c] = [Idle EXCEPT !.at = "times"]
        /\ \A d \in Threads \ {c} : thread'[d] = thread[d]
    BY <1>6, OneHandler DEF OpenPicker
  <2>3. thread'[c].at = "times" /\ thread'[c].req = None /\ thread'[c].op = None /\ thread'[c].saw = None
    BY <2>2 DEF Idle
  <2>4. QED
    BY <1>1, <1>6, <2>1, <2>2, <2>3
<1>7. CASE Reload(c) /\ Crosses
  <2>1. /\ page'.latch = page.latch /\ page'.state = "pending" /\ page'.shown = page.shown
        /\ page'.last = page.last /\ page'.request = page.request
    BY <1>1, <1>7 DEF Reload, Pages
  <2>2. /\ thread'[c] = [Idle EXCEPT !.at = "reload"]
        /\ \A d \in Threads \ {c} : thread'[d] = thread[d]
    BY <1>7, OneHandler DEF Reload
  <2>3. thread'[c].at = "reload" /\ thread'[c].req = None /\ thread'[c].op = None /\ thread'[c].saw = None
    BY <2>2 DEF Idle
  <2>4. QED
    BY <1>1, <1>7, <2>1, <2>2, <2>3
<1>8. QED
  BY <1>3, <1>4, <1>5, <1>6, <1>7 DEF Clicked
-----------------------------------------------------------------------------
\* At most once.

Known(q) ==
  /\ q # None
  /\ \/ q = page.request \/ q = open
     \/ \E c \in Threads : q = thread[c].req \/ q = thread[c].op

\* Whoever holds a request of one click holds the same request, the pending operation
\* fits the row, and a request whose change was made names the revision before it.
SameRequest == \A q, r : Known(q) /\ Known(r) /\ q.click = r.click /\ q.click # 0 => q = r
KnownClicks == \A q : Known(q) => q \in Requests /\ q.click <= clicks
OpenFits == open # None => open.on.rev = booking.rev
Spent ==
  \A a \in made :
    /\ a.click <= clicks /\ a.rev <= booking.rev
    /\ a.click # 0 => \A q : Known(q) /\ q.click = a.click => q.on.rev = a.rev - 1

Once == SameRequest /\ KnownClicks /\ OpenFits /\ Spent /\ AtMostOnce

LEMMA RequestClicks == \A q \in Requests : q.click \in Nat
  BY RequestParts

LEMMA MadeParts == \A a \in Made : a.click \in Nat /\ a.rev \in Nat
  BY DEF Made

\* A step that makes no change, and passes known requests on or names a new click's.
LEMMA OnceKept ==
  ASSUME Typed, Once, UNCHANGED <<booking, made>>, clicks' \in Nat, clicks <= clicks',
         NEW new, \A q : Known(q)' => Known(q) \/ q = new,
         new # None => /\ new \in Requests /\ new.click <= clicks'
                       /\ new.click = 0 \/ new.click > clicks,
         open' # None => open'.on.rev = booking.rev
  PROVE  Once'
<1>1. clicks \in Nat /\ made \subseteq Made
  BY DEF Typed, TypeOK
<1>2. \A q : Known(q)' => q # None
  BY DEF Known
<1>3. KnownClicks'
  BY <1>1, <1>2, RequestClicks DEF Once, KnownClicks
<1>4. SameRequest'
  BY <1>1, <1>2, RequestClicks DEF Once, SameRequest, KnownClicks
<1>5. OpenFits'
  BY DEF OpenFits
<1>6. Spent'
  <2>1. \A a \in made : a.click \in Nat /\ a.rev \in Nat
    BY <1>1, MadeParts
  <2>2. \A a \in made : \A q : a.click # 0 /\ Known(q)' /\ q.click = a.click => Known(q)
    BY <1>1, <1>2, RequestClicks, <2>1 DEF Once, Spent
  <2>3. QED
    BY <1>1, <2>1, <2>2 DEF Once, Spent
<1>7. QED
  BY <1>3, <1>4, <1>5, <1>6 DEF Once, AtMostOnce

\* The pending operation, which fits the row and which nobody has spent, is made.
LEMMA OnceEffect ==
  ASSUME Typed, Once, open # None, Effect(open), clicks' = clicks,
         open' = None, \A q : Known(q)' => Known(q)
  PROVE  Once'
<1> DEFINE m == [click |-> open.click, rev |-> booking.rev + 1, action |-> open.kind]
<1>1. /\ clicks \in Nat /\ booking.rev \in Nat /\ made \subseteq Made /\ Known(open)
      /\ open \in Requests /\ open.click \in Nat /\ open.click <= clicks
      /\ open.on.rev = booking.rev
  BY RequestClicks DEF Typed, TypeOK, Bookings, Once, KnownClicks, Known, OpenFits
<1>2. /\ booking'.rev = booking.rev + 1 /\ made' = made \cup {m}
      /\ m.click = open.click /\ m.rev = booking.rev + 1
  BY DEF Effect
<1> HIDE DEF m
<1>3. SameRequest' /\ KnownClicks' /\ OpenFits'
  BY DEF Once, SameRequest, KnownClicks, OpenFits
<1>4. \A a \in made : a.click \in Nat /\ a.rev \in Nat /\ a.rev <= booking.rev
  BY <1>1, MadeParts DEF Once, Spent
<1>5. \A a \in made : a.click # 0 => a.click # open.click
  BY <1>1, <1>4 DEF Once, Spent
<1>6. Spent'
  <2> SUFFICES ASSUME NEW a \in made'
               PROVE  /\ a.click <= clicks' /\ a.rev <= booking'.rev
                      /\ a.click # 0 => \A q : Known(q)' /\ q.click = a.click => q.on.rev = a.rev - 1
    BY DEF Spent
  <2>1. CASE a \in made
    BY <1>1, <1>2, <1>4, <2>1 DEF Once, Spent
  <2>2. CASE a = m
    <3>1. \A q : Known(q)' /\ q.click = open.click /\ open.click # 0 => q = open
      BY <1>1 DEF Once, SameRequest
    <3>2. QED
      BY <1>1, <1>2, <2>2, <3>1
  <2>3. QED
    BY <1>2, <2>1, <2>2
<1>7. AtMostOnce'
  BY <1>2, <1>5 DEF Once, AtMostOnce
<1>8. QED
  BY <1>3, <1>6, <1>7 DEF Once

\* Handlers, the page and the server pass on what they hold.
LEMMA KnownStep ==
  ASSUME NEW c \in Threads, NEW new, \A d \in Threads \ {c} : thread'[d] = thread[d],
         thread'[c].req \in {None, thread[c].req, page.request, new},
         thread'[c].op \in {None, thread[c].op, thread[c].req, open},
         page'.request \in {None, thread[c].req, page.request},
         open' \in {None, open, thread[c].req}
  PROVE  \A q : Known(q)' => Known(q) \/ q = new
  BY DEF Known

\* Every step keeps Once: only the pending operation is spent.
LEMMA OnceInductive == Typed /\ Typed' /\ Once /\ [Next]_vars => Once'
<1> SUFFICES ASSUME Typed, Typed', Once, [Next]_vars PROVE Once'
  OBVIOUS
<1> clicks \in Nat /\ clicks' \in Nat
  BY DEF Typed, TypeOK
<1>1. CASE UNCHANGED vars
  BY <1>1 DEF vars, server, Once, SameRequest, KnownClicks, OpenFits, Spent, AtMostOnce, Known
<1>2. ASSUME NEW c \in Threads, NEW new, \A d \in Threads \ {c} : thread'[d] = thread[d],
             thread'[c].req \in {None, thread[c].req, page.request, new},
             thread'[c].op \in {None, thread[c].op},
             page'.request \in {None, thread[c].req, page.request},
             UNCHANGED server,
             \/ new = None /\ clicks' \in {clicks, clicks + 1}
             \/ new \in Requests /\ new.click = clicks + 1 /\ clicks' = clicks + 1
      PROVE  Once'
  <2>1. \A q : Known(q)' => Known(q) \/ q = new
    BY <1>2, KnownStep DEF server
  <2>2. QED
    BY <1>2, <2>1, OnceKept DEF server, Once, OpenFits
<1>3. ASSUME NEW c \in Threads, Clicked(c)
      PROVE  Once'
  <2>1. CASE thread'[c].req \in {None, page.request}
    BY <1>2, <1>3, <2>1, ClickedEffect
  <2>2. CASE thread'[c].req \in Requests /\ thread'[c].req.click = c
    <3>1. /\ UNCHANGED server /\ c = clicks + 1 /\ clicks' = c
          /\ \A d \in Threads \ {c} : thread'[d] = thread[d]
          /\ thread'[c].op = None /\ page'.request \in {None, page.request}
      BY <1>3, ClickedEffect
    <3> DEFINE q == thread'[c].req
    <3>2. q \in Requests /\ q.click = clicks + 1 /\ clicks' = clicks + 1
      BY <2>2, <3>1
    <3>3. QED
      BY <1>2, <3>1, <3>2
  <2>3. QED
    BY <1>3, <2>1, <2>2, ClickedEffect
<1>4. ASSUME NEW c \in Threads, Serve(c)
      PROVE  Once'
  <2> DEFINE req == thread[c].req
  <2>1. /\ req \in Requests /\ UNCHANGED <<booking, made, page, clicks>> /\ thread'[c].req = req
        /\ \A d \in Threads \ {c} : thread'[d] = thread[d]
        /\ thread'[c].op \in {None, open'}
        /\ open' = open \/ (open' = req /\ Fits(req))
    BY <1>4, ServeEffect
  <2>2. \A q : Known(q)' => Known(q)
    <3>1. Known(req)
      BY <2>1, NoneIsNoRecord DEF Known
    <3>2. \A q : Known(q)' => Known(q) \/ q = req
      BY <2>1, KnownStep
    <3>3. QED
      BY <3>1, <3>2
  <2>3. open' # None => open'.on.rev = booking.rev
    BY <2>1 DEF Fits, Once, OpenFits
  <2>4. QED
    BY <2>1, <2>2, <2>3, OnceKept
<1>5. ASSUME NEW c \in Threads, Work(c)
      PROVE  Once'
  <2>1. /\ UNCHANGED <<page, clicks>>
        /\ thread'[c].req = thread[c].req /\ thread'[c].op = None
        /\ \A d \in Threads \ {c} : thread'[d] = thread[d]
        /\ \/ UNCHANGED <<booking, made>> /\ open' \in {open, None}
           \/ open # None /\ Effect(open) /\ open' = None
    BY <1>5, WorkEffect
  <2>2. \A q : Known(q)' => Known(q)
    <3>1. \A q : Known(q)' => Known(q) \/ q = None
      BY <2>1, KnownStep
    <3>2. QED
      BY <3>1 DEF Known
  <2>3. CASE open # None /\ Effect(open) /\ open' = None
    BY <2>1, <2>2, <2>3, OnceEffect
  <2>4. CASE UNCHANGED <<booking, made>> /\ open' \in {open, None}
    BY <2>1, <2>2, <2>4, OnceKept DEF Once, OpenFits
  <2>5. QED
    BY <2>1, <2>3, <2>4
<1>6. ASSUME NEW c \in Threads, Goes(c), ~Serve(c), ~Work(c)
      PROVE  Once'
  <2>1. /\ UNCHANGED server /\ clicks' = clicks
        /\ \A d \in Threads \ {c} : thread'[d] = thread[d]
        /\ thread'[c].req \in {None, thread[c].req} /\ thread'[c].op \in {None, thread[c].op}
        /\ page'.request \in {None, thread[c].req, page.request}
    <3>1. CASE WaitOver(c)
      <4>1. page \in Pages /\ Send(c, page, thread[c].req, TRUE) /\ UNCHANGED server /\ clicks' = clicks
        BY <3>1 DEF WaitOver, Typed, TypeOK
      <4>2. QED
        BY <4>1, SendEffect
    <3>2. CASE Resume(c)
      BY <3>2, ResumeEffect
    <3>3. CASE ReadBooking(c)
      BY <3>3, ReadEffect
    <3>4. CASE Refreshed(c) \/ Reloaded(c) \/ TimesLoaded(c)
      BY <3>4, SettledEffect
    <3>5. QED
      BY <1>6, <3>1, <3>2, <3>3, <3>4 DEF Goes
  <2>2. QED
    BY <1>2, <2>1
<1>7. CASE Toggle \/ OthersBegin
  <2> DEFINE new == IF open' = open THEN None ELSE open'
  <2>1. /\ UNCHANGED <<booking, made, thread, clicks>> /\ page'.request = page.request
        /\ open' = open \/ (open' \in Requests /\ open'.click = 0 /\ open'.on.rev = booking.rev)
    <3>1. CASE Toggle
      <4>1. page'.request = page.request
        BY <3>1 DEF Toggle, ClosePicker, ArmCancel, DisarmCancel, Typed, TypeOK, Pages
      <4>2. QED
        BY <3>1, <4>1 DEF Toggle, server
    <3>2. CASE OthersBegin
      <4>1. PICK k \in Actions : open' = [kind |-> k, on |-> booking, click |-> 0]
        BY <3>2 DEF OthersBegin
      <4>2. open' \in Requests
        BY <4>1 DEF Requests, Changes, Typed, TypeOK
      <4>3. QED
        BY <3>2, <4>1, <4>2 DEF OthersBegin
    <3>3. QED
      BY <1>7, <3>1, <3>2
  <2>2. \A q : Known(q)' => Known(q) \/ q = new
    BY <2>1 DEF Known
  <2>3. QED
    BY <2>1, <2>2, OnceKept DEF Once, OpenFits
<1>8. CASE OpenEnds
  <2>1. /\ open # None /\ open' = None /\ UNCHANGED <<page, thread, clicks>>
        /\ Effect(open) \/ UNCHANGED <<booking, made>>
    BY <1>8 DEF OpenEnds
  <2>2. \A q : Known(q)' => Known(q)
    BY <2>1 DEF Known
  <2>3. CASE Effect(open)
    BY <2>1, <2>2, <2>3, OnceEffect
  <2>4. CASE UNCHANGED <<booking, made>>
    <3>1. \A q : Known(q)' => Known(q) \/ q = None
      BY <2>2
    <3>2. QED
      BY <2>1, <2>4, <3>1, OnceKept
  <2>5. QED
    BY <2>1, <2>3, <2>4
<1>9. QED
  BY <1>1, <1>3, <1>4, <1>5, <1>6, <1>7, <1>8 DEF Next

LEMMA OnceInit == Init => Once
<1> SUFFICES ASSUME Init PROVE Once
  OBVIOUS
<1>1. \A q : ~Known(q)
  BY DEF Init, Known, FreshPage, Idle
<1>2. QED
  BY <1>1 DEF Init, Once, SameRequest, KnownClicks, OpenFits, Spent, AtMostOnce

\* A confirmed change is made at most once, whatever the guest, the automatic retry and
\* other people do, since every send repeats the revision the guest saw.
THEOREM NeverTwice == Spec => []AtMostOnce
<1>1. Spec => [](Typed /\ Once)
  BY TypedInit, TypedInductive, OnceInit, OnceInductive, PTL DEF Spec
<1>2. Once => AtMostOnce
  BY DEF Once
<1>3. QED
  BY <1>1, <1>2, PTL
-----------------------------------------------------------------------------
\* One operation at a time.

Working(c) == thread[c].at \in {"request", "serving", "answered"}

\* The latch is held by the one handler that is sending, and by nobody else.
Fresh == \A c \in Threads : c > clicks => thread[c].at = "none"
Latched ==
  /\ page.latch = TRUE => \E c \in Threads : Working(c)
  /\ \A c \in Threads : Working(c) => page.latch = TRUE
  /\ \A c, d \in Threads : Working(c) /\ Working(d) => c = d
Lone ==
  ~crossed => \A c \in Threads :
                Busy(c) => page.state = "pending" /\ \A d \in Threads : Busy(d) => c = d

Alone == Fresh /\ Latched /\ Lone /\ NothingSpins

\* Every step keeps the latch with its one holder.
LEMMA AloneInductive == Typed /\ Typed' /\ Alone /\ [Next]_vars => Alone'
<1> SUFFICES ASSUME Typed, Typed', Alone, [Next]_vars PROVE Alone'
  OBVIOUS
<1> USE DEF Alone, Fresh, Latched, Lone, NothingSpins, Working, Busy
<1> /\ clicks \in 0 .. Clicks /\ crossed \in BOOLEAN /\ crossed' \in BOOLEAN
    /\ page.latch \in BOOLEAN /\ page'.latch \in BOOLEAN
  BY DEF Typed, TypeOK, Pages
<1>1. CASE UNCHANGED <<page, thread, clicks, crossed>>
  BY <1>1
<1>2. ASSUME NEW c \in Threads, Clicked(c)
      PROVE  Alone'
  <2>1. /\ c = clicks + 1 /\ clicks' = c /\ thread[c].at = "none"
        /\ \A d \in Threads \ {c} : thread'[d] = thread[d]
    <3>1. /\ c = clicks + 1 /\ clicks' = c
          /\ \A d \in Threads \ {c} : thread'[d] = thread[d]
      BY <1>2, ClickedEffect
    <3>2. QED
      BY <3>1
  <2>2. Fresh'
    BY <2>1 DEF Threads
  <2>3. CASE /\ page.state # "pending" /\ crossed' = crossed
             /\ page.latch = TRUE /\ page'.latch = TRUE /\ page'.state # "pending"
             /\ thread'[c].at = "none"
    BY <2>1, <2>2, <2>3
  <2>4. CASE /\ page.state # "pending" /\ crossed' = crossed
             /\ page.latch = FALSE /\ page'.latch = TRUE /\ page'.state = "pending"
             /\ thread'[c].at = "request"
    BY <2>1, <2>2, <2>4
  <2>5. CASE /\ page'.latch = page.latch /\ page'.state = page.state /\ crossed' = crossed
             /\ thread'[c].at = "times"
    BY <2>1, <2>2, <2>5
  <2>6. CASE /\ page'.latch = page.latch /\ page'.state = "pending" /\ Crosses
             /\ thread'[c].at = "reload"
    <3>1. Latched' /\ NothingSpins'
      BY <2>1, <2>6
    <3>2. Lone'
      <4>1. ASSUME NEW d \in Threads, Busy(d) PROVE crossed'
        BY <2>6, <4>1 DEF Crosses
      <4>2. CASE \E d \in Threads : Busy(d)
        BY <4>1, <4>2
      <4>3. CASE \A d \in Threads : ~Busy(d)
        <5>1. \A d \in Threads : Busy(d)' => d = c
          BY <2>1, <4>3
        <5>2. QED
          BY <2>6, <5>1
      <4>4. QED
        BY <4>2, <4>3
    <3>3. QED
      BY <2>2, <3>1, <3>2
  <2>7. QED
    <3>1. \/ /\ page.state # "pending" /\ crossed' = crossed
             /\ page.latch = TRUE /\ page'.latch = TRUE /\ page'.state # "pending"
             /\ thread'[c].at = "none"
          \/ /\ page.state # "pending" /\ crossed' = crossed
             /\ page.latch = FALSE /\ page'.latch = TRUE /\ page'.state = "pending"
             /\ thread'[c].at = "request"
          \/ /\ page'.latch = page.latch /\ page'.state = page.state /\ crossed' = crossed
             /\ thread'[c].at = "times"
          \/ /\ page'.latch = page.latch /\ page'.state = "pending" /\ Crosses
             /\ thread'[c].at = "reload"
      BY <1>2, ClickedEffect
    <3>2. QED
      BY ONLY <2>3, <2>4, <2>5, <2>6, <3>1
<1>3. ASSUME NEW c \in Threads, Serve(c) \/ Work(c) \/ ReadBooking(c)
      PROVE  Alone'
  <2>1. /\ page' = page /\ clicks' = clicks /\ crossed' = crossed
        /\ \A d \in Threads \ {c} : thread'[d] = thread[d]
        /\ \/ thread[c].at = "request" /\ thread'[c].at \in {"serving", "answered"}
           \/ thread[c].at = "serving" /\ thread'[c].at = "answered"
           \/ thread[c].at \in {"refresh", "reload"} /\ thread'[c].at = thread[c].at
    BY <1>3, ServeEffect, WorkEffect, ReadEffect
  <2>2. QED
    BY <2>1
<1>4. ASSUME NEW c \in Threads, Resume(c)
      PROVE  Alone'
  <2>1. /\ clicks' = clicks /\ crossed' = crossed /\ thread[c].at = "answered"
        /\ \A d \in Threads \ {c} : thread'[d] = thread[d]
        /\ page'.latch = FALSE
        /\ \/ page'.state = page.state /\ thread'[c].at \in {"wait", "refresh"}
           \/ page'.state # "pending" /\ thread'[c].at \in {"none", "times"}
    BY <1>4, ResumeEffect
  <2>2. QED
    BY <2>1
<1>5. ASSUME NEW c \in Threads, WaitOver(c)
      PROVE  Alone'
  <2>1. /\ clicks' = clicks /\ crossed' = crossed /\ thread[c].at = "wait"
        /\ page \in Pages /\ Send(c, page, thread[c].req, TRUE)
    BY <1>5 DEF WaitOver, At, Typed, TypeOK
  <2>2. /\ \A d \in Threads \ {c} : thread'[d] = thread[d]
        /\ \/ /\ page.latch = TRUE /\ page' = page /\ thread'[c].at = "none"
           \/ /\ page.latch = FALSE /\ page'.latch = TRUE /\ page'.state = "pending"
              /\ thread'[c].at = "request"
    BY ONLY Typed, <2>1, SendEffect
  <2>3. Fresh' /\ Latched' /\ NothingSpins'
    BY <2>1, <2>2
  <2>4. Lone'
    BY <2>1, <2>2
  <2>5. QED
    BY <2>3, <2>4
<1>6. ASSUME NEW c \in Threads, Refreshed(c) \/ Reloaded(c) \/ TimesLoaded(c)
      PROVE  Alone'
  <2>1. /\ clicks' = clicks /\ page'.latch = page.latch /\ thread'[c].at = "none"
        /\ \A d \in Threads \ {c} : thread'[d] = thread[d]
        /\ \/ thread[c].at \in {"refresh", "reload"} /\ crossed' = crossed /\ page'.state # "pending"
           \/ thread[c].at = "times" /\ page'.state = page.state /\ crossed' = crossed
           \/ thread[c].at = "times" /\ page'.state # "pending" /\ Crosses
    BY <1>6, SettledEffect
  <2>2. Fresh' /\ Latched'
    BY <2>1
  <2>3. Lone'
    <3>1. \A d \in Threads : Busy(d)' => Busy(d)
      BY <2>1
    <3>2. CASE thread[c].at \in {"refresh", "reload"} /\ crossed' = crossed
      <4>1. ~crossed => \A d \in Threads : ~Busy(d)'
        BY <2>1, <3>1, <3>2
      <4>2. QED
        BY <3>2, <4>1
    <3>3. CASE page'.state = page.state /\ crossed' = crossed
      BY <3>1, <3>3
    <3>4. CASE Crosses
      <4>1. ~crossed' => \A d \in Threads : ~Busy(d)'
        BY <3>1, <3>4 DEF Crosses
      <4>2. QED
        BY <4>1
    <3>5. QED
      BY <2>1, <3>2, <3>3, <3>4
  <2>4. NothingSpins'
    BY <2>1
  <2>5. QED
    BY <2>2, <2>3, <2>4
<1>7. CASE Toggle
  <2> HIDE DEF Alone, Fresh, Latched, Lone, NothingSpins, Working, Busy
  <2>1. page'.state = page.state /\ page'.latch = page.latch /\ UNCHANGED <<thread, clicks, crossed>>
    <3>1. page \in Pages
      BY DEF Typed, TypeOK
    <3>2. QED
      BY ONLY <1>7, <3>1 DEF Toggle, ClosePicker, ArmCancel, DisarmCancel, Pages
  <2>2. QED
    BY <2>1 DEF Alone, Fresh, Latched, Lone, NothingSpins, Working, Busy
<1>8. CASE OthersBegin \/ OpenEnds
  BY <1>1, <1>8 DEF OthersBegin, OpenEnds
<1>9. QED
  BY <1>1, <1>2, <1>3, <1>4, <1>5, <1>6, <1>7, <1>8 DEF Next, Goes, vars, server

LEMMA AloneInit == Init => Alone
  BY DEF Init, Alone, Fresh, Latched, Lone, NothingSpins, Working, Busy, FreshPage, Idle

\* The page never sits pending with nothing in flight (REV8-03, REVIEW-08).
THEOREM NeverSpins == Spec => []NothingSpins
<1>1. Spec => [](Typed /\ Alone)
  BY TypedInit, TypedInductive, AloneInit, AloneInductive, PTL DEF Spec
<1>2. Alone => NothingSpins
  BY DEF Alone
<1>3. QED
  BY <1>1, <1>2, PTL

\* At most one handler is at work while no latchless handler has enabled the controls
\* under another (booking-controls-store.ts:134).
THEOREM OneOperation == Spec => []OneAtATime
<1>1. Spec => [](Typed /\ Alone)
  BY TypedInit, TypedInductive, AloneInit, AloneInductive, PTL DEF Spec
<1>2. Alone => OneAtATime
  <2> SUFFICES ASSUME Alone, ~crossed PROVE Cardinality({c \in Threads : Busy(c)}) <= 1
    BY DEF OneAtATime
  <2> DEFINE B == {c \in Threads : Busy(c)}
  <2>1. CASE B = {}
    BY <2>1, FS_EmptySet
  <2>2. CASE B # {}
    <3>1. PICK c \in B : B = {c}
      BY <2>2 DEF Alone, Lone
    <3>2. QED
      BY <3>1, FS_Singleton
  <2>3. QED
    BY <2>1, <2>2
<1>3. QED
  BY <1>1, <1>2, PTL
-----------------------------------------------------------------------------
\* What the page shows, and the pair it observed.

\* Nobody has seen more than the row holds, and the handler at work nothing older than
\* the page shows.
Newest ==
  /\ page.shown.rev <= booking.rev
  /\ \A c \in Threads : thread[c].saw # None =>
       /\ thread[c].saw.rev <= booking.rev
       /\ ~crossed /\ Busy(c) => page.shown.rev <= thread[c].saw.rev

\* A worker's operation is of its request's kind, a row that a change left behind and an
\* "ok" to a change both tell of a change made.
Backed(rev, action) == \E m \in made : m.rev = rev /\ m.action = action

Observed ==
  /\ booking.action \in Actions => Backed(booking.rev, booking.action)
  /\ \A c \in Threads :
       /\ thread[c].at = "serving" =>
            IF thread[c].op = None THEN thread[c].req.kind = "notify"
                                   ELSE thread[c].op.kind = thread[c].req.kind
       /\ thread[c].at = "answered" /\ thread[c].answer = "ok" /\ thread[c].req.kind # "notify"
            => Backed(thread[c].saw.rev, thread[c].req.kind)
  /\ PairIsReal

\* A step changes the row by an operation's effect alone.
LEMMA RowStep ==
  ASSUME Typed, Next
  PROVE  UNCHANGED <<booking, made>> \/ \E r : Effect(r)
<1>1. ASSUME NEW c \in Threads, Clicked(c) \/ Goes(c)
      PROVE  UNCHANGED <<booking, made>> \/ \E r : Effect(r)
  BY <1>1, ServeEffect, WorkEffect DEF Clicked, Goes, ReadBooking, Resume, WaitOver, Refreshed,
                                       Reloaded, TimesLoaded, server
<1>2. QED
  BY <1>1 DEF Next, Toggle, OthersBegin, OpenEnds, server

\* The row's revision never goes back, and changes made stay recorded.
LEMMA RowOnlyGrows ==
  ASSUME Typed, Next
  PROVE  booking.rev \in Nat /\ booking'.rev >= booking.rev /\ made \subseteq made'
<1>1. booking.rev \in Nat
  BY DEF Typed, TypeOK, Bookings
<1>2. QED
  BY <1>1, RowStep DEF Effect

\* Every step shows what was shown, or what the handler that ends with it saw.
LEMMA ShownStep ==
  ASSUME Typed, Next, page'.shown # page.shown
  PROVE  \E c \in Threads : Busy(c) /\ thread[c].saw # None /\ page'.shown = thread[c].saw
<1>1. ASSUME NEW c \in Threads, Clicked(c) \/ Serve(c) \/ Work(c) \/ ReadBooking(c) \/ WaitOver(c)
      PROVE  FALSE
  <2>1. CASE WaitOver(c)
    <3>1. page \in Pages /\ Send(c, page, thread[c].req, TRUE)
      BY <2>1 DEF WaitOver, Typed, TypeOK
    <3>2. QED
      BY <3>1, SendEffect
  <2>2. QED
    BY <1>1, <2>1, ClickedEffect, ServeEffect, WorkEffect, ReadEffect
<1>2. ASSUME NEW c \in Threads, Resume(c) \/ Refreshed(c) \/ Reloaded(c) \/ TimesLoaded(c)
      PROVE  Busy(c) /\ thread[c].saw # None /\ page'.shown = thread[c].saw
  BY <1>2, ResumeEffect, SettledEffect DEF Busy
<1>3. ~(Toggle \/ OthersBegin \/ OpenEnds)
  BY DEF Toggle, ClosePicker, ArmCancel, DisarmCancel, OthersBegin, OpenEnds, Typed, TypeOK, Pages
<1>4. QED
  BY <1>1, <1>2, <1>3 DEF Next, Goes

\* A handler's new reading is of the row as it is.
LEMMA SawStep ==
  ASSUME Typed, Next, NEW c \in Threads
  PROVE  \/ thread'[c].saw \in {None, booking'}
         \/ thread'[c].saw = thread[c].saw /\ (Busy(c)' => Busy(c))
<1>1. ASSUME NEW d \in Threads, Clicked(d) \/ Goes(d)
      PROVE  \/ thread'[c].saw \in {None, booking'}
             \/ thread'[c].saw = thread[c].saw /\ (Busy(c)' => Busy(c))
  <2>1. CASE WaitOver(d)
    <3>1. page \in Pages /\ Send(d, page, thread[d].req, TRUE)
      BY <2>1 DEF WaitOver, Typed, TypeOK
    <3>2. QED
      BY <3>1, SendEffect DEF Busy
  <2>2. CASE Clicked(d) \/ Serve(d) \/ Work(d)
    <3>1. CASE Clicked(d)
      BY <3>1, ClickedEffect DEF Busy
    <3>2. CASE Serve(d)
      BY <3>2, ServeEffect DEF Busy
    <3>3. CASE Work(d)
      BY <3>3, WorkEffect DEF Busy
    <3>4. QED
      BY <2>2, <3>1, <3>2, <3>3
  <2>3. CASE ReadBooking(d)
    BY <2>3, ReadEffect DEF Busy, server
  <2>4. CASE Resume(d)
    BY <2>4, ResumeEffect DEF Busy
  <2>5. CASE Refreshed(d) \/ Reloaded(d) \/ TimesLoaded(d)
    BY <2>5, SettledEffect DEF Busy
  <2>6. QED
    BY <1>1, <2>1, <2>2, <2>3, <2>4, <2>5 DEF Goes
<1>2. CASE Toggle \/ OthersBegin \/ OpenEnds
  BY <1>2 DEF Toggle, OthersBegin, OpenEnds, Busy
<1>3. QED
  BY <1>1, <1>2 DEF Next

\* Once crossed, always crossed.
LEMMA CrossedStays ==
  ASSUME Typed, Next
  PROVE  crossed => crossed'
  BY ResumeEffect, SettledEffect, ServeEffect, WorkEffect, ReadEffect, ClickedEffect
     DEF Next, Goes, Crosses, WaitOver, Toggle, OthersBegin, OpenEnds

\* Every step keeps the readings between the page and the row.
LEMMA NewestInductive == Typed /\ Typed' /\ Alone /\ Newest /\ [Next]_vars => Newest'
<1> SUFFICES ASSUME Typed, Typed', Alone, Newest, Next PROVE Newest'
  BY DEF Newest, Busy, vars, server
<1>1. /\ booking.rev \in Nat /\ booking'.rev \in Nat /\ booking.rev <= booking'.rev
      /\ page.shown.rev \in Nat /\ page'.shown.rev \in Nat
      /\ \A c \in Threads : thread[c].saw # None => thread[c].saw.rev \in Nat
  BY RowOnlyGrows, PageParts, HandlerParts DEF Typed, TypeOK, Bookings
<1>2. \/ page'.shown = page.shown
      \/ \E c \in Threads : Busy(c) /\ thread[c].saw # None /\ page'.shown = thread[c].saw
  BY ShownStep
<1>3. page'.shown.rev <= booking'.rev
  BY <1>1, <1>2 DEF Newest
<1>4. ASSUME NEW d \in Threads, thread'[d].saw # None
      PROVE  /\ thread'[d].saw.rev <= booking'.rev
             /\ ~crossed' /\ Busy(d)' => page'.shown.rev <= thread'[d].saw.rev
  <2>1. CASE thread'[d].saw = booking'
    BY <1>1, <1>3, <2>1
  <2>2. CASE thread'[d].saw = thread[d].saw /\ (Busy(d)' => Busy(d))
    <3>1. thread[d].saw.rev \in Nat /\ thread[d].saw.rev <= booking.rev
      BY <1>1, <1>4, <2>2 DEF Newest
    <3>2. ~crossed' /\ Busy(d)' => page'.shown.rev <= thread'[d].saw.rev
      BY <1>1, <1>2, <1>4, <2>2, <3>1, CrossedStays DEF Newest, Alone, Lone
    <3>3. QED
      BY <1>1, <2>2, <3>1, <3>2
  <2>3. QED
    BY <1>4, <2>1, <2>2, SawStep
<1>5. QED
  BY <1>3, <1>4 DEF Newest

LEMMA NewestInit == Init => Newest
  BY DEF Init, Newest, FreshPage, Idle

\* While that holds the page never goes back to an older booking than it has shown.
THEOREM NeverShowsOlder == Spec => ShownNeverOlder
<1>1. Spec => [](Typed /\ Alone /\ Newest)
  BY TypedInit, TypedInductive, AloneInit, AloneInductive, NewestInit, NewestInductive, PTL DEF Spec
<1>2. Typed /\ Alone /\ Newest /\ [Next]_vars => [~crossed => page'.shown.rev >= page.shown.rev]_vars
  <2> SUFFICES ASSUME Typed, Newest, Next, ~crossed PROVE page'.shown.rev >= page.shown.rev
    OBVIOUS
  <2>1. page.shown.rev \in Nat /\ \A c \in Threads : thread[c].saw # None => thread[c].saw.rev \in Nat
    BY PageParts, HandlerParts DEF Typed, TypeOK, Bookings
  <2>2. QED
    BY <2>1, ShownStep DEF Newest
<1>3. QED
  BY <1>1, <1>2, PTL DEF Spec, ShownNeverOlder

\* Every step keeps the pair backed by a change of the row.
LEMMA ObservedInductive == Typed /\ Typed' /\ Observed /\ [Next]_vars => Observed'
<1> SUFFICES ASSUME Typed, Typed', Observed, Next PROVE Observed'
  BY DEF Observed, Backed, PairIsReal, vars, server
<1> USE DEF Observed, PairIsReal, Backed
<1>1. made \subseteq made'
  BY RowOnlyGrows
<1>2. booking'.action \in Actions => Backed(booking.rev, booking.action)'
  <2>1. CASE UNCHANGED <<booking, made>>
    BY <2>1
  <2>2. ASSUME NEW o, Effect(o)
        PROVE  booking'.action \in Actions => Backed(booking.rev, booking.action)'
    <3> DEFINE m == [click |-> o.click, rev |-> booking.rev + 1, action |-> o.kind]
    <3>1. m \in made' /\ m.rev = booking'.rev /\ m.action = booking'.action
      BY <2>2 DEF Effect
    <3>2. QED
      BY <3>1
  <2>3. QED
    BY <2>1, <2>2, RowStep
<1>3. ASSUME NEW c \in Threads, Clicked(c)
      PROVE  Observed'
  <2>1. /\ \A d \in Threads \ {c} : thread'[d] = thread[d]
        /\ page'.last = page.last /\ thread'[c].at \notin {"serving", "answered"}
    BY <1>3, ClickedEffect
  <2>2. QED
    BY <1>1, <1>2, <2>1
<1>4. ASSUME NEW c \in Threads, Serve(c)
      PROVE  Observed'
  <2>1. /\ page' = page /\ \A d \in Threads \ {c} : thread'[d] = thread[d]
        /\ booking' = booking /\ thread'[c].req = thread[c].req
    BY <1>4, ServeEffect
  <2>2. thread'[c].at = "serving" =>
          IF thread'[c].op = None THEN thread'[c].req.kind = "notify"
                                  ELSE thread'[c].op.kind = thread'[c].req.kind
    BY <1>4, ServeEffect
  <2>3. ASSUME thread'[c].at = "answered", thread'[c].answer = "ok"
        PROVE  Backed(thread[c].saw.rev, thread[c].req.kind)'
    <3>1. thread'[c].saw # None
      BY <2>3 DEF Typed, Ready
    <3>2. thread'[c].saw = booking /\ thread[c].req.kind = "cancel" /\ booking.action = "cancel"
      BY <1>4, <2>3, <3>1, ServeEffect
    <3>3. QED
      BY <1>1, <2>1, <3>2 DEF Actions
  <2>4. QED
    BY <1>1, <1>2, <2>1, <2>2, <2>3
<1>5. ASSUME NEW c \in Threads, Work(c)
      PROVE  Observed'
  <2>1. /\ page' = page /\ \A d \in Threads \ {c} : thread'[d] = thread[d]
        /\ thread[c].at = "serving" /\ thread'[c].at = "answered"
        /\ thread'[c].req = thread[c].req /\ thread'[c].saw \in {None, booking'}
    BY <1>5, WorkEffect
  <2>2. ASSUME thread'[c].answer = "ok", thread'[c].req.kind # "notify"
        PROVE  booking'.action = thread'[c].req.kind /\ thread'[c].req.kind \in Actions
               /\ thread'[c].saw = booking'
    <3>1. thread'[c].saw # None /\ thread[c].req # None /\ thread[c] \in Handlers
      BY <2>1, <2>2 DEF Typed, TypeOK, Ready
    <3>2. thread[c].req.kind \in Actions
      BY <2>1, <2>2, <3>1, HandlerParts, RequestParts
    <3>3. thread[c].op # None /\ thread[c].op.kind = thread[c].req.kind
      BY <2>1, <2>2
    <3>4. booking'.action = thread[c].req.kind
      BY <1>5, <2>2, <3>3, WorkEffect DEF Effect
    <3>5. QED
      BY <2>1, <3>1, <3>2, <3>4
  <2>3. QED
    BY <1>1, <1>2, <2>1, <2>2
<1>6. ASSUME NEW c \in Threads, Goes(c), ~Serve(c), ~Work(c)
      PROVE  Observed'
  <2>1. /\ \A d \in Threads \ {c} : thread'[d] = thread[d]
        /\ thread'[c].at \notin {"serving", "answered"}
        /\ \/ page'.last \in {None, page.last}
           \/ /\ thread[c].at = "answered" /\ thread[c].answer = "ok"
              /\ thread[c].req.kind # "notify" /\ page'.last = PairOf(c)
    <3>1. CASE WaitOver(c)
      <4>1. page \in Pages /\ Send(c, page, thread[c].req, TRUE)
        BY <3>1 DEF WaitOver, Typed, TypeOK
      <4>2. QED
        BY <4>1, SendEffect
    <3>2. CASE Resume(c)
      BY <3>2, ResumeEffect
    <3>3. CASE ReadBooking(c)
      BY <3>3, ReadEffect
    <3>4. CASE Refreshed(c) \/ Reloaded(c) \/ TimesLoaded(c)
      BY <3>4, SettledEffect
    <3>5. QED
      BY <1>6, <3>1, <3>2, <3>3, <3>4 DEF Goes
  <2>2. ASSUME thread[c].at = "answered", thread[c].req.kind # "notify"
        PROVE  PairOf(c).rev = thread[c].saw.rev /\ PairOf(c).action = thread[c].req.kind
    <3>1. thread[c].req.kind \in Actions
      BY <2>2, HandlerParts, RequestParts DEF Typed, TypeOK, Ready
    <3>2. QED
      BY <3>1 DEF PairOf, Actions
  <2>3. PairIsReal'
    BY <1>1, <2>1, <2>2
  <2>4. QED
    BY <1>1, <1>2, <2>1, <2>3
<1>7. CASE Toggle \/ OthersBegin \/ OpenEnds
  <2>1. page'.last = page.last /\ thread' = thread
    BY <1>7 DEF Toggle, ClosePicker, ArmCancel, DisarmCancel, OthersBegin, OpenEnds, Typed, TypeOK, Pages
  <2>2. QED
    BY <1>1, <1>2, <2>1
<1>8. QED
  BY <1>3, <1>4, <1>5, <1>6, <1>7 DEF Next

LEMMA ObservedInit == Init => Observed
  BY DEF Init, Observed, PairIsReal, FreshPage, Idle, Actions

\* The pair a resend names is one the row really went through
\* (booking-controls-store.ts:54), though another worker may have made the change.
THEOREM PairStaysReal == Spec => []PairIsReal
<1>1. Spec => [](Typed /\ Observed)
  BY TypedInit, TypedInductive, ObservedInit, ObservedInductive, PTL DEF Spec
<1>2. Observed => PairIsReal
  BY DEF Observed
<1>3. QED
  BY <1>1, <1>2, PTL

\* Whatever is sent again, no change is made twice and none is named that was not made.
THEOREM ResendsStaySafe == Spec => []ResendsAreSafe
  BY NeverTwice, PairStaysReal, PTL DEF ResendsAreSafe
=============================================================================
