-------------------------- MODULE BookingLifecycle --------------------------
(***************************************************************************)
(* A booking's whole life: creates, replays, moves, cancels, repairs and   *)
(* reads interleaved step by step, over a calendar that may answer late,   *)
(* never or with a refusal, and a database that may lose a commit or its   *)
(* response.  A call may stop for ever at any step: nothing but its own    *)
(* next step and two minutes' time tells the others.                       *)
(***************************************************************************)
EXTENDS CreateFlow, RescheduleFlow, CancelFlow

NoEvent == [live |-> FALSE, ver |-> 0, start |-> None, att |-> None]

NoRow ==
  [status |-> "absent", start |-> None, rev |-> 0, action |-> None, gid |-> None, etag |-> None,
   cal |-> "pending", reserved |-> None, unfinished |-> None, unresolved |-> {}, op |-> NoOp]

\* A booking whose create finished, and one whose create T2' found the insert refused,
\* perhaps after a first insert that timed out and may still land.
MadeRow == [NoRow EXCEPT !.status = "confirmed", !.start = T0, !.rev = 1, !.action = "confirm",
                         !.gid = Origin, !.etag = 1, !.cal = "created"]
FailedRow == [MadeRow EXCEPT !.cal = "failed", !.etag = None]

OriginInsert == InsertReq(Origin, T0, <<Origin, 1>>)

History(h) ==
  \/ /\ h = "none"
     /\ row = NoRow /\ late = {} /\ cal = [e \in Ids |-> NoEvent]
  \/ /\ h = "made"
     /\ row = MadeRow /\ late = {}
     /\ cal = [e \in Ids |-> IF e = Origin
                 THEN [live |-> TRUE, ver |-> 1, start |-> T0, att |-> <<Origin, 1>>] ELSE NoEvent]
  \/ /\ h = "failed"
     /\ cal = [e \in Ids |-> NoEvent]
     /\ \/ row = FailedRow /\ late = {}
        \/ /\ row = [FailedRow EXCEPT !.unresolved = {[att |-> <<Origin, 1>>, ev |-> Origin]}]
           /\ late = {OriginInsert}

Init ==
  /\ wk = [w \in Workers |-> NewWorker]
  /\ edits = 0
  /\ \E s \in Scenarios : route = s.calls /\ world = s.world /\ History(s.history)

Step(w) ==
  /\ \/ SharedStep(w) \/ EndingStep(w)
     \/ CreateFlowStep(w) \/ RescheduleFlowStep(w) \/ CancelFlowStep(w)
  /\ UNCHANGED given

Next ==
  \/ \E w \in Workers : Step(w)
  \/ (TimePasses \/ LateExecutes \/ HostDeletes) /\ UNCHANGED given

Spec == Init /\ [][Next]_vars

\* Every HTTP call to Google and every transaction has a deadline, so a call that is
\* not killed takes its next step.
FairSpec == Spec /\ \A w \in Workers : WF_vars(Step(w))
-----------------------------------------------------------------------------
Operations ==
  [kind : {"none", "create", "reschedule", "cancel", "calendar_repair"},
   id : Ids \cup {None}, gen : Nat, stale : BOOLEAN, start : Starts \cup {None},
   event : Ids \cup {None}, old : Ids \cup {None}, etag : Nat \cup {None},
   fallback : Ids \cup {None}, attempts : Ledger]

BookingRows ==
  [status : {"absent", "confirmed", "cancelled"}, start : Starts \cup {None}, rev : Nat,
   action : Actions \cup {None}, gid : Ids \cup {None}, etag : Nat \cup {None},
   cal : {"pending", "created", "failed", "deleted"}, reserved : Starts \cup {None},
   unfinished : Creations \cup {None}, unresolved : SUBSET [att : Attempts, ev : Ids],
   op : Operations]

Events == [live : BOOLEAN, ver : Nat, start : Starts \cup {None}, att : Attempts \cup {None}]

CalendarRequests == [kind : {"insert", "patch", "delete"}, ev : Ids, start : Starts \cup {None},
                     att : Attempts \cup {None}, match : Nat \cup {None}]

Places ==
  {"start", "lost", "t1", "cancelT1", "done", "insert", "finish", "look", "t2", "t2fail", "settle",
   "rolledBack", "compensate", "clear", "superseded", "bump", "bumping", "observe", "patch",
   "reobserve", "fallback", "judge", "judged", "reconcile", "inherit", "replace", "calendar",
   "inherited", "removing", "remove", "removed", "delete", "deleted", "reap", "sweep",
   "sweepLook", "retire"}

WorkerStates ==
  [pc : Places, op : Operations, rev : Nat, pass : {0, 1}, start : Starts \cup {None}, n : Nat,
   at : Ids \cup {None}, tag : Nat \cup {None}, att : Attempts \cup {None},
   got : {"applied", "conflict", "refused", None}, seen : EventSeen \cup {None}, tries : Nat,
   todo : SUBSET Ids, then : Nexts \cup {None}, res : EventSeen \cup {None},
   own : OwnInserts \cup {None}, wrote : BOOLEAN, answer : Answers \cup {None}]

TypeOK ==
  /\ row \in BookingRows
  /\ cal \in [Ids -> Events]
  /\ late \subseteq CalendarRequests
  /\ world \in Worlds /\ route \in [Workers -> Routes]
  /\ wk \in [Workers -> WorkerStates]
  /\ edits \in 0 .. world.hostEdits
-----------------------------------------------------------------------------
\* CF-1 .. CF-3 (rows.ts:250): an unfinished creation is exactly a pending one, it is
\* always owned by an open operation, and a cancel carries no other.  Every T2, T2',
\* replacement and restoration of four operation kinds writes some of these columns.
CreationAccounted ==
  row.status # "absent" =>
    /\ row.cal = "pending" <=> row.action = None
    /\ row.op.kind = "none" => row.action # None
    /\ row.unfinished # None => row.action = None /\ row.op.kind \in {"create", "cancel"}

\* Every insert Google may still execute, because its worker is about to send it or
\* gave up on its answer, is on record as unresolved: in the open operation, in the
\* creation a cancel carries or in unresolved_inserts.  A crash loses none (C6.3b).
OnRecord(a) ==
  \/ \E x \in row.op.attempts : x.att = a /\ x.out = "unresolved"
  \/ row.unfinished # None /\ \E x \in row.unfinished.attempts : x.att = a /\ x.out = "unresolved"
  \/ \E u \in row.unresolved : u.att = a

InsertsOnRecord ==
  /\ \A r \in late : r.kind = "insert" => OnRecord(r.att)
  /\ \A w \in Workers : At(w, "insert") => OnRecord(wk[w].att)

\* Retired is absorbing (C6.3a): once an id is eligible for reaping it never becomes
\* the booking's event, nor the intended event of an operation that could adopt it.
RetiredStaysRetired ==
  [][\A e \in EligibleReapIds : e # LiveId' /\ e \notin IntendedIds(row.op)']_vars

\* A settled booking has its event: confirmed, calendar created and no operation open,
\* the event is live at the booking's start.  No delayed patch, delete, compensation
\* or reap of another call, however late, moves or removes it (C6.3c).
BookingHasItsEvent ==
  edits = 0 /\ row.status = "confirmed" /\ row.cal = "created" /\ row.op.kind = "none" =>
    Live(row.gid) /\ cal[row.gid].start = row.start

\* One live owner: no two calls hold the same operation under the same generation
\* (ops.ts:321), from takeover, replay, repair or a lost T1.
OneOwner ==
  \A v, w \in Workers :
    /\ v # w /\ wk[v].op.kind # "none" /\ wk[w].op.kind # "none"
    /\ wk[v].op.id = wk[w].op.id
    => wk[v].op.gen # wk[w].op.gen

\* Nothing is stranded on the host's calendar: a live Marlo event is the booking's,
\* is intended by the open operation, or is on record for a reap to find.
Accounted(e) ==
  \/ e = LiveId
  \/ e \in IntendedIds(row.op)
  \/ \E u \in row.unresolved : u.ev = e

NothingStranded == \A e \in Ids : Live(e) => Accounted(e)

\* Only a second move can strand an event: with one move at most, whatever else is
\* created, replayed, cancelled, repaired or lost, every live event is accounted for.
Moving == {w \in Workers : route[w] = "reschedule"}
StrandedByMovesOnly == Cardinality(Moving) <= 1 => NothingStranded

\* A call told that its transaction did not commit was told the truth (settle.ts:63):
\* no answer "failed" follows a completing update that is in the row.
FailedMeansUnwritten == \A w \in Workers : wk[w].answer = "failed" => ~wk[w].wrote

\* A success answered is a success recorded, whichever path found it: the call's own
\* T2, a commit recovered after its response was lost, a replay, or another call's
\* work met while superseded (create.ts:731, superseded.ts:94).  And superseded.ts:124
\* calls the terminal answer "superseded" unreachable for a create: a creation that did
\* not reach T2 is always still owned or carried by someone.
AnswersAreTrue ==
  \A w \in Workers :
    /\ wk[w].answer = "created" => row.action # None
    /\ wk[w].answer = "cancelled" => row.status = "cancelled"
    /\ route[w] = "create" => wk[w].answer # "superseded"

\* While a move is under way its event may stand at the old or the new time, and both
\* are the booking's: Google never shows the host busy at a time the database would
\* give to somebody else.
EventWithinHeldTime ==
  edits = 0 /\ LiveId # None /\ cal[LiveId].live =>
    cal[LiveId].start \in {row.start, row.reserved}

\* So Google and the row agree about the booking's event, at rest and on the way.
EventAgrees == BookingHasItsEvent /\ EventWithinHeldTime

\* Every call that starts answers: no state of the row or the calendar leaves a worker
\* without a next step, or going round for ever through takeovers and restarts.
EveryCallAnswers == \A w \in Workers : ~At(w, "start") ~> At(w, "done")
-----------------------------------------------------------------------------
\* The columns HostBookings reasons about, as this row has them.  A booking without a
\* row stands at the window its create asks for.
WindowAt(s) == [start |-> s, end |-> s + 1]
WindowOrNone(s) == IF s = None THEN None ELSE WindowAt(s)
Just(P) == IF P THEN {Origin} ELSE {}

Rows == INSTANCE HostBookings WITH
  Requests  <- {Origin},
  Keys      <- {Origin},
  Prints    <- {Origin},
  Windows   <- {WindowAt(s) : s \in Starts},
  WindowOf  <- [p \in {Origin} |-> WindowAt(T0)],
  status    <- [b \in {Origin} |-> row.status],
  window    <- [b \in {Origin} |-> WindowAt(IF row.start = None THEN T0 ELSE row.start)],
  reserved  <- [b \in {Origin} |-> WindowOrNone(row.reserved)],
  op        <- [b \in {Origin} |-> IF row.op.kind = "calendar_repair" THEN "none" ELSE row.op.kind],
  to        <- [b \in {Origin} |-> WindowOrNone(row.op.start)],
  finalized <- Just(row.action # None),
  carried   <- Just(row.unfinished # None),
  fences    <- {},
  key       <- [b \in {Origin} |-> Origin],
  print     <- [b \in {Origin} |-> Origin],
  stage     <- [b \in {Origin} |-> "done"],
  decided   <- {},
  target    <- [b \in {Origin} |-> Origin],
  answer    <- [b \in {Origin} |-> "none"]

\* Every step of every call, superseded or not, changes the row only as HostBookings
\* allows, on whose steps the absence of double bookings is proved.
RowsImplemented == Rows!RowsSpec
=============================================================================
