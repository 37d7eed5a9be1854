-------------------------- MODULE LifecycleOwnership --------------------------
(***************************************************************************)
(* The typing of the booking lifecycle, and who owns a booking's           *)
(* operation, proved for every number of calls.  Typing says what the row, *)
(* the calendar and every worker's memory may hold, and at which place of  *)
(* which flow a worker can be with what kind of operation.  Ownership:     *)
(* each step of a call is one of a few effects on the row (Effect), and    *)
(* those effects keep operations with the calls that minted them,          *)
(* superseded calls behind the row's generation, creations accounted for   *)
(* and answers true of the row.                                            *)
(***************************************************************************)
EXTENDS BookingLifecycle, TLAPS

Finishable == {"create", "calendar_repair", "reschedule"}

\* An operation names the ids its kind works on.
OpShape(o) ==
  /\ o.kind = "none" <=> o.id = None
  /\ o.kind = "none" => o = NoOp
  /\ o.kind \in {"create", "calendar_repair"} => o.event \in Ids
  /\ o.kind = "reschedule" => o.old \in Ids /\ o.fallback \in Ids /\ o.start \in Starts
  /\ o.kind = "cancel" => o.old \in Ids

RowShape ==
  /\ OpShape(row.op)
  /\ row.status = "absent" =>
       /\ row.op = NoOp /\ row.action = None /\ row.unfinished = None /\ row.unresolved = {}
       /\ row.start = None /\ row.gid = None /\ row.reserved = None /\ row.cal = "pending"
  /\ row.status # "absent" => row.gid \in Ids /\ row.start \in Starts

\* Which kinds of operation a worker may hold at each place of the flows.
KindFits(p, k, next) ==
  /\ p \in {"start", "lost", "t1", "cancelT1", "done"} => k = "none"
  /\ p \in {"insert", "finish", "look", "reconcile", "replace"} => k \in Finishable
  /\ p = "t2fail" => k = "create"
  /\ p \in {"t2", "settle", "rolledBack", "superseded"} => k # "none"
  /\ p = "clear" => k \in {"calendar_repair", "reschedule", "cancel"}
  /\ p \in {"compensate", "observe", "patch", "reobserve", "fallback", "judge", "judged", "inherit"}
       => k = "reschedule"
  /\ p \in {"calendar", "inherited", "removing", "remove", "removed", "delete", "deleted"}
       => k = "cancel"
  /\ p \in {"bump", "bumping"} =>
       \/ next \in {"judge", "judged"} /\ k = "reschedule"
       \/ next = "calendar" /\ k = "cancel"
       \/ next = "reconcile" /\ k \in Finishable
  /\ p \in {"reap", "sweep", "sweepLook", "retire"} =>
       \/ next \in Answers
       \/ next = "inherited" /\ k = "cancel"
       \/ next = "t1" /\ k = "none"
       \/ next = "go" /\ k \in {"create", "calendar_repair"}

\* Which of them a call of each route can reach.
RouteFits(p, k, next, c) ==
  /\ c = "create" => k \in {"none", "create"} /\ p \notin {"bump", "bumping", "reconcile", "replace"}
  /\ p = "lost" => c = "create"
  /\ p = "t1" => c = "reschedule"
  /\ p \in {"cancelT1", "reconcile", "replace", "inherit", "calendar"} => c = "cancel"
  /\ p \in {"bump", "bumping"} /\ next \in {"reconcile", "calendar"} => c = "cancel"
  /\ p \in {"reap", "sweep", "sweepLook", "retire"} =>
       (next = "t1" => c = "reschedule") /\ (next = "inherited" => c = "cancel")

\* What is in a worker's hand where it is about to be used.
HandFits(r) ==
  /\ r.pc \in {"insert", "finish"} => r.at \in Ids /\ r.att \in Attempts
  /\ r.pc = "look" /\ r.op.kind = "reschedule" => r.att \in Attempts
  /\ r.pc \in {"bumping", "sweep", "sweepLook", "remove", "delete"} => r.at \in Ids
  /\ r.pc = "insert" /\ r.op.kind = "create" => r.own \in OwnInserts
  /\ r.pc = "finish" /\ r.got = "applied" => r.own \in OwnInserts
  /\ r.pc = "t2" /\ r.op.kind \in Finishable => r.res \in EventSeen
  /\ r.pc \in {"settle", "rolledBack", "compensate"} /\ r.op.kind = "reschedule" => r.res \in EventSeen

WorkerShape(r, c) ==
  /\ OpShape(r.op)
  /\ KindFits(r.pc, r.op.kind, r.then)
  /\ RouteFits(r.pc, r.op.kind, r.then, c)
  /\ HandFits(r)

Remembered ==
  wk \in [Workers -> WorkerStates] /\ \A w \in Workers : WorkerShape(wk[w], route[w])

Shape == RowShape /\ \A w \in Workers : WorkerShape(wk[w], route[w])

Typed == TypeOK /\ Shape
-----------------------------------------------------------------------------
\* Setting a field of a worker's memory to a value of its type leaves a worker's memory.
LEMMA WorkerFields ==
  ASSUME NEW r \in WorkerStates
  PROVE  /\ \A p \in Places : [r EXCEPT !.pc = p] \in WorkerStates
         /\ \A o \in Operations : [r EXCEPT !.op = o] \in WorkerStates
         /\ \A i \in Nat : [r EXCEPT !.rev = i] \in WorkerStates
         /\ \A i \in Nat : [r EXCEPT !.n = i] \in WorkerStates
         /\ \A i \in Nat : [r EXCEPT !.tries = i] \in WorkerStates
         /\ \A i \in {0, 1} : [r EXCEPT !.pass = i] \in WorkerStates
         /\ \A s \in Starts \cup {None} : [r EXCEPT !.start = s] \in WorkerStates
         /\ \A e \in Ids \cup {None} : [r EXCEPT !.at = e] \in WorkerStates
         /\ \A i \in Nat \cup {None} : [r EXCEPT !.tag = i] \in WorkerStates
         /\ \A a \in Attempts \cup {None} : [r EXCEPT !.att = a] \in WorkerStates
         /\ \A g \in {"applied", "conflict", "refused", None} : [r EXCEPT !.got = g] \in WorkerStates
         /\ \A e \in EventSeen \cup {None} : [r EXCEPT !.seen = e] \in WorkerStates
         /\ \A e \in EventSeen \cup {None} : [r EXCEPT !.res = e] \in WorkerStates
         /\ \A d \in SUBSET Ids : [r EXCEPT !.todo = d] \in WorkerStates
         /\ \A x \in Nexts \cup {None} : [r EXCEPT !.then = x] \in WorkerStates
         /\ \A o \in OwnInserts \cup {None} : [r EXCEPT !.own = o] \in WorkerStates
         /\ \A b \in BOOLEAN : [r EXCEPT !.wrote = b] \in WorkerStates
         /\ \A a \in Answers \cup {None} : [r EXCEPT !.answer = a] \in WorkerStates
<1>1. \A p \in Places : [r EXCEPT !.pc = p] \in WorkerStates
  BY DEF WorkerStates
<1>2. \A o \in Operations : [r EXCEPT !.op = o] \in WorkerStates
  BY DEF WorkerStates
<1>3. \A i \in Nat : [r EXCEPT !.rev = i] \in WorkerStates
  BY DEF WorkerStates
<1>4. \A i \in Nat : [r EXCEPT !.n = i] \in WorkerStates
  BY DEF WorkerStates
<1>5. \A i \in Nat : [r EXCEPT !.tries = i] \in WorkerStates
  BY DEF WorkerStates
<1>6. \A i \in {0, 1} : [r EXCEPT !.pass = i] \in WorkerStates
  BY DEF WorkerStates
<1>7. \A s \in Starts \cup {None} : [r EXCEPT !.start = s] \in WorkerStates
  BY DEF WorkerStates
<1>8. \A e \in Ids \cup {None} : [r EXCEPT !.at = e] \in WorkerStates
  BY DEF WorkerStates
<1>9. \A i \in Nat \cup {None} : [r EXCEPT !.tag = i] \in WorkerStates
  BY DEF WorkerStates
<1>10. \A a \in Attempts \cup {None} : [r EXCEPT !.att = a] \in WorkerStates
  BY DEF WorkerStates
<1>11. \A g \in {"applied", "conflict", "refused", None} : [r EXCEPT !.got = g] \in WorkerStates
  BY DEF WorkerStates
<1>12. \A e \in EventSeen \cup {None} : [r EXCEPT !.seen = e] \in WorkerStates
  BY DEF WorkerStates
<1>13. \A e \in EventSeen \cup {None} : [r EXCEPT !.res = e] \in WorkerStates
  BY DEF WorkerStates
<1>14. \A d \in SUBSET Ids : [r EXCEPT !.todo = d] \in WorkerStates
  BY DEF WorkerStates
<1>15. \A x \in Nexts \cup {None} : [r EXCEPT !.then = x] \in WorkerStates
  BY DEF WorkerStates
<1>16. \A o \in OwnInserts \cup {None} : [r EXCEPT !.own = o] \in WorkerStates
  BY DEF WorkerStates
<1>17. \A b \in BOOLEAN : [r EXCEPT !.wrote = b] \in WorkerStates
  BY DEF WorkerStates
<1>18. \A a \in Answers \cup {None} : [r EXCEPT !.answer = a] \in WorkerStates
  BY DEF WorkerStates
<1> QED BY <1>1, <1>2, <1>3, <1>4, <1>5, <1>6, <1>7, <1>8, <1>9, <1>10, <1>11, <1>12, <1>13, <1>14, <1>15, <1>16, <1>17, <1>18

LEMMA WorkerParts ==
  \A r \in WorkerStates :
    /\ r.pc \in Places /\ r.op \in Operations /\ r.rev \in Nat /\ r.pass \in {0, 1}
    /\ r.start \in Starts \cup {None} /\ r.n \in Nat /\ r.at \in Ids \cup {None}
    /\ r.tag \in Nat \cup {None} /\ r.att \in Attempts \cup {None}
    /\ r.got \in {"applied", "conflict", "refused", None} /\ r.seen \in EventSeen \cup {None}
    /\ r.tries \in Nat /\ r.todo \in SUBSET Ids /\ r.then \in Nexts \cup {None}
    /\ r.res \in EventSeen \cup {None} /\ r.own \in OwnInserts \cup {None}
    /\ r.wrote \in BOOLEAN /\ r.answer \in Answers \cup {None}
  BY DEF WorkerStates

LEMMA NewWorkerTyped == NoOp \in Operations /\ NewWorker \in WorkerStates
<1>1. NoOp \in Operations
  BY DEF NoOp, Operations, Ledger
<1> QED BY <1>1 DEF NewWorker, WorkerStates, Places

\* The same of the row and of an operation.
LEMMA RowFields ==
  ASSUME NEW r \in BookingRows
  PROVE  /\ \A s \in {"absent", "confirmed", "cancelled"} : [r EXCEPT !.status = s] \in BookingRows
         /\ \A s \in Starts \cup {None} : [r EXCEPT !.start = s] \in BookingRows
         /\ \A i \in Nat : [r EXCEPT !.rev = i] \in BookingRows
         /\ \A a \in Actions \cup {None} : [r EXCEPT !.action = a] \in BookingRows
         /\ \A e \in Ids \cup {None} : [r EXCEPT !.gid = e] \in BookingRows
         /\ \A i \in Nat \cup {None} : [r EXCEPT !.etag = i] \in BookingRows
         /\ \A c \in {"pending", "created", "failed", "deleted"} : [r EXCEPT !.cal = c] \in BookingRows
         /\ \A s \in Starts \cup {None} : [r EXCEPT !.reserved = s] \in BookingRows
         /\ \A u \in Creations \cup {None} : [r EXCEPT !.unfinished = u] \in BookingRows
         /\ \A u \in SUBSET [att : Attempts, ev : Ids] : [r EXCEPT !.unresolved = u] \in BookingRows
         /\ \A o \in Operations : [r EXCEPT !.op = o] \in BookingRows
<1>1. \A s \in {"absent", "confirmed", "cancelled"} : [r EXCEPT !.status = s] \in BookingRows
  BY DEF BookingRows
<1>2. \A s \in Starts \cup {None} : [r EXCEPT !.start = s] \in BookingRows
  BY DEF BookingRows
<1>3. \A i \in Nat : [r EXCEPT !.rev = i] \in BookingRows
  BY DEF BookingRows
<1>4. \A a \in Actions \cup {None} : [r EXCEPT !.action = a] \in BookingRows
  BY DEF BookingRows
<1>5. \A e \in Ids \cup {None} : [r EXCEPT !.gid = e] \in BookingRows
  BY DEF BookingRows
<1>6. \A i \in Nat \cup {None} : [r EXCEPT !.etag = i] \in BookingRows
  BY DEF BookingRows
<1>7. \A c \in {"pending", "created", "failed", "deleted"} : [r EXCEPT !.cal = c] \in BookingRows
  BY DEF BookingRows
<1>8. \A s \in Starts \cup {None} : [r EXCEPT !.reserved = s] \in BookingRows
  BY DEF BookingRows
<1>9. \A u \in Creations \cup {None} : [r EXCEPT !.unfinished = u] \in BookingRows
  BY DEF BookingRows
<1>10. \A u \in SUBSET [att : Attempts, ev : Ids] : [r EXCEPT !.unresolved = u] \in BookingRows
  BY DEF BookingRows
<1>11. \A o \in Operations : [r EXCEPT !.op = o] \in BookingRows
  BY DEF BookingRows
<1> QED BY <1>1, <1>2, <1>3, <1>4, <1>5, <1>6, <1>7, <1>8, <1>9, <1>10, <1>11

LEMMA RowParts ==
  \A r \in BookingRows :
    /\ r.status \in {"absent", "confirmed", "cancelled"} /\ r.start \in Starts \cup {None}
    /\ r.rev \in Nat /\ r.action \in Actions \cup {None} /\ r.gid \in Ids \cup {None}
    /\ r.etag \in Nat \cup {None} /\ r.cal \in {"pending", "created", "failed", "deleted"}
    /\ r.reserved \in Starts \cup {None} /\ r.unfinished \in Creations \cup {None}
    /\ r.unresolved \in SUBSET [att : Attempts, ev : Ids] /\ r.op \in Operations
  BY DEF BookingRows

LEMMA OperationFields ==
  ASSUME NEW r \in Operations
  PROVE  /\ \A k \in {"none", "create", "reschedule", "cancel", "calendar_repair"} : [r EXCEPT !.kind = k] \in Operations
         /\ \A e \in Ids \cup {None} : [r EXCEPT !.id = e] \in Operations
         /\ \A i \in Nat : [r EXCEPT !.gen = i] \in Operations
         /\ \A b \in BOOLEAN : [r EXCEPT !.stale = b] \in Operations
         /\ \A s \in Starts \cup {None} : [r EXCEPT !.start = s] \in Operations
         /\ \A e \in Ids \cup {None} : [r EXCEPT !.event = e] \in Operations
         /\ \A e \in Ids \cup {None} : [r EXCEPT !.old = e] \in Operations
         /\ \A i \in Nat \cup {None} : [r EXCEPT !.etag = i] \in Operations
         /\ \A e \in Ids \cup {None} : [r EXCEPT !.fallback = e] \in Operations
         /\ \A a \in Ledger : [r EXCEPT !.attempts = a] \in Operations
<1>1. \A k \in {"none", "create", "reschedule", "cancel", "calendar_repair"} : [r EXCEPT !.kind = k] \in Operations
  BY DEF Operations
<1>2. \A e \in Ids \cup {None} : [r EXCEPT !.id = e] \in Operations
  BY DEF Operations
<1>3. \A i \in Nat : [r EXCEPT !.gen = i] \in Operations
  BY DEF Operations
<1>4. \A b \in BOOLEAN : [r EXCEPT !.stale = b] \in Operations
  BY DEF Operations
<1>5. \A s \in Starts \cup {None} : [r EXCEPT !.start = s] \in Operations
  BY DEF Operations
<1>6. \A e \in Ids \cup {None} : [r EXCEPT !.event = e] \in Operations
  BY DEF Operations
<1>7. \A e \in Ids \cup {None} : [r EXCEPT !.old = e] \in Operations
  BY DEF Operations
<1>8. \A i \in Nat \cup {None} : [r EXCEPT !.etag = i] \in Operations
  BY DEF Operations
<1>9. \A e \in Ids \cup {None} : [r EXCEPT !.fallback = e] \in Operations
  BY DEF Operations
<1>10. \A a \in Ledger : [r EXCEPT !.attempts = a] \in Operations
  BY DEF Operations
<1> QED BY <1>1, <1>2, <1>3, <1>4, <1>5, <1>6, <1>7, <1>8, <1>9, <1>10

LEMMA OperationParts ==
  \A o \in Operations :
    /\ o.kind \in {"none", "create", "reschedule", "cancel", "calendar_repair"}
    /\ o.id \in Ids \cup {None} /\ o.gen \in Nat /\ o.stale \in BOOLEAN
    /\ o.start \in Starts \cup {None} /\ o.event \in Ids \cup {None} /\ o.old \in Ids \cup {None}
    /\ o.etag \in Nat \cup {None} /\ o.fallback \in Ids \cup {None} /\ o.attempts \in Ledger
  BY DEF Operations

\* A worker's memory is replaced by one that fits its place; the others' stand.
LEMMA BecomeTyped ==
  ASSUME Typed, NEW w \in Workers, NEW r \in WorkerStates, WorkerShape(r, route[w]),
         Become(w, r), UNCHANGED given
  PROVE  Remembered'
BY DEF Become, Typed, TypeOK, Shape, Remembered, given

\* A finished call remembers nothing but its answer.
LEMMA EndTyped ==
  ASSUME Typed, NEW w \in Workers, NEW a \in Answers, End(w, a), UNCHANGED given
  PROVE  Remembered'
<1> DEFINE r == [NewWorker EXCEPT !.pc = "done", !.answer = a, !.wrote = wk[w].wrote]
<1>1. wk[w] \in WorkerStates /\ WorkerShape(wk[w], route[w])
  BY DEF Typed, TypeOK, Shape
<1>4. r \in WorkerStates
  BY <1>1, NewWorkerTyped, WorkerFields, WorkerParts DEF Places
<1>5. r.pc = "done" /\ r.op = NoOp
  BY DEF NewWorker
<1>6. WorkerShape(r, route[w])
  BY <1>5 DEF WorkerShape, OpShape, KindFits, RouteFits, HandFits, NoOp
<1>7. Become(w, r)
  BY DEF End
<1> QED BY <1>4, <1>6, <1>7, BecomeTyped

LEMMA RestartTyped ==
  ASSUME Typed, NEW w \in Workers, NEW rev \in Nat, Restart(w, rev), UNCHANGED given
  PROVE  Remembered'
<1> DEFINE r == [NewWorker EXCEPT !.pass = 1, !.rev = rev, !.n = wk[w].n]
<1>1. wk[w] \in WorkerStates
  BY DEF Typed, TypeOK
<1>2. CASE wk[w].pass > 0
  BY <1>2, EndTyped DEF Restart, Answers
<1>3. CASE ~(wk[w].pass > 0)
  <2>1. r \in WorkerStates
    BY <1>1, NewWorkerTyped, WorkerFields, WorkerParts
  <2>2. r.pc = "start" /\ r.op = NoOp
    BY DEF NewWorker
  <2>3. WorkerShape(r, route[w])
    BY <2>2 DEF WorkerShape, OpShape, KindFits, RouteFits, HandFits, NoOp
  <2> QED BY <1>3, <2>1, <2>3, BecomeTyped DEF Restart
<1> QED BY <1>2, <1>3

\* What Google does with a request keeps the calendar's types.
LEMMA AskTyped ==
  ASSUME Typed, NEW r \in CalendarRequests, NEW o, Ask(r, o)
  PROVE  cal' \in [Ids -> Events] /\ late' \subseteq CalendarRequests /\ edits' = edits
<1>1. Executed(r) \in [Ids -> Events]
  BY DEF Typed, TypeOK, Executed, Events, CalendarRequests
<1> QED BY <1>1 DEF Ask, Typed, TypeOK

\* A step that changes neither the row nor the calendar is typed by its worker's memory.
LEMMA MemoryStepTyped ==
  ASSUME Typed, UNCHANGED <<row, given>>,
         cal' \in [Ids -> Events], late' \subseteq CalendarRequests, edits' = edits,
         Remembered'
  PROVE  Typed'
BY DEF Typed, TypeOK, Shape, RowShape, Remembered, given
-----------------------------------------------------------------------------
LEMMA InsertTyped ==
  ASSUME Typed, NEW w \in Workers, Insert(w), UNCHANGED given
  PROVE  Typed'
<1> DEFINE q == InsertReq(wk[w].at, InsertStart(w), wk[w].att)
<1>1. wk[w] \in WorkerStates /\ WorkerShape(wk[w], route[w]) /\ wk[w].pc = "insert"
  BY DEF Typed, TypeOK, Shape, Insert, At
<1>2. q \in CalendarRequests
  BY <1>1 DEF InsertReq, InsertStart, CalendarRequests, WorkerStates, WorkerShape, HandFits, OpOf, Operations
<1>3. PICK o \in {"applied", "conflict", "refused", "timeout"} :
        /\ Ask(q, o)
        /\ IF o = "timeout" THEN End(w, "unknown")
           ELSE Become(w, [wk[w] EXCEPT
                  !.pc = "finish", !.got = o,
                  !.own = IF o = "applied" THEN OwnInsert(w, cal'[wk[w].at].ver) ELSE @])
  BY DEF Insert
<1>4. cal' \in [Ids -> Events] /\ late' \subseteq CalendarRequests /\ edits' = edits
  BY <1>2, <1>3, AskTyped
<1>5. CASE o = "timeout"
  BY <1>3, <1>4, <1>5, EndTyped, MemoryStepTyped DEF Insert, Answers
<1>6. CASE o # "timeout"
  <2> DEFINE own == IF o = "applied" THEN OwnInsert(w, cal'[wk[w].at].ver) ELSE wk[w].own
             r == [wk[w] EXCEPT !.pc = "finish", !.got = o, !.own = own]
  <2>1. wk[w].at \in Ids /\ wk[w].att \in Attempts /\ wk[w].op.kind \in Finishable
    BY <1>1 DEF WorkerShape, HandFits, KindFits
  <2>2. wk[w].op.kind = "create" => wk[w].own \in OwnInserts
    BY <1>1 DEF WorkerShape, HandFits
  <2>3. OwnInsert(w, cal'[wk[w].at].ver) \in OwnInserts
    BY <1>4, <2>1, <2>2 DEF OwnInsert, OwnInserts, Events, OpOf
  <2>4. own \in OwnInserts \cup {None} /\ (o = "applied" => own \in OwnInserts)
    BY <1>1, <2>3 DEF WorkerStates
  <2> HIDE DEF own
  <2>5. r \in WorkerStates
    BY <1>1, <1>6, <2>4, WorkerFields DEF Places
  <2>6. WorkerShape(r, route[w])
    BY <1>1, <1>6, <2>1, <2>4, <2>5 DEF WorkerShape, KindFits, RouteFits, HandFits, WorkerStates
  <2> QED BY <1>3, <1>4, <1>6, <2>5, <2>6, BecomeTyped, MemoryStepTyped DEF Insert, own
<1> QED BY <1>5, <1>6

LEMMA Known ==
  ASSUME Typed, NEW w \in Workers
  PROVE  /\ wk[w] \in WorkerStates /\ WorkerShape(wk[w], route[w]) /\ wk[w].op \in Operations
         /\ row \in BookingRows /\ RowShape /\ row.op \in Operations
         /\ cal \in [Ids -> Events] /\ route[w] \in Routes
BY WorkerParts, RowParts DEF Typed, TypeOK, Shape

\* A step of the row and of one worker's memory, that does not reach Google.
LEMMA RowStepTyped ==
  ASSUME Typed, NEW w \in Workers, NEW r \in WorkerStates, WorkerShape(r, route[w]), Become(w, r),
         row' \in BookingRows, RowShape', Outside, UNCHANGED given
  PROVE  Typed'
<1>1. Remembered'
  BY BecomeTyped
<1> QED BY <1>1 DEF Typed, TypeOK, Shape, Remembered, Outside, given

LEMMA StepTyped ==
  ASSUME Typed, NEW w \in Workers, NEW r \in WorkerStates, WorkerShape(r, route[w]), Become(w, r),
         Outside, UNCHANGED <<row, given>>
  PROVE  Typed'
BY RowStepTyped, Known DEF RowShape

LEMMA EndStepTyped ==
  ASSUME Typed, NEW w \in Workers, NEW a \in Answers, End(w, a), Outside, UNCHANGED <<row, given>>
  PROVE  Typed'
BY EndTyped, MemoryStepTyped DEF Outside, Typed, TypeOK, given

LEMMA RestartStepTyped ==
  ASSUME Typed, NEW w \in Workers, NEW i \in Nat, Restart(w, i), Outside, UNCHANGED <<row, given>>
  PROVE  Typed'
BY RestartTyped, MemoryStepTyped DEF Outside, Typed, TypeOK, given

\* Nobody owns the operation of a row that is not there.
LEMMA OwnerHasRow ==
  ASSUME Typed, NEW w \in Workers, wk[w].op.kind # "none", row.op.id = wk[w].op.id
  PROVE  row.status # "absent" /\ row.op.kind # "none" /\ wk[w].op.id # None
BY Known DEF WorkerShape, OpShape, RowShape, NoOp

\* An open operation is put in the row's column.
LEMMA OperationStepTyped ==
  ASSUME Typed, NEW o \in Operations, OpShape(o), row.status # "absent",
         row' = [row EXCEPT !.op = o]
  PROVE  row' \in BookingRows /\ RowShape'
<1>1. row \in BookingRows /\ RowShape
  BY DEF Typed, TypeOK, Shape
<1>2. row' \in BookingRows
  BY <1>1, RowFields
<1>3. row'.op = o /\ row'.status = row.status /\ row'.gid = row.gid /\ row'.start = row.start
  BY <1>1 DEF BookingRows
<1> QED BY <1>1, <1>2, <1>3 DEF RowShape

\* appendAttempt.
LEMMA AppendTyped ==
  ASSUME Typed, NEW w \in Workers, NEW e \in Ids, wk[w].op.kind \in Finishable, Owns(w),
         route[w] = "create" => wk[w].op.kind = "create",
         AppendInsert(w, e), Outside, UNCHANGED given
  PROVE  Typed'
<1> DEFINE a == <<w, wk[w].n + 1>>
           mine == IF wk[w].op.kind = "create" /\ wk[w].own = None
                     THEN [ev |-> e, att |-> a, tag |-> None] ELSE wk[w].own
           r == [wk[w] EXCEPT !.pc = "insert", !.at = e, !.att = a, !.n = @ + 1,
                              !.tries = @ + 1, !.own = mine]
           o == [row.op EXCEPT !.attempts = @ \cup {Attempt(a, e)}]
<1>1. a \in Attempts /\ wk[w].n + 1 \in Nat /\ wk[w].tries + 1 \in Nat
  BY Known, WorkerParts DEF Attempts, Ids
<1>2. mine \in OwnInserts \cup {None} /\ (wk[w].op.kind = "create" => mine \in OwnInserts)
  BY <1>1, Known, WorkerParts DEF OwnInserts
<1>3. Attempt(a, e) \in [att : Attempts, ev : Ids, out : {"unresolved", "applied", "rejected"}]
  BY <1>1 DEF Attempt
<1>4. row.op.attempts \cup {Attempt(a, e)} \in Ledger
  BY <1>3, Known, OperationParts DEF Ledger
<1>5. Become(w, r) /\ row' = [row EXCEPT !.op = o]
  BY DEF AppendInsert, OpOf
<1> HIDE DEF a, mine
<1>6. r \in WorkerStates
  <2> DEFINE next == [wk[w] EXCEPT !.pc = "insert", !.at = e, !.att = a]
  <2>1. "insert" \in Places /\ wk[w] \in WorkerStates
    BY Known DEF Places
  <2>2. next \in WorkerStates
    <3>1. e \in Ids \cup {None} /\ a \in Attempts \cup {None}
      BY <1>1
    <3> QED BY ONLY <2>1, <3>1 DEF WorkerStates
  <2>3. r = [next EXCEPT !.n = wk[w].n + 1, !.tries = wk[w].tries + 1, !.own = mine]
    BY ONLY <2>1 DEF WorkerStates
  <2> HIDE DEF next, r
  <2> QED BY ONLY <1>1, <1>2, <2>2, <2>3 DEF WorkerStates
<1>7. /\ r.pc = "insert" /\ r.op = wk[w].op /\ r.at = e /\ r.att = a /\ r.own = mine
      /\ r.then = wk[w].then
  BY Known DEF WorkerStates
<1>8. WorkerShape(r, route[w])
  BY <1>1, <1>2, <1>7, Known DEF WorkerShape, KindFits, RouteFits, HandFits
<1>9. o \in Operations
  BY <1>4, Known, OperationFields
<1>10. row.status # "absent" /\ row.op.kind # "none"
  BY OwnerHasRow DEF Owns, OpOf, Finishable
<1>11. OpShape(o)
  BY <1>10, Known DEF OpShape, RowShape, Operations
<1> HIDE DEF o
<1> QED BY <1>5, <1>6, <1>8, <1>9, <1>10, <1>11, OperationStepTyped, RowStepTyped

\* finishAttempt's resolution, and the retirement of an entry.
LEMMA ResolvedTyped ==
  ASSUME Typed, NEW w \in Workers, NEW outcome \in {"applied", "rejected"},
         wk[w].op.kind # "none", row' = Resolved(w, outcome)
  PROVE  row' \in BookingRows /\ RowShape'
<1>1. CASE row.op.id # wk[w].op.id
  BY <1>1, Known DEF Resolved, OpOf, RowShape
<1>2. CASE row.op.id = wk[w].op.id
  <2> DEFINE settled(x) == IF x.att = wk[w].att /\ x.out = "unresolved"
                             THEN [x EXCEPT !.out = outcome] ELSE x
             o == [row.op EXCEPT !.attempts = {settled(x) : x \in @}]
  <2>1. row.status # "absent" /\ row.op.kind # "none"
    BY <1>2, OwnerHasRow
  <2>2. \A x \in row.op.attempts :
          settled(x) \in [att : Attempts, ev : Ids, out : {"unresolved", "applied", "rejected"}]
    BY Known, OperationParts DEF Ledger
  <2>3. {settled(x) : x \in row.op.attempts} \in Ledger
    BY <2>2 DEF Ledger
  <2>4. row' = [row EXCEPT !.op = o]
    BY <1>2 DEF Resolved, OpOf
  <2>5. o \in Operations
    BY <2>3, Known, OperationFields
  <2>6. OpShape(o)
    BY <2>1, Known DEF OpShape, RowShape, Operations
  <2> QED BY <2>1, <2>4, <2>5, <2>6, OperationStepTyped
<1> QED BY <1>1, <1>2

LEMMA RetiredTyped ==
  ASSUME Typed, NEW a, RetireAttempt(a)
  PROVE  row' \in BookingRows /\ RowShape'
<1>1. row \in BookingRows /\ RowShape
  BY DEF Typed, TypeOK, Shape
<1>2. row' \in BookingRows
  BY <1>1, RowFields, RowParts DEF RetireAttempt
<1>3. /\ row'.op = row.op /\ row'.status = row.status /\ row'.gid = row.gid
      /\ row'.start = row.start /\ row'.action = row.action /\ row'.unfinished = row.unfinished
      /\ row'.reserved = row.reserved /\ row'.cal = row.cal
      /\ row'.unresolved \subseteq row.unresolved
  BY <1>1 DEF BookingRows, RetireAttempt
<1> QED BY <1>1, <1>2, <1>3 DEF RowShape

LEMMA FinishTyped ==
  ASSUME Typed, NEW w \in Workers, Finish(w), UNCHANGED given
  PROVE  Typed'
<1>1. wk[w].pc = "finish" /\ Outside
  BY DEF Finish, At
<1>2. wk[w].op.kind \in Finishable /\ wk[w].at \in Ids
  BY <1>1, Known DEF WorkerShape, KindFits, HandFits
<1>3. row' \in BookingRows /\ RowShape'
  BY <1>2, ResolvedTyped DEF Finish, Finishable
<1>4. CASE wk[w].got = "applied"
  <2> DEFINE r == [wk[w] EXCEPT !.pc = "t2", !.res = [ev |-> wk[w].at, tag |-> wk[w].own.tag]]
  <2>1. [ev |-> wk[w].at, tag |-> wk[w].own.tag] \in EventSeen
    BY <1>1, <1>2, <1>4, Known DEF WorkerShape, HandFits, OwnInserts, EventSeen
  <2>2. r \in WorkerStates
    BY <2>1, Known, WorkerFields DEF Places
  <2>3. WorkerShape(r, route[w])
    BY <1>1, <1>2, <2>1, Known DEF WorkerShape, KindFits, RouteFits, HandFits, WorkerStates, Finishable
  <2> QED BY <1>1, <1>3, <1>4, <2>2, <2>3, RowStepTyped DEF Finish
<1>5. CASE wk[w].got # "applied"
  <2> DEFINE p == IF wk[w].got = "conflict" THEN "look"
                  ELSE IF wk[w].op.kind = "create" THEN "t2fail" ELSE "clear"
             r == [wk[w] EXCEPT !.pc = p]
  <2>1. r \in WorkerStates
    BY Known, WorkerFields DEF Places
  <2>2. WorkerShape(r, route[w])
    BY <1>1, <1>2, Known DEF WorkerShape, KindFits, RouteFits, HandFits, WorkerStates, Finishable
  <2> QED BY <1>1, <1>3, <1>5, <2>1, <2>2, RowStepTyped DEF Finish, Goto, OpOf
<1> QED BY <1>4, <1>5

LEMMA LookTyped ==
  ASSUME Typed, NEW w \in Workers, Look(w), UNCHANGED given
  PROVE  Typed'
<1> DEFINE k == wk[w].op.kind
           e == IF k = "reschedule" THEN wk[w].op.fallback ELSE wk[w].op.event
           own == IF k = "reschedule" THEN [ev |-> e, att |-> wk[w].att, tag |-> cal[e].ver]
                  ELSE wk[w].own
<1>1. wk[w].pc = "look" /\ Outside
  BY DEF Look, At
<1>2. k \in Finishable /\ e \in Ids /\ (route[w] = "create" => k = "create")
  BY <1>1, Known DEF WorkerShape, KindFits, OpShape, Finishable, RouteFits
<1>3. CASE row' = row /\ Become(w, [wk[w] EXCEPT !.pc = "t2", !.res = Seen(e), !.own = own])
  <2>1. Seen(e) \in EventSeen /\ cal[e].ver \in Nat
    BY <1>2, Known DEF Seen, EventSeen, Events
  <2>2. own \in OwnInserts \cup {None}
    BY <1>1, <1>2, <2>1, Known, WorkerParts DEF WorkerShape, HandFits, OwnInserts
  <2> DEFINE r == [wk[w] EXCEPT !.pc = "t2", !.res = Seen(e), !.own = own]
  <2> HIDE DEF own
  <2>3. r \in WorkerStates
    BY <2>1, <2>2, Known, WorkerFields DEF Places
  <2>5. r.pc = "t2" /\ r.op = wk[w].op /\ r.res = Seen(e) /\ r.then = wk[w].then
    BY Known DEF WorkerStates
  <2> HIDE DEF r
  <2>4. WorkerShape(r, route[w])
    BY <1>1, <1>2, <2>1, <2>5, Known DEF WorkerShape, KindFits, RouteFits, HandFits, Finishable
  <2> QED BY <1>1, <1>3, <2>3, <2>4, StepTyped DEF r, own
<1>4. CASE Owns(w) /\ AppendInsert(w, e)
  BY <1>1, <1>2, <1>4, AppendTyped
<1>5. CASE row' = row /\ \E a \in {"in_progress", "unknown"} : End(w, a)
  BY <1>1, <1>5, EndStepTyped DEF Answers
<1>6. CASE row' = row /\ k # "create" /\ Goto(w, "clear")
  <2> DEFINE r == [wk[w] EXCEPT !.pc = "clear"]
  <2>1. r \in WorkerStates
    BY Known, WorkerFields DEF Places
  <2>2. WorkerShape(r, route[w])
    BY <1>1, <1>2, <1>6, Known DEF WorkerShape, KindFits, RouteFits, HandFits, WorkerStates, Finishable
  <2> QED BY <1>1, <1>6, <2>1, <2>2, StepTyped DEF Goto
<1> QED BY <1>3, <1>4, <1>5, <1>6 DEF Look, OpOf
-----------------------------------------------------------------------------
\* A worker that only changes its place.
LEMMA MovesOn ==
  ASSUME Typed, NEW w \in Workers, NEW p \in Places, WorkerShape([wk[w] EXCEPT !.pc = p], route[w]),
         Goto(w, p), UNCHANGED given
  PROVE  Remembered'
BY Known, WorkerFields, BecomeTyped DEF Goto

LEMMA MovesOnStep ==
  ASSUME Typed, NEW w \in Workers, NEW p \in Places, WorkerShape([wk[w] EXCEPT !.pc = p], route[w]),
         Goto(w, p), UNCHANGED <<row, given>>, Outside
  PROVE  Typed'
BY Known, WorkerFields, StepTyped DEF Goto

LEMMA BumpTyped ==
  ASSUME Typed, NEW w \in Workers, Bump(w), UNCHANGED given
  PROVE  Typed'
<1>1. wk[w].pc = "bump" /\ Outside /\ row' = row
  BY DEF Bump, At
<1>2. CASE Goto(w, wk[w].then)
  <2>1. wk[w].then \in {"judge", "judged", "calendar", "reconcile"}
    BY <1>1, Known DEF WorkerShape, KindFits
  <2>2. WorkerShape([wk[w] EXCEPT !.pc = wk[w].then], route[w])
    BY <1>1, <2>1, Known DEF WorkerShape, KindFits, RouteFits, HandFits, WorkerStates, Finishable
  <2> QED BY <1>1, <1>2, <2>1, <2>2, MovesOnStep DEF Places
<1>3. ASSUME NEW e \in wk[w].todo, Become(w, [wk[w] EXCEPT !.todo = @ \ {e}, !.seen = None])
      PROVE  Typed'
  <2> DEFINE r == [wk[w] EXCEPT !.todo = @ \ {e}, !.seen = None]
  <2>1. r \in WorkerStates
    BY Known, WorkerFields, WorkerParts
  <2>2. WorkerShape(r, route[w])
    BY <1>1, Known DEF WorkerShape, KindFits, RouteFits, HandFits, WorkerStates
  <2> QED BY <1>1, <1>3, <2>1, <2>2, StepTyped
<1>4. ASSUME NEW e \in wk[w].todo,
             Become(w, [wk[w] EXCEPT !.pc = "bumping", !.at = e, !.tag = cal[e].ver,
                                     !.todo = @ \ {e}])
      PROVE  Typed'
  <2> DEFINE r == [wk[w] EXCEPT !.pc = "bumping", !.at = e, !.tag = cal[e].ver, !.todo = @ \ {e}]
  <2>1. e \in Ids /\ cal[e].ver \in Nat /\ wk[w].todo \ {e} \in SUBSET Ids
    BY Known, WorkerParts DEF Events
  <2>2. r \in WorkerStates
    BY <2>1, Known, WorkerFields DEF Places
  <2>3. WorkerShape(r, route[w])
    BY <1>1, <2>1, Known DEF WorkerShape, KindFits, RouteFits, HandFits, WorkerStates
  <2> QED BY <1>1, <1>4, <2>2, <2>3, StepTyped
<1>5. CASE End(w, "superseded")
  BY <1>1, <1>5, EndStepTyped DEF Answers
<1> QED BY <1>2, <1>3, <1>4, <1>5 DEF Bump

LEMMA BumpingTyped ==
  ASSUME Typed, NEW w \in Workers, Bumping(w), UNCHANGED given
  PROVE  Typed'
<1> DEFINE q == BumpReq(wk[w].at, wk[w].tag)
           e == wk[w].at
           seen == IF cal'[e].live THEN [ev |-> e, tag |-> cal'[e].ver] ELSE None
           r == [wk[w] EXCEPT !.pc = "bump", !.seen = seen]
<1>1. wk[w].pc = "bumping" /\ row' = row
  BY DEF Bumping, At
<1>2. e \in Ids
  BY <1>1, Known DEF WorkerShape, HandFits
<1>3. q \in CalendarRequests
  BY <1>2, Known, WorkerParts DEF BumpReq, PatchReq, CalendarRequests
<1>4. PICK o \in {"applied", "stale", "gone", "refused", "timeout"} :
        /\ Ask(q, o)
        /\ IF o \in {"refused", "timeout"} THEN End(w, "unknown") ELSE Become(w, r)
  BY DEF Bumping
<1>5. cal' \in [Ids -> Events] /\ late' \subseteq CalendarRequests /\ edits' = edits
  BY <1>3, <1>4, AskTyped
<1>6. seen \in EventSeen \cup {None}
  BY <1>2, <1>5 DEF EventSeen, Events
<1> HIDE DEF seen
<1>7. r \in WorkerStates
  BY <1>6, Known, WorkerFields DEF Places
<1>8. WorkerShape(r, route[w])
  BY <1>1, Known DEF WorkerShape, KindFits, RouteFits, HandFits, WorkerStates
<1> QED BY <1>1, <1>4, <1>5, <1>7, <1>8, BecomeTyped, EndTyped, MemoryStepTyped DEF Answers

LEMMA EligibleTyped == Typed => EligibleReapIds \in SUBSET Ids
BY RowParts DEF Typed, TypeOK, EligibleReapIds

\* A worker that sets out to reap, and what it goes back to.
LEMMA BeginReapTyped ==
  ASSUME Typed, NEW w \in Workers, NEW next \in Answers \cup {"t1", "inherited"},
         next = "inherited" => wk[w].op.kind = "cancel" /\ route[w] = "cancel",
         next = "t1" => wk[w].op.kind = "none" /\ route[w] = "reschedule",
         NEW i \in Nat,
         Become(w, [wk[w] EXCEPT !.rev = i, !.pc = "reap", !.todo = EligibleReapIds, !.then = next]),
         Outside, UNCHANGED <<row, given>>
  PROVE  Typed'
<1> DEFINE r == [wk[w] EXCEPT !.rev = i, !.pc = "reap", !.todo = EligibleReapIds, !.then = next]
<1>1. r \in WorkerStates
  BY Known, EligibleTyped, WorkerFields DEF Places, Nexts
<1>2. r.pc = "reap" /\ r.then = next /\ r.op = wk[w].op
  BY Known DEF WorkerStates
<1>3. WorkerShape(r, route[w])
  BY <1>2, Known DEF WorkerShape, KindFits, RouteFits, HandFits, WorkerStates
<1> QED BY <1>1, <1>3, StepTyped

LEMMA ReapTyped ==
  ASSUME Typed, NEW w \in Workers, Reap(w), UNCHANGED given
  PROVE  Typed'
<1>1. wk[w].pc = "reap" /\ Outside /\ row' = row
  BY DEF Reap, At
<1>2. PICK e \in wk[w].todo :
        IF Live(e)
          THEN Become(w, [wk[w] EXCEPT !.pc = "sweep", !.at = e, !.tag = cal[e].ver,
                                       !.att = cal[e].att, !.tries = 0, !.todo = @ \ {e}])
          ELSE Become(w, [wk[w] EXCEPT !.todo = @ \ {e}])
  BY DEF Reap
<1>3. /\ e \in Ids /\ cal[e].ver \in Nat /\ cal[e].att \in Attempts \cup {None}
      /\ wk[w].todo \ {e} \in SUBSET Ids
  BY Known, WorkerParts DEF Events
<1>4. CASE Live(e)
  <2> DEFINE r == [wk[w] EXCEPT !.pc = "sweep", !.at = e, !.tag = cal[e].ver,
                                !.att = cal[e].att, !.tries = 0, !.todo = @ \ {e}]
  <2>1. r \in WorkerStates
    <3>1. "sweep" \in Places /\ wk[w] \in WorkerStates
      BY Known DEF Places
    <3> QED BY ONLY <1>3, <3>1 DEF WorkerStates
  <2>3. r.pc = "sweep" /\ r.at = e /\ r.op = wk[w].op /\ r.then = wk[w].then
    BY Known DEF WorkerStates
  <2> HIDE DEF r
  <2>2. WorkerShape(r, route[w])
    BY <1>1, <1>3, <2>3, Known DEF WorkerShape, KindFits, RouteFits, HandFits
  <2> QED BY <1>1, <1>2, <1>4, <2>1, <2>2, StepTyped DEF r
<1>5. CASE ~Live(e)
  <2> DEFINE r == [wk[w] EXCEPT !.todo = @ \ {e}]
  <2>1. r \in WorkerStates
    BY <1>3, Known, WorkerFields
  <2>2. WorkerShape(r, route[w])
    BY <1>1, Known DEF WorkerShape, KindFits, RouteFits, HandFits, WorkerStates
  <2> QED BY <1>1, <1>2, <1>5, <2>1, <2>2, StepTyped
<1> QED BY <1>4, <1>5

LEMMA DeleteRequestTyped ==
  ASSUME Typed, NEW w \in Workers, wk[w].at \in Ids
  PROVE  DeleteReq(wk[w].at, wk[w].tag) \in CalendarRequests
BY Known, WorkerParts DEF DeleteReq, CalendarRequests

LEMMA SweepTyped ==
  ASSUME Typed, NEW w \in Workers, Sweep(w), UNCHANGED given
  PROVE  Typed'
<1>1. wk[w].pc = "sweep" /\ row' = row /\ wk[w].at \in Ids
  BY Known DEF Sweep, At, WorkerShape, HandFits
<1>2. PICK o \in {"applied", "stale", "gone", "refused", "timeout"} :
        /\ Ask(DeleteReq(wk[w].at, wk[w].tag), o)
        /\ Goto(w, IF o \in {"applied", "gone"} THEN "retire"
                   ELSE IF o = "stale" /\ wk[w].tries = 0 THEN "sweepLook" ELSE "reap")
  BY DEF Sweep
<1>3. cal' \in [Ids -> Events] /\ late' \subseteq CalendarRequests /\ edits' = edits
  BY <1>1, <1>2, DeleteRequestTyped, AskTyped
<1>4. PICK p \in {"retire", "sweepLook", "reap"} : Goto(w, p)
  BY <1>2
<1>5. WorkerShape([wk[w] EXCEPT !.pc = p], route[w])
  BY <1>1, Known DEF WorkerShape, KindFits, RouteFits, HandFits, WorkerStates
<1> QED BY <1>1, <1>3, <1>4, <1>5, MovesOn, MemoryStepTyped DEF Places

LEMMA SweepLookTyped ==
  ASSUME Typed, NEW w \in Workers, SweepLook(w), UNCHANGED given
  PROVE  Typed'
<1>1. wk[w].pc = "sweepLook" /\ Outside /\ row' = row /\ wk[w].at \in Ids
  BY Known DEF SweepLook, At, WorkerShape, HandFits
<1>2. CASE Become(w, [wk[w] EXCEPT !.pc = "sweep", !.tag = cal[wk[w].at].ver, !.tries = 1])
  <2> DEFINE r == [wk[w] EXCEPT !.pc = "sweep", !.tag = cal[wk[w].at].ver, !.tries = 1]
  <2>1. cal[wk[w].at].ver \in Nat
    BY <1>1, Known DEF Events
  <2>2. r \in WorkerStates
    BY <2>1, Known, WorkerFields DEF Places
  <2>3. WorkerShape(r, route[w])
    BY <1>1, Known DEF WorkerShape, KindFits, RouteFits, HandFits, WorkerStates
  <2> QED BY <1>1, <1>2, <2>2, <2>3, StepTyped
<1>3. CASE Goto(w, "retire")
  <2>1. WorkerShape([wk[w] EXCEPT !.pc = "retire"], route[w])
    BY <1>1, Known DEF WorkerShape, KindFits, RouteFits, HandFits, WorkerStates
  <2> QED BY <1>1, <1>3, <2>1, MovesOnStep DEF Places
<1> QED BY <1>2, <1>3 DEF SweepLook

LEMMA RetireTyped ==
  ASSUME Typed, NEW w \in Workers, Retire(w), UNCHANGED given
  PROVE  Typed'
<1> DEFINE r == [wk[w] EXCEPT !.pc = "reap"]
<1>1. wk[w].pc = "retire" /\ Outside /\ Become(w, r)
  BY DEF Retire, At, Goto
<1>2. r \in WorkerStates
  BY Known, WorkerFields DEF Places
<1>3. WorkerShape(r, route[w])
  BY <1>1, Known DEF WorkerShape, KindFits, RouteFits, HandFits, WorkerStates
<1> QED BY <1>1, <1>2, <1>3, RetiredTyped, RowStepTyped DEF Retire
-----------------------------------------------------------------------------
LEMMA TransactionTyped ==
  ASSUME Typed, row' \in BookingRows, RowShape', Remembered', Outside, UNCHANGED given
  PROVE  Typed'
BY DEF Typed, TypeOK, Shape, Remembered, Outside, given

LEMMA ContinueTyped ==
  ASSUME Typed, NEW w \in Workers, Continue(w), UNCHANGED given
  PROVE  Remembered'
<1>1. CASE \E a \in {"created", "ok"} : End(w, a)
  BY <1>1, EndTyped DEF Answers
<1>2. CASE Restart(w, 0) \/ Restart(w, wk[w].rev)
  BY <1>2, RestartTyped, Known, WorkerParts
<1> QED BY <1>1, <1>2 DEF Continue

LEMMA DoneTyped ==
  ASSUME Typed, NEW w \in Workers, wk[w].op.kind # "none", Done(w), UNCHANGED given
  PROVE  Remembered'
<1>1. CASE Continue(w)
  BY <1>1, ContinueTyped
<1>2. CASE \E a \in {"cancelled", "moved", "changed"} : End(w, a)
  BY <1>2, EndTyped DEF Answers
<1>3. CASE Restart(w, wk[w].rev + 1)
  BY <1>3, RestartTyped, Known, WorkerParts
<1> QED BY <1>1, <1>2, <1>3, Known, OperationParts DEF Done, OpOf

LEMMA EndedTyped ==
  ASSUME Typed
  PROVE  Ended \in BookingRows /\ Retained \in SUBSET [att : Attempts, ev : Ids]
<1>1. row \in BookingRows /\ row.op.attempts \in Ledger
         /\ row.unresolved \in SUBSET [att : Attempts, ev : Ids]
  BY RowParts, OperationParts DEF Typed, TypeOK
<1>2. Retained \in SUBSET [att : Attempts, ev : Ids]
  BY <1>1 DEF Retained, Ledger
<1>3. Ended \in BookingRows
  BY <1>1, <1>2, NewWorkerTyped, RowFields DEF Ended
<1> QED BY <1>2, <1>3

LEMMA EndedParts ==
  ASSUME Typed
  PROVE  /\ Ended.op = NoOp /\ Ended.unresolved = Retained
         /\ Ended.status = row.status /\ Ended.gid = row.gid /\ Ended.start = row.start
         /\ Ended.rev = row.rev /\ Ended.action = row.action /\ Ended.etag = row.etag
         /\ Ended.cal = row.cal /\ Ended.reserved = row.reserved
         /\ Ended.unfinished = row.unfinished
BY DEF Typed, TypeOK, Ended, BookingRows

\* A completing update leaves a row with its event id and its start.
LEMMA CompletedTyped ==
  ASSUME Typed, NEW w \in Workers, wk[w].pc \in {"t2", "t2fail"}, Owns(w), row' = Completed(w)
  PROVE  row' \in BookingRows /\ RowShape'
<1> DEFINE k == wk[w].op.kind
<1>1. /\ k \in {"create", "reschedule", "cancel", "calendar_repair"}
      /\ wk[w].pc = "t2" /\ k # "cancel" => wk[w].res \in EventSeen
      /\ wk[w].pc = "t2fail" => k = "create"
      /\ k = "reschedule" => wk[w].op.start \in Starts
  BY Known, OperationParts DEF WorkerShape, KindFits, HandFits, OpShape, Finishable
<1>2. row.status # "absent" /\ row.op.kind # "none" /\ row.rev + 1 \in Nat
  BY <1>1, OwnerHasRow, Known, RowParts DEF Owns, OpOf
<1>3. OpShape(NoOp)
  BY DEF OpShape, NoOp
<1>4. CASE k = "create"
  <2> DEFINE out == IF At(w, "t2") THEN "created" ELSE "failed"
             tag == IF out = "created" THEN wk[w].res.tag ELSE row.etag
  <2>1. tag \in Nat \cup {None}
    BY <1>1, <1>4, Known, RowParts DEF At, EventSeen
  <2>2. row' = [Ended EXCEPT !.action = "confirm", !.cal = out, !.unfinished = None, !.etag = tag]
    BY <1>4, EndedParts DEF Completed, CompletedCreate, OpOf
  <2> HIDE DEF tag
  <2>3. row' \in BookingRows
    BY ONLY Typed, <2>1, <2>2, EndedTyped, RowFields DEF Actions
  <2>4. row'.op = NoOp /\ row'.status = row.status /\ row'.gid = row.gid /\ row'.start = row.start
    BY <2>2, EndedTyped, EndedParts DEF BookingRows
  <2> QED BY <1>2, <1>3, <2>3, <2>4, Known DEF RowShape
<1>5. CASE k = "calendar_repair"
  <2>1. wk[w].res.tag \in Nat \cup {None}
    BY <1>1, <1>5 DEF EventSeen
  <2>2. row' = [Ended EXCEPT !.cal = "created", !.etag = wk[w].res.tag]
    BY <1>5 DEF Completed, CompletedRepair, OpOf
  <2>3. row' \in BookingRows
    BY ONLY Typed, <2>1, <2>2, EndedTyped, RowFields
  <2>4. row'.op = NoOp /\ row'.status = row.status /\ row'.gid = row.gid /\ row'.start = row.start
    BY <2>2, EndedTyped, EndedParts DEF BookingRows
  <2> QED BY <1>2, <1>3, <2>3, <2>4, Known DEF RowShape
<1>6. CASE k = "reschedule"
  <2>1. wk[w].res.tag \in Nat \cup {None} /\ wk[w].res.ev \in Ids /\ Ended.rev + 1 \in Nat
    BY <1>1, <1>2, <1>6, EndedParts DEF EventSeen
  <2>2. row' = [Ended EXCEPT !.start = wk[w].op.start, !.gid = wk[w].res.ev,
                  !.etag = wk[w].res.tag, !.cal = "created", !.rev = @ + 1,
                  !.action = "reschedule", !.reserved = None]
    BY <1>6 DEF Completed, CompletedReschedule, OpOf
  <2>3. row' \in BookingRows
    <3>1. Ended \in BookingRows /\ "reschedule" \in Actions /\ wk[w].op.start \in Starts
      BY <1>1, <1>6, EndedTyped DEF Actions
    <3> QED BY ONLY <2>1, <2>2, <3>1 DEF BookingRows
  <2>4. row'.op = NoOp /\ row'.status = row.status /\ row'.gid = wk[w].res.ev
           /\ row'.start = wk[w].op.start
    BY <2>2, EndedTyped, EndedParts DEF BookingRows
  <2> QED BY <1>1, <1>2, <1>3, <1>6, <2>1, <2>3, <2>4 DEF RowShape
<1>7. CASE k = "cancel"
  <2>1. Ended.rev + 1 \in Nat
    BY <1>2, EndedParts
  <2>2. row' = [Ended EXCEPT !.status = "cancelled", !.cal = "deleted", !.rev = @ + 1,
                  !.action = "cancel", !.unfinished = None, !.reserved = None]
    BY <1>7 DEF Completed, CompletedCancel, OpOf
  <2>3. row' \in BookingRows
    BY ONLY Typed, <2>1, <2>2, EndedTyped, RowFields DEF Actions
  <2>4. row'.op = NoOp /\ row'.status = "cancelled" /\ row'.gid = row.gid /\ row'.start = row.start
    BY <2>2, EndedTyped, EndedParts DEF BookingRows
  <2> QED BY <1>2, <1>3, <2>3, <2>4, Known DEF RowShape
<1> QED BY <1>1, <1>4, <1>5, <1>6, <1>7

LEMMA NotOwnerTyped ==
  ASSUME Typed, NEW w \in Workers, wk[w].op.kind # "none", NotOwner(w), UNCHANGED given
  PROVE  Remembered'
<1>1. CASE Restart(w, wk[w].rev + 1)
  BY <1>1, RestartTyped, Known, WorkerParts
<1>2. CASE End(w, "in_progress")
  BY <1>2, EndTyped DEF Answers
<1>3. CASE Become(w, [wk[w] EXCEPT !.pc = "superseded", !.got = IF At(w, "t2") THEN "applied" ELSE @])
  <2> DEFINE g == IF At(w, "t2") THEN "applied" ELSE wk[w].got
             r == [wk[w] EXCEPT !.pc = "superseded", !.got = g]
  <2>1. r \in WorkerStates
    BY Known, WorkerFields, WorkerParts DEF Places
  <2>2. WorkerShape(r, route[w])
    BY Known DEF WorkerShape, KindFits, RouteFits, HandFits, WorkerStates
  <2> QED BY <1>3, <2>1, <2>2, BecomeTyped
<1> QED BY <1>1, <1>2, <1>3 DEF NotOwner

LEMMA T2Typed ==
  ASSUME Typed, NEW w \in Workers, T2(w), UNCHANGED given
  PROVE  Typed'
<1>1. wk[w].pc \in {"t2", "t2fail"} /\ Outside
  BY DEF T2, At
<1>2. wk[w].op.kind # "none"
  BY <1>1, Known DEF WorkerShape, KindFits
<1>3. CASE NotOwner(w) /\ UNCHANGED row
  BY <1>1, <1>2, <1>3, NotOwnerTyped, TransactionTyped, Known DEF RowShape
<1>4. CASE Owns(w) /\ row' = Completed(w) /\ Done(w)
  BY <1>1, <1>2, <1>4, CompletedTyped, DoneTyped, TransactionTyped
<1>5. CASE Owns(w) /\ row' = Completed(w) /\ Become(w, [wk[w] EXCEPT !.pc = "settle", !.wrote = TRUE])
  <2> DEFINE r == [wk[w] EXCEPT !.pc = "settle", !.wrote = TRUE]
  <2>1. r \in WorkerStates
    BY Known, WorkerFields DEF Places
  <2>2. WorkerShape(r, route[w])
    BY <1>1, <1>2, Known DEF WorkerShape, KindFits, RouteFits, HandFits, WorkerStates, Finishable
  <2> QED BY <1>1, <1>5, <2>1, <2>2, BecomeTyped, CompletedTyped, TransactionTyped
<1>6. ASSUME NEW p \in {"settle", "rolledBack"}, Goto(w, p), UNCHANGED row
      PROVE  Typed'
  <2>1. WorkerShape([wk[w] EXCEPT !.pc = p], route[w])
    BY <1>1, <1>2, Known DEF WorkerShape, KindFits, RouteFits, HandFits, WorkerStates, Finishable
  <2> QED BY <1>1, <1>6, <2>1, MovesOnStep DEF Places
<1> QED BY <1>3, <1>4, <1>5, <1>6 DEF T2

LEMMA SettleTyped ==
  ASSUME Typed, NEW w \in Workers, Settle(w), UNCHANGED given
  PROVE  Typed'
<1>1. wk[w].pc = "settle" /\ Outside /\ row' = row
  BY DEF Settle, At
<1>2. wk[w].op.kind # "none"
  BY <1>1, Known DEF WorkerShape, KindFits
<1>3. CASE Done(w)
  BY <1>1, <1>2, <1>3, DoneTyped, TransactionTyped, Known DEF RowShape
<1>4. CASE Goto(w, "rolledBack")
  <2>1. WorkerShape([wk[w] EXCEPT !.pc = "rolledBack"], route[w])
    BY <1>1, <1>2, Known DEF WorkerShape, KindFits, RouteFits, HandFits, WorkerStates
  <2> QED BY <1>1, <1>4, <2>1, MovesOnStep DEF Places
<1> QED BY <1>3, <1>4 DEF Settle

LEMMA RolledBackTyped ==
  ASSUME Typed, NEW w \in Workers, RolledBack(w), UNCHANGED given
  PROVE  Typed'
<1>1. wk[w].pc = "rolledBack" /\ Outside /\ row' = row
  BY DEF RolledBack, At
<1>2. CASE wk[w].op.kind = "reschedule" /\ Goto(w, "compensate")
  <2>1. WorkerShape([wk[w] EXCEPT !.pc = "compensate"], route[w])
    BY <1>1, <1>2, Known DEF WorkerShape, KindFits, RouteFits, HandFits, WorkerStates
  <2> QED BY <1>1, <1>2, <2>1, MovesOnStep DEF Places
<1>3. CASE End(w, "failed")
  BY <1>1, <1>3, EndStepTyped DEF Answers
<1> QED BY <1>2, <1>3 DEF RolledBack, OpOf

LEMMA CompensateTyped ==
  ASSUME Typed, NEW w \in Workers, Compensate(w), UNCHANGED given
  PROVE  Typed'
<1> DEFINE q == IF wk[w].own # None THEN DeleteReq(wk[w].own.ev, wk[w].own.tag)
                ELSE PatchReq(wk[w].op.old, wk[w].start, wk[w].res.tag)
<1>1. wk[w].pc = "compensate" /\ row' = row /\ End(w, "failed")
  BY DEF Compensate, At
<1>2. wk[w].op.old \in Ids /\ wk[w].res \in EventSeen
  BY <1>1, Known DEF WorkerShape, KindFits, HandFits, OpShape
<1>3. wk[w].own # None => wk[w].own \in OwnInserts
  BY Known, WorkerParts
<1>4. q \in CalendarRequests
  BY <1>2, <1>3, Known, WorkerParts
     DEF DeleteReq, PatchReq, CalendarRequests, OwnInserts, EventSeen
<1>5. \E o : Ask(q, o)
  BY DEF Compensate, OpOf
<1> QED BY <1>1, <1>4, <1>5, AskTyped, EndTyped, MemoryStepTyped DEF Answers

LEMMA RestoredTyped ==
  ASSUME Typed, row.unfinished # None
  PROVE  RestoredCreate \in Operations /\ OpShape(RestoredCreate)
<1>1. row.unfinished \in Creations /\ row.op \in Operations
  BY RowParts DEF Typed, TypeOK
<1>2. Larger(row.unfinished.gen, row.op.gen) + 1 \in Nat
  BY <1>1, OperationParts DEF Larger, Creations
<1>3. row.unfinished.attempts \cup {x \in row.op.attempts : x.out = "unresolved"} \in Ledger
  BY <1>1, OperationParts DEF Ledger, Creations
<1>4. row.unfinished.id \in Ids /\ row.unfinished.ev \in Ids
  BY <1>1 DEF Creations
<1>5. RestoredCreate \in Operations
  BY ONLY <1>2, <1>3, <1>4, OperationFields, NewWorkerTyped DEF RestoredCreate
<1>6. RestoredCreate.kind = "create" /\ RestoredCreate.id = row.unfinished.id
         /\ RestoredCreate.event = row.unfinished.ev
  BY DEF RestoredCreate, NoOp
<1> QED BY <1>4, <1>5, <1>6, NoneIsNoValue DEF OpShape

LEMMA ClearedTyped ==
  ASSUME Typed, NEW w \in Workers, wk[w].pc = "clear", Owns(w), row' = Cleared(w)
  PROVE  row' \in BookingRows /\ RowShape'
<1>1. wk[w].op.kind \in {"calendar_repair", "reschedule", "cancel"}
  BY Known DEF WorkerShape, KindFits
<1>2. row.status # "absent" /\ row.op.kind # "none" /\ OpShape(NoOp)
  BY <1>1, OwnerHasRow DEF Owns, OpOf, OpShape, NoOp
<1>3. CASE row' = Ended
  BY <1>2, <1>3, EndedTyped, EndedParts, Known DEF RowShape
<1>4. CASE row' = [Ended EXCEPT !.reserved = None]
  <2>1. row' \in BookingRows
    BY ONLY Typed, <1>4, EndedTyped, RowFields
  <2>2. row'.op = NoOp /\ row'.status = row.status /\ row'.gid = row.gid /\ row'.start = row.start
    BY <1>4, EndedTyped, EndedParts DEF BookingRows
  <2> QED BY <1>2, <2>1, <2>2, Known DEF RowShape
<1>5. CASE row.unfinished # None /\ row' = [Ended EXCEPT !.op = RestoredCreate]
  <2>1. row' \in BookingRows
    BY ONLY Typed, <1>5, EndedTyped, RestoredTyped, RowFields
  <2>2. row'.op = RestoredCreate /\ row'.status = row.status /\ row'.gid = row.gid
           /\ row'.start = row.start
    BY <1>5, EndedTyped, EndedParts DEF BookingRows
  <2> QED BY <1>2, <1>5, <2>1, <2>2, RestoredTyped, Known DEF RowShape
<1> QED BY <1>1, <1>3, <1>4, <1>5 DEF Cleared, OpOf

LEMMA ClearTyped ==
  ASSUME Typed, NEW w \in Workers, Clear(w), UNCHANGED given
  PROVE  Typed'
<1>1. wk[w].pc = "clear" /\ Outside
  BY DEF Clear, At
<1>2. CASE row' = (IF Owns(w) THEN Cleared(w) ELSE row) /\ AfterClear(w)
  <2>1. row' \in BookingRows /\ RowShape'
    BY <1>1, <1>2, ClearedTyped, Known DEF RowShape
  <2>2. Remembered'
    BY <1>2, ContinueTyped, RestartTyped, EndTyped, Known, WorkerParts DEF AfterClear, Answers
  <2> QED BY <1>1, <2>1, <2>2, TransactionTyped
<1>3. CASE UNCHANGED row /\ End(w, "failed")
  BY <1>1, <1>3, EndStepTyped DEF Answers
<1> QED BY <1>2, <1>3 DEF Clear

LEMMA GoOnTyped ==
  ASSUME Typed, NEW w \in Workers, NEW next,
         \/ next \in Answers \cup {"go"}
         \/ next = "inherited" /\ wk[w].op.kind = "cancel" /\ wk[w].pc = "reap"
         \/ next = "t1" /\ wk[w].op.kind = "none" /\ route[w] = "reschedule",
         GoOn(w, next), UNCHANGED given
  PROVE  Remembered'
<1>1. CASE next = "go"
  BY <1>1, ContinueTyped DEF GoOn
<1>2. CASE next \in Answers
  BY <1>2, EndTyped DEF GoOn, Answers
<1>3. CASE next \in {"t1", "inherited"} /\ next \notin Answers
  <2>1. WorkerShape([wk[w] EXCEPT !.pc = next], route[w])
    BY <1>3, Known DEF WorkerShape, KindFits, RouteFits, HandFits, WorkerStates, Answers
  <2> QED BY <1>3, <2>1, MovesOn DEF GoOn, Places
<1> QED BY <1>1, <1>2, <1>3 DEF Answers

LEMMA SupersededTyped ==
  ASSUME Typed, NEW w \in Workers, Superseded(w), UNCHANGED given
  PROVE  Typed'
<1> DEFINE own == wk[w].own
           a == SupersededAnswer(w)
           next == [wk[w] EXCEPT !.todo = {}, !.then = a, !.att = own.att]
<1>1. wk[w].pc = "superseded" /\ Outside /\ row' = row
  BY DEF Superseded, At
<1>2. wk[w].op.kind # "none" /\ wk[w].own \in OwnInserts \cup {None}
  BY <1>1, Known, WorkerParts DEF WorkerShape, KindFits
<1>3. a \in Answers \cup {"go"} /\ (a = "go" => wk[w].op.kind \in {"create", "calendar_repair"})
  BY <1>2, Known, OperationParts DEF SupersededAnswer, OpOf, Answers
<1>4. CASE GoOn(w, a)
  BY <1>1, <1>3, <1>4, GoOnTyped, TransactionTyped, Known DEF RowShape
<1>5. CASE own # None /\ Become(w, [next EXCEPT !.pc = "sweep", !.at = own.ev, !.tag = own.tag, !.tries = 0])
  <2> DEFINE r == [next EXCEPT !.pc = "sweep", !.at = own.ev, !.tag = own.tag, !.tries = 0]
  <2>1. own.ev \in Ids /\ own.att \in Attempts /\ own.tag \in Nat \cup {None}
    BY <1>2, <1>5 DEF OwnInserts
  <2>2. r.pc = "sweep" /\ r.at = own.ev /\ r.then = a /\ r.op = wk[w].op
    BY Known DEF WorkerStates
  <2> HIDE DEF a
  <2>3. r \in WorkerStates
    <3>1. "sweep" \in Places /\ a \in Nexts /\ wk[w] \in WorkerStates
      BY <1>3, Known DEF Places, Nexts
    <3> QED BY ONLY <2>1, <3>1 DEF WorkerStates
  <2> HIDE DEF r
  <2>4. WorkerShape(r, route[w])
    BY <1>1, <1>3, <2>1, <2>2, Known DEF WorkerShape, KindFits, RouteFits, HandFits, Answers
  <2> QED BY <1>1, <1>5, <2>3, <2>4, StepTyped DEF r
<1>6. CASE own # None /\ Become(w, [next EXCEPT !.pc = "retire"])
  <2> DEFINE r == [next EXCEPT !.pc = "retire"]
  <2>1. own.att \in Attempts
    BY <1>2, <1>6 DEF OwnInserts
  <2>2. r.pc = "retire" /\ r.then = a /\ r.op = wk[w].op
    BY Known DEF WorkerStates
  <2> HIDE DEF a
  <2>3. r \in WorkerStates
    BY <1>3, <2>1, Known, WorkerFields DEF Places, Nexts
  <2> HIDE DEF r
  <2>4. WorkerShape(r, route[w])
    BY <1>1, <1>3, <2>2, Known DEF WorkerShape, KindFits, RouteFits, HandFits, Answers
  <2> QED BY <1>1, <1>6, <2>3, <2>4, StepTyped DEF r
<1> QED BY <1>4, <1>5, <1>6 DEF Superseded, CleanupEligible

LEMMA SweptTyped ==
  ASSUME Typed, NEW w \in Workers, Swept(w), UNCHANGED given
  PROVE  Typed'
<1>1. wk[w].pc = "reap" /\ Outside /\ row' = row /\ GoOn(w, wk[w].then)
  BY DEF Swept, At
<1>2. \/ wk[w].then \in Answers \cup {"go"}
      \/ wk[w].then = "inherited" /\ wk[w].op.kind = "cancel" /\ wk[w].pc = "reap"
      \/ wk[w].then = "t1" /\ wk[w].op.kind = "none" /\ route[w] = "reschedule"
  BY <1>1, Known DEF WorkerShape, KindFits, RouteFits
<1> QED BY <1>1, <1>2, GoOnTyped, TransactionTyped, Known DEF RowShape
-----------------------------------------------------------------------------
\* A takeover hands the row's operation to the worker, one generation up.
LEMMA TakeOverTyped ==
  ASSUME Typed, NEW w \in Workers, NEW ids \in SUBSET Ids, NEW p, row.op.kind # "none",
         wk[w].pc \in {"start", "lost", "t1", "cancelT1"},
         \/ p = "look" /\ ids = {} /\ row.op.kind \in {"create", "calendar_repair"}
            /\ (route[w] = "create" => row.op.kind = "create")
         \/ p = "judge" /\ row.op.kind = "reschedule" /\ route[w] = "reschedule"
         \/ p = "calendar" /\ row.op.kind = "cancel" /\ route[w] = "cancel"
         \/ p = "reconcile" /\ row.op.kind \in Finishable /\ route[w] = "cancel",
         TakeOver(w, ids, p), Outside, UNCHANGED given
  PROVE  Typed'
<1> DEFINE o == TakenOver
           q == IF ids = {} THEN p ELSE "bump"
           r == [wk[w] EXCEPT !.op = o, !.start = row.start, !.todo = ids, !.then = p,
                              !.pc = q, !.tries = 0, !.own = None]
<1>0. row.op \in Operations /\ row.op.gen + 1 \in Nat
  BY Known, OperationParts
<1>1. o \in Operations
  BY ONLY <1>0, OperationFields DEF TakenOver
<1>2. /\ o.kind = row.op.kind /\ o.id = row.op.id /\ o.event = row.op.event /\ o.old = row.op.old
      /\ o.fallback = row.op.fallback /\ o.start = row.op.start
  BY Known DEF TakenOver, Operations
<1>3. OpShape(o)
  BY <1>2, Known DEF RowShape, OpShape
<1>4. row.status # "absent"
  BY Known DEF RowShape, NoOp
<1>5. Become(w, r) /\ row' = [row EXCEPT !.op = o]
  BY DEF TakeOver
<1> HIDE DEF o
<1>6. q \in Places /\ p \in Nexts /\ row.start \in Starts \cup {None}
  BY Known, RowParts DEF Places, Nexts
<1>7. r.pc = q /\ r.then = p /\ r.op = o
  BY Known DEF WorkerStates
<1> HIDE DEF r
<1>8. WorkerShape(r, route[w])
  <2>1. HandFits(r)
    BY <1>2, <1>3, <1>7, Known DEF WorkerShape, HandFits, KindFits, RouteFits
  <2>2. KindFits(r.pc, r.op.kind, r.then)
    BY <1>2, <1>7, Known DEF WorkerShape, KindFits, RouteFits, Finishable
  <2>3. RouteFits(r.pc, r.op.kind, r.then, route[w])
    BY <1>2, <1>7, Known DEF WorkerShape, KindFits, RouteFits
  <2> QED BY <1>3, <1>7, <2>1, <2>2, <2>3 DEF WorkerShape
<1> HIDE DEF q
<1>9. wk[w] \in WorkerStates /\ ids \in SUBSET Ids
  BY Known
<1>10. r \in WorkerStates
  BY ONLY <1>1, <1>6, <1>9, WorkerFields DEF r
<1> QED BY <1>1, <1>3, <1>4, <1>5, <1>8, <1>10, OperationStepTyped, RowStepTyped DEF r

\* The operation a transaction begins.
LEMMA BegunTyped ==
  ASSUME NEW kind \in {"create", "reschedule", "cancel", "calendar_repair"}, NEW id \in Ids
  PROVE  /\ BeginOp(kind, id) \in Operations
         /\ BeginOp(kind, id).kind = kind /\ BeginOp(kind, id).id = id
<1>1. BeginOp(kind, id) \in Operations
  BY ONLY NewWorkerTyped, OperationFields DEF BeginOp
<1> QED BY <1>1 DEF BeginOp, NoOp

LEMMA FreshTyped ==
  ASSUME Typed, NEW w \in Workers
  PROVE  FreshRow(w) \in BookingRows /\ FreshRow(w).op \in Operations
<1> DEFINE a == {Attempt(<<w, 1>>, w)}
           o == [BeginOp("create", w) EXCEPT !.event = w, !.attempts = a]
<1>1. a \in Ledger /\ w \in Ids /\ T0 \in Starts
  BY DEF Ledger, Attempt, Attempts, Ids, Starts
<1>2. BeginOp("create", w) \in Operations
  BY <1>1, BegunTyped
<1> HIDE DEF a
<1>3. o \in Operations
  BY ONLY <1>1, <1>2, OperationFields
<1>4. FreshRow(w).op = o
  BY DEF FreshRow, a
<1> HIDE DEF o
<1>5. FreshRow(w) = [status |-> "confirmed", start |-> T0, rev |-> 1, action |-> None, gid |-> w,
                     etag |-> None, cal |-> "pending", reserved |-> None, unfinished |-> None,
                     unresolved |-> {}, op |-> o]
  BY DEF FreshRow, a, o
<1>6. FreshRow(w) \in BookingRows
  BY <1>1, <1>3, <1>5 DEF BookingRows
<1> QED BY <1>3, <1>4, <1>6

LEMMA FreshShape ==
  ASSUME Typed, NEW w \in Workers, row' = FreshRow(w)
  PROVE  RowShape' /\ OpShape(row'.op) /\ row'.op.kind = "create"
<1>1. w \in Ids /\ T0 \in Starts /\ w # None
  BY NoneIsNoValue DEF Ids, Starts
<1>2. /\ row'.op.kind = "create" /\ row'.op.id = w /\ row'.op.event = w
      /\ row'.status = "confirmed" /\ row'.gid = w /\ row'.start = T0
  BY DEF FreshRow, BeginOp, NoOp
<1> QED BY <1>1, <1>2 DEF RowShape, OpShape

\* A create whose T1 is known to have committed goes on to its insert.
LEMMA CreatedTyped ==
  ASSUME Typed, NEW w \in Workers, wk[w].pc \in {"start", "lost"}, route[w] = "create",
         NEW o \in Operations, OpShape(o), o.kind = "create"
  PROVE  Created(w, o) \in WorkerStates /\ WorkerShape(Created(w, o), route[w])
<1> DEFINE own == [ev |-> w, att |-> <<w, 1>>, tag |-> None]
           r == [wk[w] EXCEPT !.pc = "insert", !.op = o, !.start = T0, !.at = w, !.att = <<w, 1>>,
                              !.n = 1, !.tries = 1, !.own = own]
<1>1. w \in Ids /\ T0 \in Starts /\ <<w, 1>> \in Attempts /\ own \in OwnInserts
  BY DEF Ids, Starts, Attempts, OwnInserts
<1>2. Created(w, o) = r /\ wk[w] \in WorkerStates
  BY Known DEF Created
<1> HIDE DEF own
<1>3. r \in WorkerStates
  <2>1. "insert" \in Places
    BY DEF Places
  <2> QED BY ONLY <1>1, <1>2, <2>1, o \in Operations DEF WorkerStates
<1>4. r.pc = "insert" /\ r.op = o /\ r.at = w /\ r.att = <<w, 1>> /\ r.own = own /\ r.then = wk[w].then
  BY <1>2 DEF WorkerStates
<1>5. WorkerShape(r, route[w])
  BY <1>1, <1>4 DEF WorkerShape, KindFits, RouteFits, HandFits, Finishable
<1> QED BY <1>2, <1>3, <1>5

LEMMA CreateT1Typed ==
  ASSUME Typed, NEW w \in Workers, CreateT1(w), UNCHANGED given
  PROVE  Typed'
<1>1. route[w] = "create" /\ wk[w].pc = "start" /\ Outside
  BY DEF CreateT1, At
<1>2. CASE row' = FreshRow(w) /\ Become(w, Created(w, row'.op))
  <2>1. row' \in BookingRows /\ row'.op \in Operations /\ RowShape' /\ OpShape(row'.op)
           /\ row'.op.kind = "create"
    BY <1>2, FreshTyped, FreshShape
  <2> QED BY <1>1, <1>2, <2>1, CreatedTyped, RowStepTyped
<1>3. CASE row' \in {row, FreshRow(w)} /\ Goto(w, "lost")
  <2>1. row' \in BookingRows /\ RowShape'
    BY <1>3, FreshTyped, FreshShape, Known DEF RowShape
  <2>2. WorkerShape([wk[w] EXCEPT !.pc = "lost"], route[w])
    BY <1>1, Known DEF WorkerShape, KindFits, RouteFits, HandFits, WorkerStates
  <2> QED BY <1>1, <1>3, <2>1, <2>2, MovesOn, TransactionTyped DEF Places
<1> QED BY <1>2, <1>3 DEF CreateT1

LEMMA ReplayTyped ==
  ASSUME Typed, NEW w \in Workers, wk[w].pc \in {"start", "lost"}, Replay(w), Outside, UNCHANGED given
  PROVE  Typed'
<1>1. CASE row.op.kind = "create" /\ TakeOver(w, {}, "look")
  BY <1>1, TakeOverTyped
<1>2. CASE UNCHANGED row /\ \E a \in {"created", "in_progress"} : End(w, a)
  BY <1>2, EndStepTyped DEF Answers
<1> QED BY <1>1, <1>2 DEF Replay

LEMMA ReconcileT1Typed ==
  ASSUME Typed, NEW w \in Workers, ReconcileT1(w), UNCHANGED given
  PROVE  Typed'
<1>1. wk[w].pc = "lost" /\ Outside /\ route[w] = "create"
  BY Known DEF ReconcileT1, At, WorkerShape, RouteFits
<1>2. CASE End(w, "failed") /\ UNCHANGED row
  BY <1>1, <1>2, EndStepTyped DEF Answers
<1>3. CASE row.op.kind = "create" /\ Become(w, Created(w, row.op)) /\ UNCHANGED row
  <2>1. Created(w, row.op) \in WorkerStates /\ WorkerShape(Created(w, row.op), route[w])
    BY <1>1, <1>3, Known, CreatedTyped DEF RowShape
  <2> QED BY <1>1, <1>3, <2>1, StepTyped
<1>4. CASE Replay(w)
  BY <1>1, <1>4, ReplayTyped
<1> QED BY <1>2, <1>3, <1>4 DEF ReconcileT1

LEMMA NotifyTyped ==
  ASSUME Typed, NEW w \in Workers, NotifyRecovers(w) \/ NotifyRepairs(w), UNCHANGED given
  PROVE  Typed'
<1>1. route[w] = "notify" /\ wk[w].pc = "start" /\ Outside
  BY DEF NotifyRecovers, NotifyRepairs, At
<1>2. CASE row.op.kind \in {"create", "calendar_repair"} /\ TakeOver(w, {}, "look")
  BY <1>1, <1>2, TakeOverTyped
<1>3. CASE UNCHANGED row /\ \E a \in {"ok", "in_progress"} : End(w, a)
  BY <1>1, <1>3, EndStepTyped DEF Answers
<1>4. CASE UNCHANGED row /\ BeginReap(w, "ok")
  <2>1. Become(w, [wk[w] EXCEPT !.rev = wk[w].rev, !.pc = "reap", !.todo = EligibleReapIds,
                                !.then = "ok"])
    BY <1>4, Known DEF BeginReap, WorkerStates
  <2> QED BY <1>1, <1>4, <2>1, Known, WorkerParts, BeginReapTyped DEF Answers
<1>5. CASE /\ row.status = "confirmed" /\ row.op.kind = "none"
           /\ row' = [row EXCEPT !.op = [BeginOp("calendar_repair", w) EXCEPT !.event = row.gid]]
           /\ Become(w, [wk[w] EXCEPT !.pass = 1, !.pc = "look", !.op = row'.op, !.start = row.start])
  <2> DEFINE o == [BeginOp("calendar_repair", w) EXCEPT !.event = row.gid]
             r == [wk[w] EXCEPT !.pass = 1, !.pc = "look", !.op = o, !.start = row.start]
  <2>1. w \in Ids /\ w # None /\ row.gid \in Ids /\ row.start \in Starts
    BY <1>5, Known, NoneIsNoValue DEF RowShape, Ids
  <2>2. BeginOp("calendar_repair", w) \in Operations
    BY <2>1, BegunTyped
  <2>3. o \in Operations
    BY ONLY <2>1, <2>2, OperationFields
  <2>4. o.kind = "calendar_repair" /\ o.id = w /\ o.event = row.gid
    BY DEF BeginOp, NoOp
  <2>5. OpShape(o)
    BY <2>1, <2>4 DEF OpShape
  <2>6. row' = [row EXCEPT !.op = o] /\ row'.op = o
    BY <1>5, Known DEF BookingRows
  <2> HIDE DEF o
  <2>7. r \in WorkerStates
    BY <2>1, <2>3, Known, WorkerFields DEF Places
  <2>8. r.pc = "look" /\ r.op = o
    BY Known DEF WorkerStates
  <2>9. WorkerShape(r, route[w])
    BY <1>1, <2>4, <2>5, <2>8, Known DEF WorkerShape, KindFits, RouteFits, HandFits, Finishable
  <2> QED BY <1>1, <1>5, <2>3, <2>5, <2>6, <2>7, <2>9, OperationStepTyped, RowStepTyped
<1> QED BY <1>2, <1>3, <1>4, <1>5 DEF NotifyRecovers, NotifyRepairs

LEMMA ReadTyped ==
  ASSUME Typed, NEW w \in Workers, Read(w), UNCHANGED given
  PROVE  Typed'
<1>1. Outside /\ row' = row
  BY DEF Read
<1>2. CASE BeginReap(w, "ok")
  <2>1. Become(w, [wk[w] EXCEPT !.rev = wk[w].rev, !.pc = "reap", !.todo = EligibleReapIds,
                                !.then = "ok"])
    BY <1>2, Known DEF BeginReap, WorkerStates
  <2> QED BY <1>1, <1>2, <2>1, Known, WorkerParts, BeginReapTyped DEF Answers
<1>3. CASE End(w, "ok")
  BY <1>1, <1>3, EndStepTyped DEF Answers
<1> QED BY <1>2, <1>3 DEF Read
-----------------------------------------------------------------------------
LEMMA RescheduleStartTyped ==
  ASSUME Typed, NEW w \in Workers, RescheduleStart(w), UNCHANGED given
  PROVE  Typed'
<1> DEFINE known == IF wk[w].pass = 0 THEN [wk[w] EXCEPT !.rev = row.rev] ELSE wk[w]
           i == IF wk[w].pass = 0 THEN row.rev ELSE wk[w].rev
<1>1. route[w] = "reschedule" /\ wk[w].pc = "start" /\ Outside /\ row' = row
  BY DEF RescheduleStart, At
<1>2. known = [wk[w] EXCEPT !.rev = i] /\ i \in Nat
  BY Known, WorkerParts, RowParts DEF WorkerStates
<1>3. wk[w].op.kind = "none"
  BY <1>1, Known DEF WorkerShape, KindFits
<1>4. CASE Become(w, [known EXCEPT !.pc = "reap", !.todo = EligibleReapIds, !.then = "t1"])
  <2> HIDE DEF i
  <2> QED BY <1>1, <1>2, <1>3, <1>4, BeginReapTyped
<1>5. CASE Become(w, [known EXCEPT !.pc = "t1"])
  <2> HIDE DEF i
  <2> DEFINE r == [wk[w] EXCEPT !.rev = i, !.pc = "t1"]
  <2>1. r \in WorkerStates
    BY <1>2, Known, WorkerFields DEF Places
  <2>2. WorkerShape(r, route[w])
    BY <1>1, <1>3, Known DEF WorkerShape, KindFits, RouteFits, HandFits, WorkerStates
  <2> QED BY <1>1, <1>2, <1>5, <2>1, <2>2, StepTyped
<1> QED BY <1>4, <1>5 DEF RescheduleStart

LEMMA RescheduleRefusedTyped ==
  ASSUME Typed, NEW w \in Workers, RescheduleRefused(w), UNCHANGED given
  PROVE  Typed'
BY EndStepTyped DEF RescheduleRefused, Answers

\* Whoever asks for the row's operation as confirmed finds the booking's event id.
LEMMA ConfirmedRow ==
  ASSUME Typed, row.status = "confirmed"
  PROVE  row.gid \in Ids /\ row.start \in Starts /\ row.etag \in Nat \cup {None} /\ row \in BookingRows
BY RowParts DEF Typed, TypeOK, Shape, RowShape

LEMMA RescheduleTakesOverTyped ==
  ASSUME Typed, NEW w \in Workers, RescheduleTakesOver(w), UNCHANGED given
  PROVE  Typed'
<1>1. route[w] = "reschedule" /\ wk[w].pc = "t1" /\ Outside
  BY DEF RescheduleTakesOver, At
<1>2. CASE row.op.kind \in {"create", "calendar_repair"} /\ TakeOver(w, {}, "look")
  BY <1>1, <1>2, TakeOverTyped
<1>3. CASE row.op.kind = "reschedule" /\ TakeOver(w, {row.op.old}, "judge")
  <2>1. {row.op.old} \in SUBSET Ids
    BY <1>3, Known DEF RowShape, OpShape
  <2> QED BY <1>1, <1>3, <2>1, TakeOverTyped
<1> QED BY <1>2, <1>3 DEF RescheduleTakesOver

LEMMA RescheduleT1Typed ==
  ASSUME Typed, NEW w \in Workers, RescheduleT1(w), UNCHANGED given
  PROVE  Typed'
<1> DEFINE o == [BeginOp("reschedule", w) EXCEPT !.start = Target[w], !.old = row.gid,
                                                 !.etag = row.etag, !.fallback = w]
           p == IF row.etag = None THEN "observe" ELSE "patch"
           r == [wk[w] EXCEPT !.op = o, !.start = row.start, !.tag = row.etag, !.tries = 0, !.pc = p]
<1>1. route[w] = "reschedule" /\ wk[w].pc = "t1" /\ Outside /\ row.status = "confirmed"
  BY DEF RescheduleT1, At, RescheduleChanged
<1>2. w \in Ids /\ w # None /\ Target[w] \in Starts
  BY NoneIsNoValue DEF Ids, Starts
<1>3. row.gid \in Ids /\ row.start \in Starts /\ row.etag \in Nat \cup {None} /\ row \in BookingRows
  BY <1>1, ConfirmedRow
<1>4. BeginOp("reschedule", w) \in Operations
  BY <1>2, BegunTyped
<1>5. o \in Operations
  BY ONLY <1>2, <1>3, <1>4, OperationFields
<1>6. o.kind = "reschedule" /\ o.id = w /\ o.old = row.gid /\ o.fallback = w /\ o.start = Target[w]
  BY DEF BeginOp, NoOp
<1>7. OpShape(o)
  BY <1>2, <1>3, <1>6 DEF OpShape
<1>8. row' = [row EXCEPT !.op = o, !.reserved = Target[w]] /\ Become(w, r)
  BY DEF RescheduleT1
<1> HIDE DEF o
<1>9. row' \in BookingRows
  BY ONLY <1>2, <1>3, <1>5, <1>8, RowFields
<1>10. RowShape'
  <2>1. row'.op = o /\ row'.status = row.status /\ row'.gid = row.gid /\ row'.start = row.start
    BY <1>3, <1>8 DEF BookingRows
  <2> QED BY <1>1, <1>3, <1>7, <2>1 DEF RowShape
<1>11. p \in Places
  BY DEF Places
<1>12. r.pc = p /\ r.op = o
  BY Known DEF WorkerStates
<1>13. WorkerShape(r, route[w])
  BY <1>1, <1>6, <1>7, <1>12 DEF WorkerShape, KindFits, RouteFits, HandFits
<1> HIDE DEF p
<1>14. r \in WorkerStates
  BY <1>3, <1>5, <1>11, Known, WorkerFields
<1> QED BY <1>1, <1>8, <1>9, <1>10, <1>13, <1>14, RowStepTyped

LEMMA ObserveTyped ==
  ASSUME Typed, NEW w \in Workers, Observe(w), UNCHANGED given
  PROVE  Typed'
<1>1. wk[w].pc = "observe" /\ Outside /\ row' = row
  BY DEF Observe, At
<1>2. wk[w].op.kind = "reschedule" /\ wk[w].op.old \in Ids
  BY <1>1, Known DEF WorkerShape, KindFits, OpShape
<1>3. ASSUME NEW p \in {"fallback", "superseded"}, Goto(w, p)
      PROVE  Typed'
  <2>1. WorkerShape([wk[w] EXCEPT !.pc = p], route[w])
    BY <1>1, <1>2, Known DEF WorkerShape, KindFits, RouteFits, HandFits, WorkerStates
  <2> QED BY <1>1, <1>3, <2>1, MovesOnStep DEF Places
<1>4. CASE Become(w, [wk[w] EXCEPT !.pc = "patch", !.tag = cal[wk[w].op.old].ver])
  <2> DEFINE r == [wk[w] EXCEPT !.pc = "patch", !.tag = cal[wk[w].op.old].ver]
  <2>1. cal[wk[w].op.old].ver \in Nat
    BY <1>2, Known DEF Events
  <2>2. r \in WorkerStates
    BY <2>1, Known, WorkerFields DEF Places
  <2>3. WorkerShape(r, route[w])
    BY <1>1, <1>2, Known DEF WorkerShape, KindFits, RouteFits, HandFits, WorkerStates
  <2> QED BY <1>1, <1>4, <2>2, <2>3, StepTyped
<1> QED BY <1>3, <1>4 DEF Observe, OpOf

LEMMA PatchTyped ==
  ASSUME Typed, NEW w \in Workers, Patch(w), UNCHANGED given
  PROVE  Typed'
<1> DEFINE q == PatchReq(wk[w].op.old, wk[w].op.start, wk[w].tag)
           res == [ev |-> wk[w].op.old, tag |-> cal'[wk[w].op.old].ver]
<1>1. wk[w].pc = "patch" /\ row' = row
  BY DEF Patch, At
<1>2. wk[w].op.kind = "reschedule" /\ wk[w].op.old \in Ids /\ wk[w].op.start \in Starts
  BY <1>1, Known DEF WorkerShape, KindFits, OpShape
<1>3. q \in CalendarRequests
  BY <1>2, Known, WorkerParts DEF PatchReq, CalendarRequests
<1>4. /\ \E o : Ask(q, o)
      /\ \/ Become(w, [wk[w] EXCEPT !.pc = "t2", !.res = res])
         \/ End(w, "unknown")
         \/ \E p \in {"reobserve", "fallback", "clear"} : Goto(w, p)
  BY DEF Patch, OpOf
<1>5. cal' \in [Ids -> Events] /\ late' \subseteq CalendarRequests /\ edits' = edits
  BY <1>3, <1>4, AskTyped
<1>6. CASE Become(w, [wk[w] EXCEPT !.pc = "t2", !.res = res])
  <2> DEFINE r == [wk[w] EXCEPT !.pc = "t2", !.res = res]
  <2>1. res \in EventSeen
    BY <1>2, <1>5 DEF EventSeen, Events
  <2> HIDE DEF res
  <2>2. r \in WorkerStates
    BY <2>1, Known, WorkerFields DEF Places
  <2>3. WorkerShape(r, route[w])
    BY <1>1, <1>2, <2>1, Known DEF WorkerShape, KindFits, RouteFits, HandFits, WorkerStates
  <2> QED BY <1>1, <1>5, <1>6, <2>2, <2>3, BecomeTyped, MemoryStepTyped DEF res
<1>7. CASE End(w, "unknown")
  BY <1>1, <1>5, <1>7, EndTyped, MemoryStepTyped DEF Answers
<1>8. ASSUME NEW p \in {"reobserve", "fallback", "clear"}, Goto(w, p)
      PROVE  Typed'
  <2>1. WorkerShape([wk[w] EXCEPT !.pc = p], route[w])
    BY <1>1, <1>2, Known DEF WorkerShape, KindFits, RouteFits, HandFits, WorkerStates
  <2> QED BY <1>1, <1>5, <1>8, <2>1, MovesOn, MemoryStepTyped DEF Places
<1> QED BY <1>4, <1>6, <1>7, <1>8

LEMMA ReobserveTyped ==
  ASSUME Typed, NEW w \in Workers, Reobserve(w), UNCHANGED given
  PROVE  Typed'
<1> DEFINE e == wk[w].op.old
<1>1. wk[w].pc = "reobserve" /\ Outside /\ row' = row
  BY DEF Reobserve, At
<1>2. wk[w].op.kind = "reschedule" /\ e \in Ids
  BY <1>1, Known DEF WorkerShape, KindFits, OpShape
<1>3. cal[e].ver \in Nat /\ Seen(e) \in EventSeen
  BY <1>2, Known DEF Events, Seen, EventSeen
<1>4. CASE Become(w, [wk[w] EXCEPT !.pc = "t2", !.res = Seen(e)])
  <2> DEFINE r == [wk[w] EXCEPT !.pc = "t2", !.res = Seen(e)]
  <2>1. r \in WorkerStates
    BY <1>3, Known, WorkerFields DEF Places
  <2>2. WorkerShape(r, route[w])
    BY <1>1, <1>2, <1>3, Known DEF WorkerShape, KindFits, RouteFits, HandFits, WorkerStates
  <2> QED BY <1>1, <1>4, <2>1, <2>2, StepTyped
<1>5. CASE Become(w, [wk[w] EXCEPT !.pc = "patch", !.tag = cal[e].ver, !.tries = 1])
  <2> DEFINE r == [wk[w] EXCEPT !.pc = "patch", !.tag = cal[e].ver, !.tries = 1]
  <2>1. r \in WorkerStates
    BY <1>3, Known, WorkerFields DEF Places
  <2>2. WorkerShape(r, route[w])
    BY <1>1, <1>2, Known DEF WorkerShape, KindFits, RouteFits, HandFits, WorkerStates
  <2> QED BY <1>1, <1>5, <2>1, <2>2, StepTyped
<1>6. CASE End(w, "superseded")
  BY <1>1, <1>6, EndStepTyped DEF Answers
<1>7. CASE Goto(w, "clear")
  <2>1. WorkerShape([wk[w] EXCEPT !.pc = "clear"], route[w])
    BY <1>1, <1>2, Known DEF WorkerShape, KindFits, RouteFits, HandFits, WorkerStates
  <2> QED BY <1>1, <1>7, <2>1, MovesOnStep DEF Places
<1> QED BY <1>4, <1>5, <1>6, <1>7 DEF Reobserve, OpOf

LEMMA InsertFallbackTyped ==
  ASSUME Typed, NEW w \in Workers, InsertFallback(w), UNCHANGED given
  PROVE  Typed'
<1>1. wk[w].pc = "fallback" /\ Outside
  BY DEF InsertFallback, At
<1>2. /\ wk[w].op.kind = "reschedule" /\ wk[w].op.fallback \in Ids /\ route[w] # "create"
  BY <1>1, Known DEF WorkerShape, KindFits, OpShape, RouteFits
<1>3. CASE Owns(w) /\ AppendInsert(w, wk[w].op.fallback)
  BY <1>1, <1>2, <1>3, AppendTyped DEF Finishable
<1>4. CASE Goto(w, "superseded") /\ UNCHANGED row
  <2>1. WorkerShape([wk[w] EXCEPT !.pc = "superseded"], route[w])
    BY <1>1, <1>2, Known DEF WorkerShape, KindFits, RouteFits, HandFits, WorkerStates
  <2> QED BY <1>1, <1>4, <2>1, MovesOnStep DEF Places
<1> QED BY <1>3, <1>4 DEF InsertFallback, OpOf

LEMMA JudgeTyped ==
  ASSUME Typed, NEW w \in Workers, Judge(w), UNCHANGED given
  PROVE  Typed'
<1> DEFINE o == wk[w].op
           moved == IF MovedAway(o) THEN Seen(o.old) ELSE None
<1>1. wk[w].pc = "judge" /\ Outside /\ row' = row
  BY DEF Judge, At
<1>2. o.kind = "reschedule" /\ o.old \in Ids /\ o.fallback \in Ids
  BY <1>1, Known DEF WorkerShape, KindFits, OpShape
<1>3. moved \in EventSeen \cup {None}
  BY <1>2, Known DEF Seen, EventSeen, Events
<1>4. \/ Become(w, [wk[w] EXCEPT !.res = moved, !.pc = "bump", !.todo = {o.fallback},
                                 !.then = "judged"])
      \/ Become(w, [wk[w] EXCEPT !.res = moved, !.pc = IF moved = None THEN "clear" ELSE "t2"])
  BY DEF Judge, OpOf
<1> HIDE DEF moved
<1>5. CASE Become(w, [wk[w] EXCEPT !.res = moved, !.pc = "bump", !.todo = {o.fallback},
                                   !.then = "judged"])
  <2> DEFINE r == [wk[w] EXCEPT !.res = moved, !.pc = "bump", !.todo = {o.fallback},
                                !.then = "judged"]
  <2>0. wk[w] \in WorkerStates /\ {o.fallback} \in SUBSET Ids
    BY <1>2, Known
  <2>1. r \in WorkerStates
    BY ONLY <1>3, <2>0, WorkerFields DEF Places, Nexts
  <2>2. WorkerShape(r, route[w])
    BY <1>1, <1>2, Known DEF WorkerShape, KindFits, RouteFits, HandFits, WorkerStates
  <2> QED BY <1>1, <1>5, <2>1, <2>2, StepTyped
<1>6. CASE Become(w, [wk[w] EXCEPT !.res = moved, !.pc = IF moved = None THEN "clear" ELSE "t2"])
  <2> DEFINE r == [wk[w] EXCEPT !.res = moved, !.pc = IF moved = None THEN "clear" ELSE "t2"]
  <2>1. r \in WorkerStates
    BY <1>3, Known, WorkerFields DEF Places
  <2>2. WorkerShape(r, route[w])
    BY <1>1, <1>2, <1>3, Known DEF WorkerShape, KindFits, RouteFits, HandFits, WorkerStates
  <2> QED BY <1>1, <1>6, <2>1, <2>2, StepTyped
<1> QED BY <1>4, <1>5, <1>6

LEMMA JudgedTyped ==
  ASSUME Typed, NEW w \in Workers, Judged(w), UNCHANGED given
  PROVE  Typed'
<1> DEFINE res == IF wk[w].seen # None THEN wk[w].seen ELSE wk[w].res
           r == [wk[w] EXCEPT !.res = res, !.pc = IF res = None THEN "clear" ELSE "t2"]
<1>1. wk[w].pc = "judged" /\ Outside /\ row' = row /\ Become(w, r)
  BY DEF Judged, At
<1>2. wk[w].op.kind = "reschedule"
  BY <1>1, Known DEF WorkerShape, KindFits
<1>3. res \in EventSeen \cup {None}
  BY Known, WorkerParts
<1> HIDE DEF res
<1>4. r \in WorkerStates
  BY <1>3, Known, WorkerFields DEF Places
<1>5. WorkerShape(r, route[w])
  BY <1>1, <1>2, <1>3, Known DEF WorkerShape, KindFits, RouteFits, HandFits, WorkerStates
<1> QED BY <1>1, <1>4, <1>5, StepTyped
-----------------------------------------------------------------------------
LEMMA CancelStartTyped ==
  ASSUME Typed, NEW w \in Workers, CancelStart(w), UNCHANGED given
  PROVE  Typed'
<1> DEFINE i == IF wk[w].pass = 0 THEN row.rev ELSE wk[w].rev
           r == [wk[w] EXCEPT !.pc = "cancelT1", !.rev = i]
<1>1. route[w] = "cancel" /\ wk[w].pc = "start" /\ Outside /\ row' = row
  BY DEF CancelStart, At
<1>2. wk[w].op.kind = "none" /\ i \in Nat
  BY <1>1, Known, WorkerParts, RowParts DEF WorkerShape, KindFits
<1>3. CASE BeginReap(w, "cancelled")
  <2>1. Become(w, [wk[w] EXCEPT !.rev = wk[w].rev, !.pc = "reap", !.todo = EligibleReapIds,
                                !.then = "cancelled"])
    BY <1>3, Known DEF BeginReap, WorkerStates
  <2> QED BY <1>1, <2>1, Known, WorkerParts, BeginReapTyped DEF Answers
<1>4. CASE Become(w, r)
  <2> HIDE DEF i
  <2>1. r \in WorkerStates
    BY <1>2, Known, WorkerFields DEF Places
  <2>2. WorkerShape(r, route[w])
    BY <1>1, <1>2, Known DEF WorkerShape, KindFits, RouteFits, HandFits, WorkerStates
  <2> QED BY <1>1, <1>4, <2>1, <2>2, StepTyped
<1> QED BY <1>3, <1>4 DEF CancelStart

LEMMA CancelRefusedTyped ==
  ASSUME Typed, NEW w \in Workers, CancelRefused(w), UNCHANGED given
  PROVE  Typed'
BY EndStepTyped DEF CancelRefused, Answers

\* The cancel's operation works on the confirmed row's event.
LEMMA CancelOpTyped ==
  ASSUME Typed, NEW w \in Workers, row.status = "confirmed"
  PROVE  CancelOp(w) \in Operations /\ OpShape(CancelOp(w)) /\ CancelOp(w).kind = "cancel"
<1>1. w \in Ids /\ w # None /\ row.gid \in Ids /\ row.etag \in Nat \cup {None}
  BY ConfirmedRow, NoneIsNoValue DEF Ids
<1>2. BeginOp("cancel", w) \in Operations
  BY <1>1, BegunTyped
<1>3. CancelOp(w) \in Operations
  BY ONLY <1>1, <1>2, OperationFields DEF CancelOp
<1>4. CancelOp(w).kind = "cancel" /\ CancelOp(w).id = w /\ CancelOp(w).old = row.gid
  BY DEF CancelOp, BeginOp, NoOp
<1> QED BY <1>1, <1>3, <1>4 DEF OpShape

LEMMA CancelT1Typed ==
  ASSUME Typed, NEW w \in Workers, CancelT1(w), UNCHANGED given
  PROVE  Typed'
<1> DEFINE o == CancelOp(w)
           r == [wk[w] EXCEPT !.op = o, !.pc = "calendar"]
<1>1. wk[w].pc = "cancelT1" /\ Outside /\ row.status = "confirmed" /\ row' = [row EXCEPT !.op = o]
         /\ Become(w, r)
  BY DEF CancelT1, At, CancelChanged
<1>2. o \in Operations /\ OpShape(o) /\ o.kind = "cancel"
  BY <1>1, CancelOpTyped
<1>3. route[w] = "cancel"
  BY <1>1, Known DEF WorkerShape, RouteFits
<1> HIDE DEF o
<1>4. r \in WorkerStates
  BY <1>2, Known, WorkerFields DEF Places
<1>5. WorkerShape(r, route[w])
  BY <1>2, <1>3, Known DEF WorkerShape, KindFits, RouteFits, HandFits, WorkerStates
<1> QED BY <1>1, <1>2, <1>4, <1>5, OperationStepTyped, RowStepTyped

LEMMA CancelTakesOverTyped ==
  ASSUME Typed, NEW w \in Workers, CancelTakesOver(w), UNCHANGED given
  PROVE  Typed'
<1> DEFINE o == row.op
           ids == IF o.old = None THEN IntendedIds(o) \cup {row.gid} ELSE IntendedIds(o)
           p == IF o.kind = "cancel" THEN "calendar" ELSE "reconcile"
<1>1. wk[w].pc = "cancelT1" /\ Outside /\ row.status = "confirmed" /\ row.op.stale /\ TakeOver(w, ids, p)
  BY DEF CancelTakesOver, At, CancelChanged
<1>2. route[w] = "cancel"
  BY <1>1, Known DEF WorkerShape, RouteFits
<1>3. ids \in SUBSET Ids
  BY <1>1, ConfirmedRow, Known, OperationParts DEF IntendedIds
<1>4. o.kind # "none"
  BY <1>1, Known DEF RowShape, OpShape, NoOp
<1> HIDE DEF ids
<1>5. o.kind = "cancel" \/ o.kind \in Finishable
  BY <1>4, Known, OperationParts DEF Finishable
<1> QED BY <1>1, <1>2, <1>3, <1>4, <1>5, TakeOverTyped

LEMMA ReconcileTyped ==
  ASSUME Typed, NEW w \in Workers, Reconcile(w), UNCHANGED given
  PROVE  Typed'
<1>1. wk[w].pc = "reconcile" /\ Outside /\ row' = row
  BY DEF Reconcile, At
<1>2. wk[w].op.kind \in Finishable /\ route[w] = "cancel"
  BY <1>1, Known DEF WorkerShape, KindFits, RouteFits
<1>3. PICK p \in {"replace", "inherit", "look"} :
        /\ Goto(w, p)
        /\ p = "inherit" => wk[w].op.kind = "reschedule"
        /\ p = "look" => wk[w].op.kind # "reschedule"
  BY DEF Reconcile, OpOf
<1>4. WorkerShape([wk[w] EXCEPT !.pc = p], route[w])
  BY <1>1, <1>2, <1>3, Known DEF WorkerShape, KindFits, RouteFits, HandFits, WorkerStates
<1> QED BY <1>1, <1>3, <1>4, MovesOnStep DEF Places

LEMMA InheritTyped ==
  ASSUME Typed, NEW w \in Workers, Inherit(w), UNCHANGED given
  PROVE  Typed'
<1> DEFINE o == wk[w].op
           found == IF Live(o.old) /\ cal[o.old].start = o.start THEN Seen(o.old)
                    ELSE IF Live(o.fallback) THEN Seen(o.fallback) ELSE None
           r == [wk[w] EXCEPT !.pc = "t2", !.res = found]
<1>1. wk[w].pc = "inherit" /\ Outside /\ row' = row
  BY DEF Inherit, At
<1>2. o.kind = "reschedule" /\ o.old \in Ids /\ o.fallback \in Ids
  BY <1>1, Known DEF WorkerShape, KindFits, OpShape
<1>3. found \in EventSeen \cup {None}
  BY <1>2, Known DEF Seen, EventSeen, Events
<1>4. Restart(w, wk[w].rev + 1) \/ (found # None /\ Become(w, r))
  BY DEF Inherit, OpOf
<1> HIDE DEF found
<1>5. r \in WorkerStates
  BY <1>3, Known, WorkerFields DEF Places
<1>6. found # None => WorkerShape(r, route[w])
  BY <1>1, <1>2, <1>3, Known DEF WorkerShape, KindFits, RouteFits, HandFits, WorkerStates
<1> QED BY <1>1, <1>4, <1>5, <1>6, StepTyped, RestartStepTyped, Known, WorkerParts

LEMMA ReplacementTyped ==
  ASSUME Typed, NEW w \in Workers, row.status = "confirmed"
  PROVE  /\ Replacement(w) \in Operations /\ OpShape(Replacement(w))
         /\ Replacement(w).kind = "cancel" /\ Replacement(w).id = w
<1>1. /\ wk[w].op.event \in Ids \cup {None} /\ wk[w].op.fallback \in Ids \cup {None}
      /\ wk[w].op.attempts \in Ledger
  BY Known, OperationParts
<1>2. CancelOp(w) \in Operations
  BY CancelOpTyped
<1>3. Replacement(w) \in Operations
  BY ONLY <1>1, <1>2, OperationFields DEF Replacement, OpOf
<1>4. w # None /\ row.gid \in Ids
  BY ConfirmedRow, NoneIsNoValue DEF Ids
<1>5. Replacement(w).kind = "cancel" /\ Replacement(w).id = w /\ Replacement(w).old = row.gid
  BY DEF Replacement, CancelOp, BeginOp, NoOp
<1> QED BY <1>3, <1>4, <1>5 DEF OpShape

LEMMA ReplaceTyped ==
  ASSUME Typed, NEW w \in Workers, Replace(w), UNCHANGED given
  PROVE  Typed'
<1> DEFINE o == Replacement(w)
           u == Carried(w)
           s == IF wk[w].op.kind = "reschedule" THEN None ELSE row.reserved
           r == [wk[w] EXCEPT !.op = o, !.pc = "calendar"]
<1>1. wk[w].pc = "replace" /\ Outside
  BY DEF Replace, At
<1>2. route[w] = "cancel"
  BY <1>1, Known DEF WorkerShape, RouteFits
<1>3. CASE End(w, "in_progress") /\ UNCHANGED row
  BY <1>1, <1>3, EndStepTyped DEF Answers
<1>4. CASE /\ Owns(w) /\ row.status = "confirmed"
           /\ row' = [row EXCEPT !.op = o, !.unfinished = u, !.reserved = s]
           /\ Become(w, r)
  <2>1. o \in Operations /\ OpShape(o) /\ o.kind = "cancel"
    BY <1>4, ReplacementTyped
  <2>2. row.gid \in Ids /\ row.start \in Starts /\ row \in BookingRows
           /\ s \in Starts \cup {None}
    BY <1>4, ConfirmedRow, RowParts
  <2>3. u \in Creations \cup {None}
    <3>1. CASE wk[w].op.kind = "create" /\ row.action = None
      <4>1. /\ wk[w].op.id \in Ids /\ wk[w].op.event \in Ids /\ wk[w].op.gen \in Nat
            /\ wk[w].op.attempts \in Ledger
        BY <3>1, Known, OperationParts DEF WorkerShape, OpShape
      <4> QED BY <3>1, <4>1 DEF Carried, Creations, OpOf
    <3>2. CASE ~(wk[w].op.kind = "create" /\ row.action = None)
      BY <3>2, Known, RowParts DEF Carried, OpOf
    <3> QED BY <3>1, <3>2
  <2> HIDE DEF o, u, s
  <2>4. row' \in BookingRows
    BY ONLY <1>4, <2>1, <2>2, <2>3, RowFields
  <2>5. row'.op = o /\ row'.status = row.status /\ row'.gid = row.gid /\ row'.start = row.start
    BY <1>4, <2>2 DEF BookingRows
  <2>6. RowShape'
    BY <1>4, <2>1, <2>2, <2>5 DEF RowShape
  <2>7. r \in WorkerStates
    BY <2>1, Known, WorkerFields DEF Places
  <2>8. WorkerShape(r, route[w])
    BY <1>2, <2>1, Known DEF WorkerShape, KindFits, RouteFits, HandFits, WorkerStates
  <2> QED BY <1>1, <1>4, <2>4, <2>6, <2>7, <2>8, RowStepTyped
<1> QED BY <1>3, <1>4 DEF Replace, CancelChanged, OpOf

LEMMA CancelReapsTyped ==
  ASSUME Typed, NEW w \in Workers, CancelReaps(w), UNCHANGED given
  PROVE  Typed'
<1>1. wk[w].pc = "calendar" /\ Outside /\ row' = row /\ BeginReap(w, "inherited")
  BY DEF CancelReaps, At
<1>2. wk[w].op.kind = "cancel" /\ route[w] = "cancel"
  BY <1>1, Known DEF WorkerShape, KindFits, RouteFits
<1>3. Become(w, [wk[w] EXCEPT !.rev = wk[w].rev, !.pc = "reap", !.todo = EligibleReapIds,
                              !.then = "inherited"])
  BY <1>1, Known DEF BeginReap, WorkerStates
<1> QED BY <1>1, <1>2, <1>3, Known, WorkerParts, BeginReapTyped

LEMMA ClearInheritedTyped ==
  ASSUME Typed, NEW w \in Workers, ClearInherited(w), UNCHANGED given
  PROVE  Typed'
<1> DEFINE ids == {wk[w].op.event, wk[w].op.fallback} \ {None, wk[w].op.old}
           r == [wk[w] EXCEPT !.pc = "removing", !.todo = ids]
<1>1. wk[w].pc \in {"inherited", "calendar"} /\ Outside /\ row' = row /\ Become(w, r)
  BY DEF ClearInherited, At, OpOf
<1>2. wk[w].op.kind = "cancel"
  BY <1>1, Known DEF WorkerShape, KindFits
<1>3. ids \in SUBSET Ids
  BY Known, OperationParts
<1> HIDE DEF ids
<1>4. r \in WorkerStates
  BY <1>3, Known, WorkerFields DEF Places
<1>5. WorkerShape(r, route[w])
  BY <1>1, <1>2, Known DEF WorkerShape, KindFits, RouteFits, HandFits, WorkerStates
<1> QED BY <1>1, <1>4, <1>5, StepTyped

\* A look that leads to a deletion, of an inherited event or of the live one.
LEMMA LookedTyped ==
  ASSUME Typed, NEW w \in Workers, wk[w].pc = "removing", NEW e \in Ids,
         NEW todo \in SUBSET Ids, NEW p \in {"remove", "delete"},
         Become(w, [wk[w] EXCEPT !.todo = todo, !.pc = p, !.at = e, !.tag = cal[e].ver,
                                 !.att = cal[e].att]),
         Outside, UNCHANGED <<row, given>>
  PROVE  Typed'
<1> DEFINE r == [wk[w] EXCEPT !.todo = todo, !.pc = p, !.at = e, !.tag = cal[e].ver,
                              !.att = cal[e].att]
<1>1. wk[w].op.kind = "cancel"
  BY Known DEF WorkerShape, KindFits
<1>2. cal[e].ver \in Nat /\ cal[e].att \in Attempts \cup {None} /\ p \in Places
  BY Known DEF Events, Places
<1>3. r \in WorkerStates
  <2>1. wk[w] \in WorkerStates
    BY Known
  <2> QED BY ONLY <1>2, <2>1, e \in Ids, todo \in SUBSET Ids DEF WorkerStates
<1>4. WorkerShape(r, route[w])
  BY <1>1, Known DEF WorkerShape, KindFits, RouteFits, HandFits, WorkerStates
<1> QED BY <1>3, <1>4, StepTyped

LEMMA RemoveLookTyped ==
  ASSUME Typed, NEW w \in Workers, RemoveLook(w), UNCHANGED given
  PROVE  Typed'
<1>1. wk[w].pc = "removing" /\ Outside /\ row' = row
  BY DEF RemoveLook, At
<1>2. wk[w].op.kind = "cancel"
  BY <1>1, Known DEF WorkerShape, KindFits
<1>3. PICK e \in wk[w].todo :
        IF Live(e)
          THEN Become(w, [wk[w] EXCEPT !.todo = @ \ {e}, !.pc = "remove", !.at = e,
                                       !.tag = cal[e].ver, !.att = cal[e].att])
          ELSE Become(w, [wk[w] EXCEPT !.todo = @ \ {e}])
  BY DEF RemoveLook
<1>4. e \in Ids /\ wk[w].todo \ {e} \in SUBSET Ids
  BY Known, WorkerParts
<1>5. CASE Live(e)
  BY <1>1, <1>3, <1>4, <1>5, LookedTyped
<1>6. CASE ~Live(e)
  <2> DEFINE r == [wk[w] EXCEPT !.todo = @ \ {e}]
  <2>1. r \in WorkerStates
    BY <1>4, Known, WorkerFields
  <2>2. WorkerShape(r, route[w])
    BY <1>1, <1>2, Known DEF WorkerShape, KindFits, RouteFits, HandFits, WorkerStates
  <2> QED BY <1>1, <1>3, <1>6, <2>1, <2>2, StepTyped
<1> QED BY <1>5, <1>6

LEMMA LiveLookTyped ==
  ASSUME Typed, NEW w \in Workers, LiveLook(w), UNCHANGED given
  PROVE  Typed'
<1>1. wk[w].pc = "removing" /\ Outside /\ row' = row
  BY DEF LiveLook, At
<1>2. wk[w].op.kind = "cancel" /\ wk[w].op.old \in Ids
  BY <1>1, Known DEF WorkerShape, KindFits, OpShape
<1>3. ASSUME NEW p \in {"t2", "superseded"}, Goto(w, p)
      PROVE  Typed'
  <2>1. WorkerShape([wk[w] EXCEPT !.pc = p], route[w])
    BY <1>1, <1>2, Known DEF WorkerShape, KindFits, RouteFits, HandFits, WorkerStates, Finishable
  <2> QED BY <1>1, <1>3, <2>1, MovesOnStep DEF Places
<1>4. CASE Become(w, [wk[w] EXCEPT !.pc = "delete", !.at = wk[w].op.old,
                         !.tag = cal[wk[w].op.old].ver, !.att = cal[wk[w].op.old].att])
  <2> DEFINE e == wk[w].op.old
  <2>1. wk[w].todo \in SUBSET Ids
    BY Known, WorkerParts
  <2>2. Become(w, [wk[w] EXCEPT !.todo = wk[w].todo, !.pc = "delete", !.at = e,
                      !.tag = cal[e].ver, !.att = cal[e].att])
    BY <1>4, Known DEF WorkerStates
  <2> QED BY <1>1, <1>2, <2>1, <2>2, LookedTyped
<1> QED BY <1>3, <1>4 DEF LiveLook, OpOf

LEMMA RemoveTyped ==
  ASSUME Typed, NEW w \in Workers, Remove(w), UNCHANGED given
  PROVE  Typed'
<1>1. wk[w].pc \in {"remove", "delete"} /\ row' = row
  BY DEF Remove, At
<1>2. wk[w].op.kind = "cancel" /\ wk[w].at \in Ids
  BY <1>1, Known DEF WorkerShape, KindFits, HandFits
<1>3. /\ \E o : Ask(DeleteReq(wk[w].at, wk[w].tag), o)
      /\ \/ End(w, "unknown")
         \/ \E p \in {"removed", "deleted", "clear"} : Goto(w, p)
  BY <1>1 DEF Remove, At
<1>4. cal' \in [Ids -> Events] /\ late' \subseteq CalendarRequests /\ edits' = edits
  BY <1>2, <1>3, DeleteRequestTyped, AskTyped
<1>5. CASE End(w, "unknown")
  BY <1>1, <1>4, <1>5, EndTyped, MemoryStepTyped DEF Answers
<1>6. ASSUME NEW p \in {"removed", "deleted", "clear"}, Goto(w, p)
      PROVE  Typed'
  <2>1. WorkerShape([wk[w] EXCEPT !.pc = p], route[w])
    BY <1>1, <1>2, Known DEF WorkerShape, KindFits, RouteFits, HandFits, WorkerStates
  <2> QED BY <1>1, <1>4, <1>6, <2>1, MovesOn, MemoryStepTyped DEF Places
<1> QED BY <1>3, <1>5, <1>6

LEMMA RemovedTyped ==
  ASSUME Typed, NEW w \in Workers, Removed(w), UNCHANGED given
  PROVE  Typed'
<1>1. wk[w].pc \in {"removed", "deleted"} /\ Outside
  BY DEF Removed, At
<1>2. wk[w].op.kind = "cancel"
  BY <1>1, Known DEF WorkerShape, KindFits
<1>3. PICK p \in {"removing", "t2"} : Goto(w, p)
  BY DEF Removed
<1>4. WorkerShape([wk[w] EXCEPT !.pc = p], route[w])
  BY <1>1, <1>2, Known DEF WorkerShape, KindFits, RouteFits, HandFits, WorkerStates, Finishable
<1> QED BY <1>1, <1>3, <1>4, RetiredTyped, MovesOn, TransactionTyped DEF Removed, Places
-----------------------------------------------------------------------------
LEMMA WorkerStepTyped ==
  ASSUME Typed, NEW w \in Workers, Step(w)
  PROVE  Typed'
<1>1. UNCHANGED given
  BY DEF Step
<1>2. CASE SharedStep(w)
  BY <1>1, <1>2, InsertTyped, FinishTyped, LookTyped, BumpTyped, BumpingTyped, ReapTyped, SweepTyped,
     SweepLookTyped, RetireTyped DEF SharedStep
<1>3. CASE EndingStep(w)
  BY <1>1, <1>3, T2Typed, SettleTyped, RolledBackTyped, CompensateTyped, ClearTyped,
     SupersededTyped, SweptTyped DEF EndingStep
<1>4. CASE CreateFlowStep(w)
  BY <1>1, <1>4, CreateT1Typed, ReplayTyped, ReconcileT1Typed, NotifyTyped, ReadTyped
     DEF CreateFlowStep, CreateReplay, At
<1>5. CASE RescheduleFlowStep(w)
  BY <1>1, <1>5, RescheduleStartTyped, RescheduleRefusedTyped, RescheduleTakesOverTyped,
     RescheduleT1Typed, ObserveTyped, PatchTyped, ReobserveTyped, InsertFallbackTyped,
     JudgeTyped, JudgedTyped DEF RescheduleFlowStep
<1>6. CASE CancelFlowStep(w)
  BY <1>1, <1>6, CancelStartTyped, CancelRefusedTyped, CancelT1Typed, CancelTakesOverTyped,
     ReconcileTyped, InheritTyped, ReplaceTyped, CancelReapsTyped, ClearInheritedTyped,
     RemoveLookTyped, LiveLookTyped, RemoveTyped, RemovedTyped DEF CancelFlowStep
<1> QED BY <1>2, <1>3, <1>4, <1>5, <1>6 DEF Step

LEMMA WorldStepTyped ==
  ASSUME Typed, TimePasses \/ LateExecutes \/ HostDeletes, UNCHANGED given
  PROVE  Typed'
<1>1. row \in BookingRows /\ RowShape /\ row.op \in Operations /\ cal \in [Ids -> Events]
  BY RowParts DEF Typed, TypeOK, Shape
<1>2. CASE TimePasses
  <2> DEFINE o == [row.op EXCEPT !.stale = TRUE]
  <2>1. o \in Operations
    BY <1>1, OperationFields
  <2>2. OpShape(o) /\ row.status # "absent"
    BY <1>1, <1>2 DEF TimePasses, OpShape, RowShape, Operations, NoOp
  <2>3. row' = [row EXCEPT !.op = o] /\ UNCHANGED <<cal, late, wk, edits>>
    BY <1>2 DEF TimePasses
  <2> HIDE DEF o
  <2>4. row' \in BookingRows /\ RowShape'
    BY <2>1, <2>2, <2>3, OperationStepTyped
  <2> QED BY <2>3, <2>4 DEF Typed, TypeOK, Shape, given
<1>3. CASE LateExecutes
  <2>1. PICK q \in late : cal' = Executed(q) /\ late' = late \ {q} /\ UNCHANGED <<row, wk, edits>>
    BY <1>3 DEF LateExecutes
  <2>2. Executed(q) \in [Ids -> Events]
    BY <1>1 DEF Typed, TypeOK, Executed, Events, CalendarRequests
  <2> QED BY <2>1, <2>2 DEF Typed, TypeOK, Shape, RowShape, given
<1>4. CASE HostDeletes
  <2>1. PICK e \in Ids : cal' = Executed(DeleteReq(e, cal[e].ver))
    BY <1>4 DEF HostDeletes
  <2>2. DeleteReq(e, cal[e].ver) \in CalendarRequests
    BY <1>1 DEF DeleteReq, CalendarRequests, Events
  <2>3. cal' \in [Ids -> Events]
    BY <1>1, <2>1, <2>2 DEF Executed, Events, CalendarRequests
  <2>4. edits' = edits + 1 /\ edits < world.hostEdits /\ UNCHANGED <<row, late, wk>>
    BY <1>4 DEF HostDeletes
  <2>5. edits' \in 0 .. world'.hostEdits
    BY <2>4 DEF Typed, TypeOK, Worlds, given
  <2> QED BY <2>3, <2>4, <2>5 DEF Typed, TypeOK, Shape, RowShape, given
<1> QED BY <1>2, <1>3, <1>4
-----------------------------------------------------------------------------
\* The three ways a history may start.
LEMMA HistoriesTyped ==
  /\ NoRow \in BookingRows /\ MadeRow \in BookingRows /\ FailedRow \in BookingRows
  /\ NoEvent \in Events /\ OriginInsert \in CalendarRequests
  /\ <<Origin, 1>> \in Attempts
<1>1. <<Origin, 1>> \in Attempts /\ Origin \in Ids /\ T0 \in Starts /\ NoOp \in Operations
  BY NewWorkerTyped DEF Attempts, Ids, Starts
<1>2. NoRow \in BookingRows
  BY <1>1 DEF NoRow, BookingRows
<1>3. MadeRow \in BookingRows
  BY <1>1, <1>2 DEF MadeRow, BookingRows, Actions
<1>4. FailedRow \in BookingRows
  BY <1>3 DEF FailedRow, BookingRows
<1>5. NoEvent \in Events /\ OriginInsert \in CalendarRequests
  BY <1>1 DEF NoEvent, Events, OriginInsert, InsertReq, CalendarRequests
<1> QED BY <1>1, <1>2, <1>3, <1>4, <1>5

LEMMA HistoryTyped ==
  ASSUME NEW h \in {"none", "made", "failed"}, History(h)
  PROVE  row \in BookingRows /\ cal \in [Ids -> Events] /\ late \subseteq CalendarRequests /\ RowShape
<1>1. T0 \in Starts /\ Origin \in Ids /\ T0 # None /\ OpShape(NoOp)
  BY NoneIsNoValue DEF Starts, Ids, OpShape, NoOp
<1>2. CASE h = "none"
  BY <1>2, HistoriesTyped, <1>1 DEF History, RowShape, NoRow
<1>3. CASE h = "made"
  <2>1. [live |-> TRUE, ver |-> 1, start |-> T0, att |-> <<Origin, 1>>] \in Events
    BY <1>1, HistoriesTyped DEF Events
  <2>2. row = MadeRow /\ late = {} /\ cal \in [Ids -> Events]
    BY <1>3, <2>1, HistoriesTyped DEF History
  <2> QED BY <1>1, <2>2, HistoriesTyped DEF RowShape, MadeRow, NoRow
<1>4. CASE h = "failed"
  <2>1. cal \in [Ids -> Events] /\ late \subseteq CalendarRequests
    BY <1>4, HistoriesTyped DEF History
  <2>2. /\ FailedRow.op = NoOp /\ FailedRow.status = "confirmed" /\ FailedRow.gid = Origin
        /\ FailedRow.start = T0
    BY DEF FailedRow, MadeRow, NoRow
  <2>3. CASE row = FailedRow
    BY <1>1, <2>1, <2>2, <2>3, HistoriesTyped DEF RowShape
  <2>4. CASE row = [FailedRow EXCEPT !.unresolved = {[att |-> <<Origin, 1>>, ev |-> Origin]}]
    <3> DEFINE u == {[att |-> <<Origin, 1>>, ev |-> Origin]}
    <3>0. u \in SUBSET [att : Attempts, ev : Ids]
      BY <1>1, HistoriesTyped
    <3>1. row \in BookingRows
      BY ONLY <2>4, <3>0, HistoriesTyped, RowFields
    <3>2. row.op = NoOp /\ row.status = "confirmed" /\ row.gid = Origin /\ row.start = T0
      BY <2>2, <2>4
    <3> QED BY <1>1, <2>1, <3>1, <3>2 DEF RowShape
  <2> QED BY <1>4, <2>3, <2>4 DEF History
<1> QED BY <1>2, <1>3, <1>4

LEMMA StartTyped == Init => Typed
<1> SUFFICES ASSUME Init PROVE Typed
  OBVIOUS
<1>1. PICK s \in Scenarios : route = s.calls /\ world = s.world /\ History(s.history)
  BY DEF Init
<1>2. /\ s.history \in {"none", "made", "failed"} /\ s.world \in Worlds
      /\ s.calls \in [Workers -> Routes]
  BY ScenariosAreWellFormed
<1>3. row \in BookingRows /\ cal \in [Ids -> Events] /\ late \subseteq CalendarRequests /\ RowShape
  BY <1>1, <1>2, HistoryTyped
<1>4. wk = [w \in Workers |-> NewWorker] /\ edits = 0
  BY DEF Init
<1>5. world.hostEdits \in Nat /\ edits \in 0 .. world.hostEdits
  BY <1>1, <1>2, <1>4 DEF Worlds
<1>6. NewWorker.pc = "start" /\ NewWorker.op = NoOp /\ OpShape(NoOp) /\ NoOp.kind = "none"
  BY DEF NewWorker, OpShape, NoOp
<1>7. \A w \in Workers : WorkerShape(wk[w], route[w])
  BY <1>4, <1>6 DEF WorkerShape, KindFits, RouteFits, HandFits
<1> QED BY <1>1, <1>2, <1>3, <1>4, <1>5, <1>7, NewWorkerTyped DEF Typed, TypeOK, Shape

LEMMA StepsTyped == Typed /\ [Next]_vars => Typed'
<1>1. ASSUME Typed, Next PROVE Typed'
  BY <1>1, WorkerStepTyped, WorldStepTyped DEF Next
<1>2. ASSUME Typed, UNCHANGED vars PROVE Typed'
  BY <1>2 DEF Typed, TypeOK, Shape, RowShape, vars, given
<1> QED BY <1>1, <1>2

\* Whatever calls run, however many, in whatever order and with whatever failures: the
\* row's columns, Google's events and every worker's memory hold what rows.ts:39 and
\* ops.ts declare, and no call reaches a step of its flow with an operation of a kind,
\* an event id or an attempt that the step cannot work on.
THEOREM LifecycleTyping == Spec => []TypeOK /\ []Typed
<1>1. Typed => TypeOK
  BY DEF Typed
<1> QED BY <1>1, StartTyped, StepsTyped, PTL DEF Spec

-----------------------------------------------------------------------------
(* Who owns the booking's operation.                                       *)

\* Two sightings of an operation that no takeover separates.
Alike(o, p) ==
  /\ o.kind = p.kind /\ o.id = p.id /\ o.gen = p.gen
  /\ o.start = p.start /\ o.event = p.event /\ o.old = p.old
  /\ o.etag = p.etag /\ o.fallback = p.fallback

\* An operation is named by the call that minted it, and is of the kind its route mints.
Minted(o) ==
  o.kind # "none" =>
    /\ o.id \in Workers
    /\ o.kind = "create" <=> route[o.id] = "create"
    /\ o.kind = "reschedule" <=> route[o.id] = "reschedule"
    /\ o.kind = "cancel" <=> route[o.id] = "cancel"
    /\ o.kind = "calendar_repair" <=> route[o.id] = "notify"

AllMinted ==
  /\ Minted(row.op) /\ \A w \in Workers : Minted(wk[w].op)
  /\ row.unfinished # None => row.unfinished.id \in Workers /\ route[row.unfinished.id] = "create"

\* A call never remembers a later generation than the row, or than the creation a cancel
\* carries, and under the same generation it remembers the same operation.
Behind ==
  \A w \in Workers : wk[w].op.kind # "none" =>
    /\ row.op.id = wk[w].op.id =>
         wk[w].op.gen <= row.op.gen /\ (wk[w].op.gen = row.op.gen => Alike(wk[w].op, row.op))
    /\ row.unfinished # None /\ row.unfinished.id = wk[w].op.id /\ row.op.id # wk[w].op.id =>
         wk[w].op.gen <= row.unfinished.gen

\* A call that may still mint its operation: nothing bears its id yet.
Pristine(w) ==
  wk[w].pc # "done" /\ wk[w].op.id # w /\ (route[w] = "create" => wk[w].pc = "start")

Unused(i) ==
  /\ row.op.id # i /\ (row.unfinished # None => row.unfinished.id # i)
  /\ \A v \in Workers \ {i} : wk[v].op.id # i

PristineUnused == \A w \in Workers : Pristine(w) => Unused(w)

\* A notify mints a repair on the pass that ends it.
RepairsEnd == \A w \in Workers : route[w] = "notify" /\ wk[w].op.id = w => wk[w].pass = 1

\* What the columns say together.
RowRules ==
  /\ row.status # "absent" => (row.cal = "pending" <=> row.action = None)
  /\ row.status = "cancelled" => row.action # None /\ row.op.kind = "none"
  /\ row.status # "absent" /\ row.op.kind = "none" => row.action # None
  /\ row.op.kind = "create" => row.action = None
  /\ row.op.kind \in {"reschedule", "calendar_repair"} => row.action # None
  /\ row.op.kind = "cancel" /\ row.action = None => row.unfinished # None
  /\ row.unfinished # None => row.action = None /\ row.op.kind \in {"create", "cancel"}
  /\ row.op.kind # "reschedule" => row.op.start = None

HoldersHaveRow == \A w \in Workers : wk[w].op.kind # "none" => row.status # "absent"

\* What an answer, or the one a reap will end with, claims of row r.
Claim(r, a, c) ==
  /\ a = "created" => r.action # None
  /\ a = "go" /\ c = "create" => r.action # None
  /\ a = "cancelled" => r.status = "cancelled"
  /\ c = "create" => a # "superseded"

Reaping == {"reap", "sweep", "sweepLook", "retire"}

Claims ==
  \A w \in Workers :
    /\ Claim(row, wk[w].answer, route[w])
    /\ wk[w].pc \in Reaping => Claim(row, wk[w].then, route[w])

\* Only a lost T1 leaves two calls with one generation.
SingleOwner == "T1" \notin world.lostCommits => OneOwner /\ \A w \in Workers : wk[w].pc # "lost"

Owned ==
  /\ Typed /\ AllMinted /\ Behind /\ PristineUnused /\ RepairsEnd
  /\ RowRules /\ HoldersHaveRow /\ Claims /\ SingleOwner
-----------------------------------------------------------------------------
\* The effects.  Of a step on its worker's hold of an operation:

Told(w) ==
  /\ Claim(row', wk'[w].answer, route[w])
  /\ wk'[w].pc \in Reaping => Claim(row', wk'[w].then, route[w])

GoesOn(w) ==
  /\ wk[w].pc # "done" /\ wk'[w].pc \notin {"start", "done", "lost"}
  /\ wk'[w].op = wk[w].op /\ wk'[w].pass = wk[w].pass

Leaves(w) ==
  /\ wk[w].pc # "done" /\ wk'[w].op = NoOp
  /\ \/ wk'[w].pc = "done"
     \/ wk'[w].pc = "start" /\ route[w] # "create" /\ wk[w].op.id # w

Holds(w) ==
  /\ wk[w].pc # "done" /\ wk'[w].pc \notin {"start", "done", "lost"}
  /\ wk'[w].op = row'.op

Loses(w) ==
  /\ wk[w].pc = "start" /\ wk'[w].pc = "lost" /\ "T1" \in world.lostCommits /\ route[w] = "create"
  /\ wk'[w].op = wk[w].op

\* and on the row: nothing but the ledgers and the staleness,
Noted ==
  /\ row'.status = row.status /\ row'.start = row.start /\ row'.rev = row.rev
  /\ row'.action = row.action /\ row'.gid = row.gid /\ row'.etag = row.etag
  /\ row'.cal = row.cal /\ row'.reserved = row.reserved /\ row'.unfinished = row.unfinished
  /\ Alike(row'.op, row.op)

\* or one of the transactions.
Takes(w) ==
  /\ wk[w].pc \in {"start", "lost", "t1", "cancelT1"} /\ row.op.kind # "none"
  /\ row' = [row EXCEPT !.op = TakenOver]
  /\ Holds(w) /\ wk'[w].pass = wk[w].pass

Completes(w) ==
  /\ wk[w].pc \in {"t2", "t2fail"} /\ Owns(w)
  /\ row' = Completed(w)
  /\ GoesOn(w) \/ Leaves(w)

Clears(w) ==
  /\ wk[w].pc = "clear" /\ Owns(w)
  /\ row' = Cleared(w)
  /\ Leaves(w)

Creates(w) ==
  /\ wk[w].pc = "start" /\ route[w] = "create" /\ row.status = "absent"
  /\ row' = FreshRow(w)
  /\ Holds(w) \/ Loses(w)

\* An operation just minted works on the booking's event, or on a fallback of its own.
Newborn(o, w) ==
  /\ o.attempts = {} /\ o.event \in {None, row.gid} /\ o.old \in {None, row.gid}
  /\ o.fallback \in {None, w} /\ (o.kind = "reschedule" => o.event = None)

Begins(w) ==
  /\ wk[w].pc \in {"start", "t1", "cancelT1"} /\ row.status = "confirmed" /\ row.op.kind = "none"
  /\ \E o \in Operations, s \in Starts \cup {None} :
       /\ row' = [row EXCEPT !.op = o, !.reserved = s]
       /\ o.id = w /\ o.kind \notin {"none", "create"} /\ Minted(o) /\ Newborn(o, w)
       /\ IF o.kind = "reschedule" THEN o.start = s ELSE o.start = None /\ s = row.reserved
  /\ Holds(w) /\ (route[w] = "notify" => wk'[w].pass = 1)

Replaces(w) ==
  /\ wk[w].pc = "replace" /\ Owns(w) /\ row.status = "confirmed"
  /\ row' = [row EXCEPT !.op = Replacement(w), !.unfinished = Carried(w),
               !.reserved = IF OpOf(w).kind = "reschedule" THEN None ELSE @]
  /\ Holds(w)

Recognizes(w) ==
  /\ wk[w].pc = "lost" /\ route[w] = "create" /\ row.op.kind = "create" /\ row.op.id = w
  /\ row' = row
  /\ Holds(w)

Effect(w) ==
  /\ wk' = [wk EXCEPT ![w] = wk'[w]]
  /\ Told(w)
  /\ \/ Noted /\ (GoesOn(w) \/ Leaves(w))
     \/ row' = row /\ Loses(w)
     \/ Takes(w) \/ Completes(w) \/ Clears(w) \/ Creates(w)
     \/ Begins(w) \/ Replaces(w) \/ Recognizes(w)
-----------------------------------------------------------------------------
\* How a worker's memory is replaced.
LEMMA BecomeIs ==
  ASSUME Typed, NEW w \in Workers, NEW r, Become(w, r)
  PROVE  wk' = [wk EXCEPT ![w] = wk'[w]] /\ wk'[w] = r
BY DEF Become, Typed, TypeOK

LEMMA NotedUnchanged == row' = row => Noted
BY DEF Noted, Alike

LEMMA ClaimsLast ==
  ASSUME Noted, NEW a, NEW c, Claim(row, a, c)
  PROVE  Claim(row', a, c)
BY DEF Noted, Claim

\* A call that answers.
LEMMA EndEffect ==
  ASSUME Owned, NEW w \in Workers, NEW a, wk[w].pc # "done", Claim(row', a, route[w]), End(w, a)
  PROVE  wk' = [wk EXCEPT ![w] = wk'[w]] /\ Told(w) /\ Leaves(w)
<1> DEFINE r == [NewWorker EXCEPT !.pc = "done", !.answer = a, !.wrote = wk[w].wrote]
<1>1. r.pc = "done" /\ r.op = NoOp /\ r.answer = a
  BY DEF NewWorker
<1>2. Become(w, r)
  BY DEF End
<1> HIDE DEF r
<1>3. wk' = [wk EXCEPT ![w] = wk'[w]] /\ wk'[w] = r
  BY <1>2, BecomeIs DEF Owned
<1> QED BY <1>1, <1>3 DEF Told, Leaves, Reaping

LEMMA EndsEffect ==
  ASSUME Owned, NEW w \in Workers, NEW a, wk[w].pc # "done", End(w, a),
         a \notin {"created", "go", "cancelled"}, route[w] = "create" => a # "superseded"
  PROVE  wk' = [wk EXCEPT ![w] = wk'[w]] /\ Told(w) /\ Leaves(w)
BY EndEffect DEF Claim

\* A call that starts over: never a create, and never out of the operation it minted.
LEMMA RestartEffect ==
  ASSUME Owned, NEW w \in Workers, NEW i, wk[w].pc # "done", Restart(w, i),
         route[w] # "create", wk[w].op.id # w
  PROVE  wk' = [wk EXCEPT ![w] = wk'[w]] /\ Told(w) /\ Leaves(w)
<1> DEFINE r == [NewWorker EXCEPT !.pass = 1, !.rev = i, !.n = wk[w].n]
<1>1. CASE End(w, "in_progress")
  BY <1>1, EndsEffect
<1>2. CASE Become(w, r)
  <2>1. r.pc = "start" /\ r.op = NoOp /\ r.answer = None
    BY DEF NewWorker
  <2> HIDE DEF r
  <2>2. wk' = [wk EXCEPT ![w] = wk'[w]] /\ wk'[w] = r
    BY <1>2, BecomeIs DEF Owned
  <2>3. Claim(row', None, route[w])
    BY NoneIsNoValue DEF Claim, Nexts, Answers
  <2> QED BY <2>1, <2>2, <2>3 DEF Told, Leaves, Reaping
<1> QED BY <1>1, <1>2 DEF Restart

\* A call that goes on with the operation it holds.
LEMMA GoesOnEffect ==
  ASSUME Owned, NEW w \in Workers, NEW r, Become(w, r), wk[w].pc # "done",
         r.op = wk[w].op, r.pass = wk[w].pass, r.answer = wk[w].answer,
         r.pc \notin {"start", "done", "lost"},
         r.pc \in Reaping => Claim(row', r.then, route[w]),
         Claim(row', wk[w].answer, route[w])
  PROVE  wk' = [wk EXCEPT ![w] = wk'[w]] /\ Told(w) /\ GoesOn(w)
<1>1. wk' = [wk EXCEPT ![w] = wk'[w]] /\ wk'[w] = r
  BY BecomeIs DEF Owned
<1> QED BY <1>1 DEF Told, GoesOn

\* The commonest step: the row is as it was, or only noted in, and the call goes on.
LEMMA PlainEffect ==
  ASSUME Owned, NEW w \in Workers, NEW r, Become(w, r), wk[w].pc # "done",
         r.op = wk[w].op, r.pass = wk[w].pass, r.answer = wk[w].answer,
         r.pc \notin {"start", "done", "lost"},
         r.pc \in Reaping => wk[w].pc \in Reaping /\ r.then = wk[w].then,
         Noted
  PROVE  Effect(w)
<1>1. Claim(row', wk[w].answer, route[w])
  BY ClaimsLast DEF Owned, Claims
<1>2. r.pc \in Reaping => Claim(row', r.then, route[w])
  BY ClaimsLast DEF Owned, Claims
<1> QED BY <1>1, <1>2, GoesOnEffect DEF Effect

LEMMA PlainGoto ==
  ASSUME Owned, NEW w \in Workers, NEW p, Goto(w, p), wk[w].pc # "done",
         p \notin {"start", "done", "lost"}, p \in Reaping => wk[w].pc \in Reaping,
         Noted
  PROVE  Effect(w)
<1> DEFINE r == [wk[w] EXCEPT !.pc = p]
<1>1. /\ r.pc = p /\ r.op = wk[w].op /\ r.pass = wk[w].pass /\ r.answer = wk[w].answer
      /\ r.then = wk[w].then
  BY Known DEF Owned, WorkerStates
<1>2. Become(w, r)
  BY DEF Goto
<1> HIDE DEF r
<1> QED BY <1>1, <1>2, PlainEffect

LEMMA PlainEnd ==
  ASSUME Owned, NEW w \in Workers, NEW a, wk[w].pc # "done", End(w, a), Noted,
         a \notin {"created", "go", "cancelled"}, route[w] = "create" => a # "superseded"
  PROVE  Effect(w)
BY EndsEffect DEF Effect

LEMMA PlainRestart ==
  ASSUME Owned, NEW w \in Workers, NEW i, wk[w].pc # "done", Restart(w, i), Noted,
         route[w] # "create", wk[w].op.id # w
  PROVE  Effect(w)
BY RestartEffect DEF Effect
-----------------------------------------------------------------------------
\* The shared calendar steps.
LEMMA LedgerNoted ==
  ASSUME Typed, NEW s, row' = [row EXCEPT !.op.attempts = s]
  PROVE  Noted
BY Known DEF Noted, Alike, Typed, TypeOK, BookingRows, Operations

LEMMA ResolvedNoted ==
  ASSUME Typed, NEW w \in Workers, NEW out, row' = Resolved(w, out)
  PROVE  Noted
BY LedgerNoted, NotedUnchanged DEF Resolved

LEMMA RetiredNoted ==
  ASSUME Typed, NEW a, RetireAttempt(a)
  PROVE  Noted
BY DEF Noted, Alike, Typed, TypeOK, BookingRows, RetireAttempt

LEMMA AppendEffect ==
  ASSUME Owned, NEW w \in Workers, NEW e, wk[w].pc # "done", AppendInsert(w, e)
  PROVE  Effect(w)
<1>1. Noted
  BY LedgerNoted DEF AppendInsert, Owned
<1> DEFINE a == <<w, wk[w].n + 1>>
           mine == IF OpOf(w).kind = "create" /\ wk[w].own = None
                     THEN [ev |-> e, att |-> a, tag |-> None] ELSE wk[w].own
           r == [wk[w] EXCEPT !.pc = "insert", !.at = e, !.att = a, !.n = @ + 1,
                              !.tries = @ + 1, !.own = mine]
<1>2. Become(w, r)
  BY DEF AppendInsert
<1>3. r.pc = "insert" /\ r.op = wk[w].op /\ r.pass = wk[w].pass /\ r.answer = wk[w].answer
  BY Known DEF Owned, WorkerStates
<1> HIDE DEF r
<1> QED BY <1>1, <1>2, <1>3, PlainEffect DEF Reaping

LEMMA InsertEffect ==
  ASSUME Owned, NEW w \in Workers, Insert(w)
  PROVE  Effect(w)
<1>1. wk[w].pc = "insert" /\ Noted
  BY NotedUnchanged DEF Insert, At
<1>2. CASE End(w, "unknown")
  BY <1>1, <1>2, PlainEnd
<1>3. ASSUME NEW g, NEW own, Become(w, [wk[w] EXCEPT !.pc = "finish", !.got = g, !.own = own])
      PROVE  Effect(w)
  <2> DEFINE r == [wk[w] EXCEPT !.pc = "finish", !.got = g, !.own = own]
  <2>1. r.pc = "finish" /\ r.op = wk[w].op /\ r.pass = wk[w].pass /\ r.answer = wk[w].answer
    BY Known DEF Owned, WorkerStates
  <2>2. Become(w, r)
    BY <1>3
  <2> HIDE DEF r
  <2> QED BY <1>1, <2>1, <2>2, PlainEffect DEF Reaping
<1> QED BY <1>2, <1>3 DEF Insert

LEMMA FinishEffect ==
  ASSUME Owned, NEW w \in Workers, Finish(w)
  PROVE  Effect(w)
<1>1. wk[w].pc = "finish" /\ Noted
  BY ResolvedNoted DEF Finish, At, Owned
<1>2. CASE Become(w, [wk[w] EXCEPT !.pc = "t2", !.res = [ev |-> wk[w].at, tag |-> wk[w].own.tag]])
  <2> DEFINE r == [wk[w] EXCEPT !.pc = "t2", !.res = [ev |-> wk[w].at, tag |-> wk[w].own.tag]]
  <2>1. r.pc = "t2" /\ r.op = wk[w].op /\ r.pass = wk[w].pass /\ r.answer = wk[w].answer
    BY Known DEF Owned, WorkerStates
  <2>2. Become(w, r)
    BY <1>2
  <2> HIDE DEF r
  <2> QED BY <1>1, <2>1, <2>2, PlainEffect DEF Reaping
<1>3. CASE \E p \in {"look", "t2fail", "clear"} : Goto(w, p)
  BY <1>1, <1>3, PlainGoto DEF Reaping
<1> QED BY <1>2, <1>3 DEF Finish

LEMMA LookEffect ==
  ASSUME Owned, NEW w \in Workers, Look(w)
  PROVE  Effect(w)
<1>1. wk[w].pc = "look"
  BY DEF Look, At
<1>2. ASSUME NEW res, NEW own, Become(w, [wk[w] EXCEPT !.pc = "t2", !.res = res, !.own = own]), row' = row
      PROVE  Effect(w)
  <2> DEFINE r == [wk[w] EXCEPT !.pc = "t2", !.res = res, !.own = own]
  <2>1. r.pc = "t2" /\ r.op = wk[w].op /\ r.pass = wk[w].pass /\ r.answer = wk[w].answer
    BY Known DEF Owned, WorkerStates
  <2>2. Become(w, r)
    BY <1>2
  <2> HIDE DEF r
  <2> QED BY <1>1, <1>2, <2>1, <2>2, PlainEffect, NotedUnchanged DEF Reaping
<1>3. CASE \E e : AppendInsert(w, e)
  BY <1>1, <1>3, AppendEffect
<1>4. CASE row' = row /\ \E a \in {"in_progress", "unknown"} : End(w, a)
  BY <1>1, <1>4, PlainEnd, NotedUnchanged
<1>5. CASE row' = row /\ Goto(w, "clear")
  BY <1>1, <1>5, PlainGoto, NotedUnchanged DEF Reaping
<1> QED BY <1>2, <1>3, <1>4, <1>5 DEF Look

LEMMA BumpEffect ==
  ASSUME Owned, NEW w \in Workers, Bump(w)
  PROVE  Effect(w)
<1>1. wk[w].pc = "bump" /\ Noted
  BY NotedUnchanged DEF Bump, At
<1>2. wk[w].then \in {"judge", "judged", "calendar", "reconcile"} /\ route[w] # "create"
  BY <1>1, Known DEF WorkerShape, KindFits, RouteFits, Owned
<1>3. CASE Goto(w, wk[w].then)
  BY <1>1, <1>2, <1>3, PlainGoto DEF Reaping
<1>4. ASSUME NEW d, Become(w, [wk[w] EXCEPT !.todo = d, !.seen = None])
      PROVE  Effect(w)
  <2> DEFINE r == [wk[w] EXCEPT !.todo = d, !.seen = None]
  <2>1. r.pc = "bump" /\ r.op = wk[w].op /\ r.pass = wk[w].pass /\ r.answer = wk[w].answer
    BY <1>1, Known DEF Owned, WorkerStates
  <2>2. Become(w, r)
    BY <1>4
  <2> HIDE DEF r
  <2> QED BY <1>1, <2>1, <2>2, PlainEffect DEF Reaping
<1>5. ASSUME NEW e, NEW v, NEW d,
             Become(w, [wk[w] EXCEPT !.pc = "bumping", !.at = e, !.tag = v, !.todo = d])
      PROVE  Effect(w)
  <2> DEFINE r == [wk[w] EXCEPT !.pc = "bumping", !.at = e, !.tag = v, !.todo = d]
  <2>1. r.pc = "bumping" /\ r.op = wk[w].op /\ r.pass = wk[w].pass /\ r.answer = wk[w].answer
    BY Known DEF Owned, WorkerStates
  <2>2. Become(w, r)
    BY <1>5
  <2> HIDE DEF r
  <2> QED BY <1>1, <2>1, <2>2, PlainEffect DEF Reaping
<1>6. CASE End(w, "superseded")
  BY <1>1, <1>2, <1>6, PlainEnd
<1> QED BY <1>3, <1>4, <1>5, <1>6 DEF Bump

LEMMA BumpingEffect ==
  ASSUME Owned, NEW w \in Workers, Bumping(w)
  PROVE  Effect(w)
<1>1. wk[w].pc = "bumping" /\ Noted
  BY NotedUnchanged DEF Bumping, At
<1>2. CASE End(w, "unknown")
  BY <1>1, <1>2, PlainEnd
<1>3. ASSUME NEW e, Become(w, [wk[w] EXCEPT !.pc = "bump", !.seen = e])
      PROVE  Effect(w)
  <2> DEFINE r == [wk[w] EXCEPT !.pc = "bump", !.seen = e]
  <2>1. r.pc = "bump" /\ r.op = wk[w].op /\ r.pass = wk[w].pass /\ r.answer = wk[w].answer
    BY Known DEF Owned, WorkerStates
  <2>2. Become(w, r)
    BY <1>3
  <2> HIDE DEF r
  <2> QED BY <1>1, <2>1, <2>2, PlainEffect DEF Reaping
<1> QED BY <1>2, <1>3 DEF Bumping

\* Steps of a reap keep what it will end with.
LEMMA ReapStep ==
  ASSUME Owned, NEW w \in Workers, Reap(w) \/ Sweep(w) \/ SweepLook(w) \/ Retire(w)
  PROVE  Effect(w)
<1>1. wk[w].pc \in Reaping /\ Noted
  BY NotedUnchanged, RetiredNoted DEF Reap, Sweep, SweepLook, Retire, At, Owned, Reaping
<1>2. CASE \E p \in Reaping : Goto(w, p)
  BY <1>1, <1>2, PlainGoto DEF Reaping
<1>3. ASSUME NEW e, NEW v, NEW a, NEW i, NEW d,
             Become(w, [wk[w] EXCEPT !.pc = "sweep", !.at = e, !.tag = v, !.att = a, !.tries = i,
                                     !.todo = d])
      PROVE  Effect(w)
  <2> DEFINE r == [wk[w] EXCEPT !.pc = "sweep", !.at = e, !.tag = v, !.att = a, !.tries = i,
                                !.todo = d]
  <2>1. /\ r.pc = "sweep" /\ r.op = wk[w].op /\ r.pass = wk[w].pass /\ r.answer = wk[w].answer
        /\ r.then = wk[w].then
    BY Known DEF Owned, WorkerStates
  <2>2. Become(w, r)
    BY <1>3
  <2> HIDE DEF r
  <2> QED BY <1>1, <2>1, <2>2, PlainEffect DEF Reaping
<1>4. ASSUME NEW d, Become(w, [wk[w] EXCEPT !.todo = d])
      PROVE  Effect(w)
  <2> DEFINE r == [wk[w] EXCEPT !.todo = d]
  <2>1. /\ r.pc = wk[w].pc /\ r.op = wk[w].op /\ r.pass = wk[w].pass /\ r.answer = wk[w].answer
        /\ r.then = wk[w].then
    BY Known DEF Owned, WorkerStates
  <2>2. Become(w, r)
    BY <1>4
  <2> HIDE DEF r
  <2> QED BY <1>1, <2>1, <2>2, PlainEffect DEF Reaping
<1>5. ASSUME NEW v, Become(w, [wk[w] EXCEPT !.pc = "sweep", !.tag = v, !.tries = 1])
      PROVE  Effect(w)
  <2> DEFINE r == [wk[w] EXCEPT !.pc = "sweep", !.tag = v, !.tries = 1]
  <2>1. /\ r.pc = "sweep" /\ r.op = wk[w].op /\ r.pass = wk[w].pass /\ r.answer = wk[w].answer
        /\ r.then = wk[w].then
    BY Known DEF Owned, WorkerStates
  <2>2. Become(w, r)
    BY <1>5
  <2> HIDE DEF r
  <2> QED BY <1>1, <2>1, <2>2, PlainEffect DEF Reaping
<1>6. CASE Reap(w)
  BY <1>3, <1>4, <1>6 DEF Reap
<1>7. CASE Sweep(w)
  BY <1>2, <1>7 DEF Sweep, Reaping
<1>8. CASE SweepLook(w)
  BY <1>2, <1>5, <1>8 DEF SweepLook, Reaping
<1>9. CASE Retire(w)
  BY <1>2, <1>9 DEF Retire, Reaping
<1> QED BY <1>6, <1>7, <1>8, <1>9
-----------------------------------------------------------------------------
\* The endings.

\* The owner of the row's operation remembers it as it is.
LEMMA OwnerAlike ==
  ASSUME Owned, NEW w \in Workers, Owns(w), wk[w].op.kind # "none"
  PROVE  Alike(wk[w].op, row.op) /\ row.status # "absent"
BY DEF Owned, Behind, Owns, OpOf, HoldersHaveRow

\* A route's own operation, and so what it inherits, is told from its kind.
LEMMA OwnKind ==
  ASSUME Owned, NEW w \in Workers, wk[w].op.id = w, wk[w].op.kind # "none"
  PROVE  /\ wk[w].op.kind = "create" => route[w] = "create"
         /\ wk[w].op.kind = "reschedule" => route[w] = "reschedule"
         /\ wk[w].op.kind = "cancel" => route[w] = "cancel"
         /\ wk[w].op.kind = "calendar_repair" => route[w] = "notify" /\ wk[w].pass = 1
BY DEF Owned, AllMinted, Minted, RepairsEnd

LEMMA ContinueEffect ==
  ASSUME Owned, NEW w \in Workers, wk[w].pc # "done", Continue(w),
         wk[w].op.kind \in {"create", "calendar_repair"},
         route[w] = "create" => row'.action # None
  PROVE  wk' = [wk EXCEPT ![w] = wk'[w]] /\ Told(w) /\ Leaves(w)
<1>1. CASE route[w] = "create" /\ End(w, "created")
  BY <1>1, EndEffect DEF Claim
<1>2. CASE route[w] # "create" /\ End(w, "ok")
  BY <1>2, EndsEffect
<1>3. CASE /\ route[w] # "create" /\ (route[w] = "notify" => wk[w].pass = 0)
           /\ \E i : Restart(w, i)
  <2>1. wk[w].op.id # w
    BY <1>3, OwnKind
  <2> QED BY <1>3, <2>1, RestartEffect
<1> QED BY <1>1, <1>2, <1>3 DEF Continue

\* The row as its completing transaction leaves it.
LEMMA CompletedColumns ==
  ASSUME Owned, NEW w \in Workers, wk[w].pc \in {"t2", "t2fail"}, Owns(w), row' = Completed(w)
  PROVE  /\ row'.op = NoOp /\ row'.action # None /\ row'.unfinished = None
         /\ row'.cal \in {"created", "failed", "deleted"} /\ row.status # "absent"
         /\ row'.status = IF wk[w].op.kind = "cancel" THEN "cancelled" ELSE row.status
         /\ row'.start = IF wk[w].op.kind = "reschedule" THEN wk[w].op.start ELSE row.start
         /\ row'.reserved = IF wk[w].op.kind \in {"reschedule", "cancel"} THEN None
                            ELSE row.reserved
<1>1. /\ wk[w].op.kind \in {"create", "reschedule", "cancel", "calendar_repair"}
      /\ Typed /\ Ended \in BookingRows
  BY Known, OperationParts, EndedTyped DEF WorkerShape, KindFits, Owned
<1>2. Alike(wk[w].op, row.op) /\ row.status # "absent"
  BY <1>1, OwnerAlike
<1>3. None \notin Actions
  BY NoneIsNoValue
<1>4. CASE wk[w].op.kind = "create"
  BY <1>1, <1>2, <1>3, <1>4, EndedParts
     DEF Completed, CompletedCreate, OpOf, BookingRows, Actions, Owned, RowRules
<1>5. CASE wk[w].op.kind = "calendar_repair"
  BY <1>1, <1>2, <1>5, EndedParts
     DEF Completed, CompletedRepair, OpOf, BookingRows, Owned, RowRules, Alike
<1>6. CASE wk[w].op.kind = "reschedule"
  BY <1>1, <1>2, <1>3, <1>6, EndedParts
     DEF Completed, CompletedReschedule, OpOf, BookingRows, Actions, Owned, RowRules, Alike
<1>7. CASE wk[w].op.kind = "cancel"
  BY <1>1, <1>2, <1>3, <1>7, EndedParts
     DEF Completed, CompletedCancel, OpOf, BookingRows, Actions
<1> QED BY <1>1, <1>4, <1>5, <1>6, <1>7

LEMMA DoneEffect ==
  ASSUME Owned, NEW w \in Workers, wk[w].pc # "done", wk[w].op.kind # "none", Done(w),
         wk[w].op.kind = "create" => row'.action # None,
         wk[w].op.kind = "cancel" => row'.status = "cancelled"
  PROVE  wk' = [wk EXCEPT ![w] = wk'[w]] /\ Told(w) /\ Leaves(w)
<1>1. CASE wk[w].op.kind \in {"create", "calendar_repair"} /\ Continue(w)
  <2>1. route[w] = "create" => wk[w].op.kind = "create"
    BY <1>1, Known DEF WorkerShape, RouteFits, Owned
  <2> QED BY <1>1, <2>1, ContinueEffect
<1>2. CASE wk[w].op.kind = "cancel" /\ End(w, "cancelled")
  BY <1>2, EndEffect DEF Claim
<1>3. CASE wk[w].op.kind = "reschedule" /\ route[w] = "cancel" /\ Restart(w, wk[w].rev + 1)
  BY <1>3, OwnKind, RestartEffect
<1>4. CASE End(w, "moved") \/ End(w, "changed")
  BY <1>4, EndsEffect
<1> QED BY <1>1, <1>2, <1>3, <1>4, Known, OperationParts DEF Done, OpOf, Owned

LEMMA NotOwnerEffect ==
  ASSUME Owned, NEW w \in Workers, wk[w].pc # "done", NotOwner(w), UNCHANGED row
  PROVE  Effect(w)
<1>1. CASE route[w] = "cancel" /\ wk[w].op.id # w /\ Restart(w, wk[w].rev + 1)
  BY <1>1, PlainRestart, NotedUnchanged
<1>2. CASE End(w, "in_progress")
  BY <1>2, PlainEnd, NotedUnchanged
<1>3. ASSUME NEW g, Become(w, [wk[w] EXCEPT !.pc = "superseded", !.got = g])
      PROVE  Effect(w)
  <2> DEFINE r == [wk[w] EXCEPT !.pc = "superseded", !.got = g]
  <2>1. r.pc = "superseded" /\ r.op = wk[w].op /\ r.pass = wk[w].pass /\ r.answer = wk[w].answer
    BY Known DEF Owned, WorkerStates
  <2>2. Become(w, r)
    BY <1>3
  <2> HIDE DEF r
  <2> QED BY <2>1, <2>2, PlainEffect, NotedUnchanged DEF Reaping
<1> QED BY <1>1, <1>2, <1>3 DEF NotOwner, OpOf

LEMMA T2Effect ==
  ASSUME Owned, NEW w \in Workers, T2(w)
  PROVE  Effect(w)
<1>1. wk[w].pc \in {"t2", "t2fail"}
  BY DEF T2, At
<1>2. wk[w].op.kind # "none"
  BY <1>1, Known DEF WorkerShape, KindFits, Owned
<1>3. CASE NotOwner(w) /\ UNCHANGED row
  BY <1>1, <1>3, NotOwnerEffect
<1>4. CASE Owns(w) /\ row' = Completed(w) /\ Done(w)
  BY <1>1, <1>2, <1>4, CompletedColumns, DoneEffect DEF Effect, Completes
<1>5. CASE Owns(w) /\ row' = Completed(w) /\ Become(w, [wk[w] EXCEPT !.pc = "settle", !.wrote = TRUE])
  <2> DEFINE r == [wk[w] EXCEPT !.pc = "settle", !.wrote = TRUE]
  <2>1. r.pc = "settle" /\ r.op = wk[w].op /\ r.pass = wk[w].pass /\ r.answer = wk[w].answer
    BY Known DEF Owned, WorkerStates
  <2>2. Become(w, r)
    BY <1>5
  <2> HIDE DEF r
  <2>3. Claim(row', wk[w].answer, route[w])
    BY <1>1, <1>5, CompletedColumns DEF Owned, Claims, Claim, RowRules
  <2> QED BY <1>1, <1>5, <2>1, <2>2, <2>3, GoesOnEffect DEF Reaping, Effect, Completes
<1>6. CASE UNCHANGED row /\ \E p \in {"settle", "rolledBack"} : Goto(w, p)
  BY <1>1, <1>6, PlainGoto, NotedUnchanged DEF Reaping
<1> QED BY <1>3, <1>4, <1>5, <1>6 DEF T2

LEMMA SettleEffect ==
  ASSUME Owned, NEW w \in Workers, Settle(w)
  PROVE  Effect(w)
<1>1. wk[w].pc = "settle" /\ row' = row /\ Noted
  BY NotedUnchanged DEF Settle, At
<1>2. wk[w].op.kind # "none"
  BY <1>1, Known DEF WorkerShape, KindFits, Owned
<1>3. CASE DidCommit(w) /\ Done(w)
  BY <1>1, <1>2, <1>3, DoneEffect DEF DidCommit, OpOf, Effect
<1>4. CASE Goto(w, "rolledBack")
  BY <1>1, <1>4, PlainGoto DEF Reaping
<1> QED BY <1>3, <1>4 DEF Settle

LEMMA UndoEffect ==
  ASSUME Owned, NEW w \in Workers, RolledBack(w) \/ Compensate(w)
  PROVE  Effect(w)
<1>1. wk[w].pc \in {"rolledBack", "compensate"} /\ Noted
  BY NotedUnchanged DEF RolledBack, Compensate, At
<1>2. CASE Goto(w, "compensate")
  BY <1>1, <1>2, PlainGoto DEF Reaping
<1>3. CASE End(w, "failed")
  BY <1>1, <1>3, PlainEnd
<1> QED BY <1>2, <1>3 DEF RolledBack, Compensate

LEMMA ClearEffect ==
  ASSUME Owned, NEW w \in Workers, Clear(w)
  PROVE  Effect(w)
<1>1. wk[w].pc = "clear"
  BY DEF Clear, At
<1>2. wk[w].op.kind \in {"calendar_repair", "reschedule", "cancel"}
         /\ (route[w] = "create" => wk[w].op.kind = "create")
  BY <1>1, Known DEF WorkerShape, KindFits, RouteFits, Owned
<1>3. CASE row' = (IF Owns(w) THEN Cleared(w) ELSE row) /\ AfterClear(w)
  <2>1. wk' = [wk EXCEPT ![w] = wk'[w]] /\ Told(w) /\ Leaves(w)
    BY <1>1, <1>2, <1>3, ContinueEffect, RestartEffect, EndsEffect DEF AfterClear, OpOf
  <2>2. CASE Owns(w)
    BY <1>1, <1>3, <2>1, <2>2 DEF Effect, Clears
  <2>3. CASE ~Owns(w)
    BY <1>3, <2>1, <2>3, NotedUnchanged DEF Effect
  <2> QED BY <2>2, <2>3
<1>4. CASE UNCHANGED row /\ End(w, "failed")
  BY <1>1, <1>4, PlainEnd, NotedUnchanged
<1> QED BY <1>3, <1>4 DEF Clear

\* What a superseded call answers is true, and for a create never "superseded".
LEMMA SupersededClaim ==
  ASSUME Owned, NEW w \in Workers, wk[w].op.kind # "none"
  PROVE  /\ Claim(row, SupersededAnswer(w), route[w])
         /\ SupersededAnswer(w) \notin {"created", "t1", "inherited"}
         /\ SupersededAnswer(w) = "go" => wk[w].op.kind \in {"create", "calendar_repair"}
<1> DEFINE k == wk[w].op.kind
<1>1. k \in {"create", "reschedule", "cancel", "calendar_repair"} /\ row.status # "absent"
         /\ (route[w] = "create" => k = "create")
  BY Known, OperationParts DEF WorkerShape, RouteFits, Owned, HoldersHaveRow
<1>2. CASE k = "create"
  <2>1. CASE Reached(w)
    BY <1>2, <2>1 DEF Reached, OpOf, SupersededAnswer, Claim
  <2>2. CASE ~Reached(w)
    <3>1. CreateStillOpen(w)
      BY <1>1, <1>2, <2>2 DEF Reached, OpOf, CreateStillOpen, Owned, RowRules
    <3> QED BY <1>2, <2>2, <3>1 DEF SupersededAnswer, OpOf, Claim
  <2> QED BY <2>1, <2>2
<1>3. CASE k # "create"
  BY <1>1, <1>3 DEF Reached, SupersededAnswer, OpOf, Claim
<1> QED BY <1>2, <1>3

LEMMA GoOnEffect ==
  ASSUME Owned, NEW w \in Workers, NEW next, wk[w].pc # "done", GoOn(w, next), UNCHANGED row,
         Claim(row, next, route[w]), next # "created",
         next = "go" => wk[w].op.kind \in {"create", "calendar_repair"}
  PROVE  Effect(w)
<1>1. CASE next = "go"
  <2>1. wk' = [wk EXCEPT ![w] = wk'[w]] /\ Told(w) /\ Leaves(w)
    BY <1>1, ContinueEffect DEF GoOn, Claim
  <2> QED BY <2>1, NotedUnchanged DEF Effect
<1>2. CASE next \in {"t1", "inherited"}
  BY <1>2, PlainGoto, NotedUnchanged DEF GoOn, Reaping
<1>3. CASE next \notin {"go", "t1", "inherited"}
  BY <1>3, EndEffect, NotedUnchanged DEF GoOn, Effect
<1> QED BY <1>1, <1>2, <1>3

LEMMA SupersededEffect ==
  ASSUME Owned, NEW w \in Workers, Superseded(w)
  PROVE  Effect(w)
<1> DEFINE a == SupersededAnswer(w)
           own == wk[w].own
<1>1. wk[w].pc = "superseded" /\ row' = row /\ Noted
  BY NotedUnchanged DEF Superseded, At
<1>2. wk[w].op.kind # "none"
  BY <1>1, Known DEF WorkerShape, KindFits, Owned
<1>3. Claim(row', wk[w].answer, route[w]) /\ Claim(row', a, route[w])
  BY <1>1, <1>2, SupersededClaim DEF Owned, Claims
<1>4. CASE GoOn(w, a)
  BY <1>1, <1>2, <1>4, SupersededClaim, GoOnEffect
<1>5. CASE Become(w, [wk[w] EXCEPT !.todo = {}, !.then = a, !.att = own.att, !.pc = "sweep",
                                   !.at = own.ev, !.tag = own.tag, !.tries = 0])
  <2> DEFINE r == [wk[w] EXCEPT !.todo = {}, !.then = a, !.att = own.att, !.pc = "sweep",
                                !.at = own.ev, !.tag = own.tag, !.tries = 0]
  <2>1. /\ r.pc = "sweep" /\ r.op = wk[w].op /\ r.pass = wk[w].pass /\ r.answer = wk[w].answer
        /\ r.then = a
    BY Known DEF Owned, WorkerStates
  <2>2. Become(w, r)
    BY <1>5
  <2> HIDE DEF r, a
  <2> QED BY <1>1, <1>3, <2>1, <2>2, GoesOnEffect DEF Effect
<1>6. CASE Become(w, [wk[w] EXCEPT !.todo = {}, !.then = a, !.att = own.att, !.pc = "retire"])
  <2> DEFINE r == [wk[w] EXCEPT !.todo = {}, !.then = a, !.att = own.att, !.pc = "retire"]
  <2>1. /\ r.pc = "retire" /\ r.op = wk[w].op /\ r.pass = wk[w].pass /\ r.answer = wk[w].answer
        /\ r.then = a
    BY Known DEF Owned, WorkerStates
  <2>2. Become(w, r)
    BY <1>6
  <2> HIDE DEF r, a
  <2> QED BY <1>1, <1>3, <2>1, <2>2, GoesOnEffect DEF Effect
<1> QED BY <1>4, <1>5, <1>6 DEF Superseded

LEMMA SweptEffect ==
  ASSUME Owned, NEW w \in Workers, Swept(w)
  PROVE  Effect(w)
<1>1. wk[w].pc = "reap" /\ row' = row /\ GoOn(w, wk[w].then)
  BY DEF Swept, At
<1>2. Claim(row, wk[w].then, route[w])
  BY <1>1 DEF Owned, Claims, Reaping
<1>3. wk[w].then = "go" => wk[w].op.kind \in {"create", "calendar_repair"}
  BY <1>1, Known DEF WorkerShape, KindFits, Owned, Answers
<1>4. CASE wk[w].then = "created"
  BY <1>1, <1>2, <1>4, EndEffect, NotedUnchanged DEF GoOn, Effect
<1> QED BY <1>1, <1>2, <1>3, <1>4, GoOnEffect
-----------------------------------------------------------------------------
\* The flows' own transactions and what leads to them.

LEMMA TakeOverEffect ==
  ASSUME Owned, NEW w \in Workers, NEW ids, NEW p, TakeOver(w, ids, p),
         wk[w].pc \in {"start", "lost", "t1", "cancelT1"}, row.op.kind # "none",
         p \in {"look", "judge", "calendar", "reconcile"}
  PROVE  Effect(w)
<1> DEFINE q == IF ids = {} THEN p ELSE "bump"
           o == TakenOver
           r == [wk[w] EXCEPT !.op = o, !.start = row.start, !.todo = ids, !.then = p,
                              !.pc = q, !.tries = 0, !.own = None]
<1>1. Become(w, r) /\ row' = [row EXCEPT !.op = o]
  BY DEF TakeOver
<1> HIDE DEF o, q
<1>2. r.pc = q /\ r.op = o /\ r.pass = wk[w].pass /\ r.answer = wk[w].answer
  BY Known DEF Owned, WorkerStates
<1> HIDE DEF r
<1>3. wk' = [wk EXCEPT ![w] = wk'[w]] /\ wk'[w] = r
  BY <1>1, BecomeIs DEF Owned
<1>4. row'.op = o /\ row'.action = row.action /\ row'.status = row.status
  BY <1>1, Known DEF Owned, BookingRows
<1>5. Told(w)
  BY <1>2, <1>3, <1>4 DEF Told, Owned, Claims, Claim, Reaping, q
<1>6. Takes(w)
  BY <1>1, <1>2, <1>3, <1>4 DEF Takes, Holds, q, o
<1> QED BY <1>3, <1>5, <1>6 DEF Effect

\* A worker given the row's new operation.
LEMMA HoldsEffect ==
  ASSUME Owned, NEW w \in Workers, NEW r, Become(w, r), wk[w].pc # "done",
         r.op = row'.op, r.answer = wk[w].answer,
         r.pc \notin {"start", "done", "lost"} \cup Reaping,
         row'.action = row.action \/ row.status = "absent", row'.status = row.status \/ row.status = "absent"
  PROVE  wk' = [wk EXCEPT ![w] = wk'[w]] /\ wk'[w] = r /\ Told(w) /\ Holds(w)
<1>1. wk' = [wk EXCEPT ![w] = wk'[w]] /\ wk'[w] = r
  BY BecomeIs DEF Owned
<1>2. Claim(row', wk[w].answer, route[w])
  BY Known DEF Owned, Claims, Claim, RowShape
<1> QED BY <1>1, <1>2 DEF Told, Holds

LEMMA CreateT1Effect ==
  ASSUME Owned, NEW w \in Workers, CreateT1(w)
  PROVE  Effect(w)
<1>1. route[w] = "create" /\ wk[w].pc = "start" /\ row.status = "absent"
  BY DEF CreateT1, At
<1>2. CASE row' = FreshRow(w) /\ Become(w, Created(w, row'.op))
  <2> DEFINE r == Created(w, row'.op)
  <2>1. r.pc = "insert" /\ r.op = row'.op /\ r.answer = wk[w].answer
    BY Known DEF Owned, WorkerStates, Created
  <2> HIDE DEF r
  <2>2. Become(w, r)
    BY <1>2 DEF r
  <2> QED BY <1>1, <1>2, <2>1, <2>2, HoldsEffect DEF Effect, Creates, Reaping
<1>3. CASE "T1" \in world.lostCommits /\ row' \in {row, FreshRow(w)} /\ Goto(w, "lost")
  <2> DEFINE r == [wk[w] EXCEPT !.pc = "lost"]
  <2>1. r.pc = "lost" /\ r.op = wk[w].op /\ r.answer = wk[w].answer
    BY Known DEF Owned, WorkerStates
  <2>2. Become(w, r)
    BY <1>3 DEF Goto
  <2> HIDE DEF r
  <2>3. wk' = [wk EXCEPT ![w] = wk'[w]] /\ wk'[w] = r
    BY <2>2, BecomeIs DEF Owned
  <2>4. Claim(row', wk[w].answer, route[w])
    BY <1>1, Known DEF Owned, Claims, Claim, RowShape
  <2> QED BY <1>1, <1>3, <2>1, <2>3, <2>4 DEF Told, Reaping, Effect, Creates, Loses
<1> QED BY <1>2, <1>3 DEF CreateT1

LEMMA ReplayEffect ==
  ASSUME Owned, NEW w \in Workers, Replay(w), wk[w].pc \in {"start", "lost"}
  PROVE  Effect(w)
<1>1. CASE row.op.kind = "create" /\ TakeOver(w, {}, "look")
  BY <1>1, TakeOverEffect
<1>2. CASE End(w, "in_progress") /\ UNCHANGED row
  BY <1>2, PlainEnd, NotedUnchanged
<1>3. CASE row.action # None /\ End(w, "created") /\ UNCHANGED row
  BY <1>3, EndEffect, NotedUnchanged DEF Claim, Effect
<1> QED BY <1>1, <1>2, <1>3 DEF Replay

LEMMA ReconcileT1Effect ==
  ASSUME Owned, NEW w \in Workers, ReconcileT1(w)
  PROVE  Effect(w)
<1>1. wk[w].pc = "lost" /\ route[w] = "create"
  BY Known DEF ReconcileT1, At, WorkerShape, RouteFits, Owned
<1>2. CASE End(w, "failed") /\ UNCHANGED row
  BY <1>1, <1>2, PlainEnd, NotedUnchanged
<1>3. CASE row.op.kind = "create" /\ row.op.id = w /\ Become(w, Created(w, row.op)) /\ UNCHANGED row
  <2> DEFINE r == Created(w, row.op)
  <2>1. r.pc = "insert" /\ r.op = row.op /\ r.answer = wk[w].answer
    BY Known DEF Owned, WorkerStates, Created
  <2> HIDE DEF r
  <2>2. Become(w, r)
    BY <1>3 DEF r
  <2> QED BY <1>1, <1>3, <2>1, <2>2, HoldsEffect DEF Effect, Recognizes, Reaping
<1>4. CASE Replay(w)
  BY <1>1, <1>4, ReplayEffect
<1> QED BY <1>2, <1>3, <1>4 DEF ReconcileT1

\* A worker that sets out to reap.
LEMMA BeginReapEffect ==
  ASSUME Owned, NEW w \in Workers, NEW i, NEW next, wk[w].pc # "done", row' = row,
         Claim(row, next, route[w]),
         Become(w, [wk[w] EXCEPT !.rev = i, !.pc = "reap", !.todo = EligibleReapIds, !.then = next])
  PROVE  Effect(w)
<1> DEFINE r == [wk[w] EXCEPT !.rev = i, !.pc = "reap", !.todo = EligibleReapIds, !.then = next]
<1>1. /\ r.pc = "reap" /\ r.op = wk[w].op /\ r.pass = wk[w].pass /\ r.answer = wk[w].answer
      /\ r.then = next
  BY Known DEF Owned, WorkerStates
<1>2. Become(w, r)
  OBVIOUS
<1> HIDE DEF r
<1>3. Claim(row', wk[w].answer, route[w])
  BY DEF Owned, Claims
<1> QED BY <1>1, <1>2, <1>3, GoesOnEffect, NotedUnchanged DEF Reaping, Effect

\* The same worker with its remembered revision written out.
LEMMA SameRevision ==
  ASSUME Owned, NEW w \in Workers, NEW d, NEW next,
         Become(w, [wk[w] EXCEPT !.pc = "reap", !.todo = d, !.then = next])
  PROVE  Become(w, [wk[w] EXCEPT !.rev = wk[w].rev, !.pc = "reap", !.todo = d, !.then = next])
<1>1. wk[w] \in WorkerStates
  BY Known DEF Owned
<1>2. [wk[w] EXCEPT !.pc = "reap", !.todo = d, !.then = next]
        = [wk[w] EXCEPT !.rev = wk[w].rev, !.pc = "reap", !.todo = d, !.then = next]
  BY <1>1 DEF WorkerStates
<1> QED BY <1>2

LEMMA ReapsEffect ==
  ASSUME Owned, NEW w \in Workers, NEW next, wk[w].pc # "done", row' = row,
         Claim(row, next, route[w]), BeginReap(w, next)
  PROVE  Effect(w)
BY SameRevision, BeginReapEffect DEF BeginReap

LEMMA NotifyEffect ==
  ASSUME Owned, NEW w \in Workers, NotifyRecovers(w) \/ NotifyRepairs(w) \/ Read(w)
  PROVE  Effect(w)
<1>1. wk[w].pc = "start" /\ route[w] \in {"notify", "read"}
  BY DEF NotifyRecovers, NotifyRepairs, Read, At
<1>2. CASE row.op.kind # "none" /\ TakeOver(w, {}, "look")
  BY <1>1, <1>2, TakeOverEffect
<1>3. CASE UNCHANGED row /\ \E a \in {"in_progress", "ok"} : End(w, a)
  BY <1>1, <1>3, PlainEnd, NotedUnchanged
<1>4. CASE UNCHANGED row /\ BeginReap(w, "ok")
  BY <1>1, <1>4, ReapsEffect DEF Claim
<1>5. CASE /\ route[w] = "notify"
           /\ row.status = "confirmed" /\ row.cal = "failed" /\ row.op.kind = "none"
           /\ row' = [row EXCEPT !.op = [BeginOp("calendar_repair", w) EXCEPT !.event = row.gid]]
           /\ Become(w, [wk[w] EXCEPT !.pass = 1, !.pc = "look", !.op = row'.op, !.start = row.start])
  <2> DEFINE o == [BeginOp("calendar_repair", w) EXCEPT !.event = row.gid]
             r == [wk[w] EXCEPT !.pass = 1, !.pc = "look", !.op = row'.op, !.start = row.start]
  <2>1. /\ r.pc = "look" /\ r.op = row'.op /\ r.answer = wk[w].answer /\ r.pass = 1
    BY Known DEF Owned, WorkerStates
  <2>2. Become(w, r) /\ row' = [row EXCEPT !.op = o]
    BY <1>5
  <2>3. o \in Operations
    BY BegunTyped, Known, RowParts, OperationFields DEF Owned, Ids
  <2>4. o.kind = "calendar_repair" /\ o.id = w /\ o.start = None /\ Newborn(o, w)
    BY DEF BeginOp, NoOp, Newborn
  <2> HIDE DEF r, o
  <2>5. /\ row' = [row EXCEPT !.op = o, !.reserved = row.reserved]
        /\ row'.action = row.action /\ row'.status = row.status /\ row.reserved \in Starts \cup {None}
    BY <2>2, Known DEF Owned, BookingRows
  <2>6. Minted(o)
    BY <1>5, <2>4 DEF Minted
  <2>7. wk' = [wk EXCEPT ![w] = wk'[w]] /\ wk'[w] = r /\ Told(w) /\ Holds(w)
    BY <1>1, <2>1, <2>2, <2>5, HoldsEffect DEF Reaping
  <2>8. Begins(w)
    BY <1>1, <1>5, <2>1, <2>3, <2>4, <2>5, <2>6, <2>7 DEF Begins
  <2> QED BY <2>7, <2>8 DEF Effect
<1> QED BY <1>2, <1>3, <1>4, <1>5 DEF NotifyRecovers, NotifyRepairs, Read
-----------------------------------------------------------------------------
LEMMA RescheduleStartEffect ==
  ASSUME Owned, NEW w \in Workers, RescheduleStart(w) \/ RescheduleRefused(w)
  PROVE  Effect(w)
<1>1. route[w] = "reschedule" /\ wk[w].pc \in {"start", "t1"} /\ row' = row /\ Noted
  BY NotedUnchanged DEF RescheduleStart, RescheduleRefused, At
<1>2. CASE \E a \in {"changed", "in_progress"} : End(w, a)
  BY <1>1, <1>2, PlainEnd
<1> DEFINE i == IF wk[w].pass = 0 THEN row.rev ELSE wk[w].rev
<1> HIDE DEF i
<1>3. CASE Become(w, [wk[w] EXCEPT !.rev = i, !.pc = "reap", !.todo = EligibleReapIds, !.then = "t1"])
  BY <1>1, <1>3, BeginReapEffect DEF Claim
<1>4. CASE Become(w, [wk[w] EXCEPT !.rev = i, !.pc = "t1"])
  <2> DEFINE r == [wk[w] EXCEPT !.rev = i, !.pc = "t1"]
  <2>1. r.pc = "t1" /\ r.op = wk[w].op /\ r.pass = wk[w].pass /\ r.answer = wk[w].answer
    BY Known DEF Owned, WorkerStates
  <2>2. Become(w, r)
    BY <1>4
  <2> HIDE DEF r
  <2> QED BY <1>1, <2>1, <2>2, PlainEffect DEF Reaping
<1>5. RescheduleStart(w) => \/ Become(w, [wk[w] EXCEPT !.rev = i, !.pc = "reap",
                                                      !.todo = EligibleReapIds, !.then = "t1"])
                            \/ Become(w, [wk[w] EXCEPT !.rev = i, !.pc = "t1"])
  <2>1. wk[w] = [wk[w] EXCEPT !.rev = wk[w].rev]
    BY Known DEF Owned, WorkerStates
  <2> QED BY <2>1 DEF RescheduleStart, i
<1> QED BY <1>2, <1>3, <1>4, <1>5 DEF RescheduleRefused

LEMMA RescheduleTakesOverEffect ==
  ASSUME Owned, NEW w \in Workers, RescheduleTakesOver(w)
  PROVE  Effect(w)
BY TakeOverEffect DEF RescheduleTakesOver, At

LEMMA RescheduleT1Effect ==
  ASSUME Owned, NEW w \in Workers, RescheduleT1(w)
  PROVE  Effect(w)
<1> DEFINE o == [BeginOp("reschedule", w) EXCEPT !.start = Target[w], !.old = row.gid,
                                                 !.etag = row.etag, !.fallback = w]
           p == IF row.etag = None THEN "observe" ELSE "patch"
           r == [wk[w] EXCEPT !.op = o, !.start = row.start, !.tag = row.etag, !.tries = 0, !.pc = p]
<1>1. /\ route[w] = "reschedule" /\ wk[w].pc = "t1" /\ row.status = "confirmed"
      /\ row.op.kind = "none"
  BY DEF RescheduleT1, At, RescheduleChanged
<1>2. row' = [row EXCEPT !.op = o, !.reserved = Target[w]] /\ Become(w, r)
  BY DEF RescheduleT1
<1>3. BeginOp("reschedule", w) \in Operations /\ w \in Ids /\ Target[w] \in Starts
         /\ row.gid \in Ids \cup {None} /\ row.etag \in Nat \cup {None}
  BY BegunTyped, Known, RowParts DEF Owned, Ids, Starts
<1>4. o \in Operations
  BY ONLY <1>3, OperationFields
<1>5. o.kind = "reschedule" /\ o.id = w /\ o.start = Target[w] /\ Newborn(o, w)
  BY DEF BeginOp, NoOp, Newborn
<1> HIDE DEF o, p
<1>6. r.pc = p /\ r.op = o /\ r.answer = wk[w].answer
  BY Known DEF Owned, WorkerStates
<1> HIDE DEF r
<1>7. row'.op = o /\ row'.action = row.action /\ row'.status = row.status
  BY <1>2, Known DEF Owned, BookingRows
<1>8. wk' = [wk EXCEPT ![w] = wk'[w]] /\ wk'[w] = r /\ Told(w) /\ Holds(w)
  BY <1>1, <1>2, <1>6, <1>7, HoldsEffect DEF Reaping, p
<1>9. Minted(o)
  BY <1>1, <1>5 DEF Minted
<1>10. Begins(w)
  BY <1>1, <1>2, <1>3, <1>4, <1>5, <1>8, <1>9 DEF Begins
<1> QED BY <1>8, <1>10 DEF Effect

LEMMA ObserveEffect ==
  ASSUME Owned, NEW w \in Workers, Observe(w)
  PROVE  Effect(w)
<1>1. wk[w].pc = "observe" /\ Noted
  BY NotedUnchanged DEF Observe, At
<1>2. CASE Goto(w, "fallback") \/ Goto(w, "superseded")
  BY <1>1, <1>2, PlainGoto DEF Reaping
<1>3. ASSUME NEW v, Become(w, [wk[w] EXCEPT !.pc = "patch", !.tag = v])
      PROVE  Effect(w)
  <2> DEFINE r == [wk[w] EXCEPT !.pc = "patch", !.tag = v]
  <2>1. r.pc = "patch" /\ r.op = wk[w].op /\ r.pass = wk[w].pass /\ r.answer = wk[w].answer
    BY Known DEF Owned, WorkerStates
  <2>2. Become(w, r)
    BY <1>3
  <2> HIDE DEF r
  <2> QED BY <1>1, <2>1, <2>2, PlainEffect DEF Reaping
<1> QED BY <1>2, <1>3 DEF Observe

\* A flow that has found its event.
LEMMA FoundEffect ==
  ASSUME Owned, NEW w \in Workers, NEW res, wk[w].pc # "done", Noted,
         Become(w, [wk[w] EXCEPT !.pc = "t2", !.res = res])
  PROVE  Effect(w)
<1> DEFINE r == [wk[w] EXCEPT !.pc = "t2", !.res = res]
<1>1. r.pc = "t2" /\ r.op = wk[w].op /\ r.pass = wk[w].pass /\ r.answer = wk[w].answer
  BY Known DEF Owned, WorkerStates
<1>2. Become(w, r)
  OBVIOUS
<1> HIDE DEF r
<1> QED BY <1>1, <1>2, PlainEffect DEF Reaping

LEMMA PatchEffect ==
  ASSUME Owned, NEW w \in Workers, Patch(w)
  PROVE  Effect(w)
<1>1. wk[w].pc = "patch" /\ Noted
  BY NotedUnchanged DEF Patch, At
<1>2. CASE \E p \in {"reobserve", "fallback", "clear"} : Goto(w, p)
  BY <1>1, <1>2, PlainGoto DEF Reaping
<1>3. CASE End(w, "unknown")
  BY <1>1, <1>3, PlainEnd
<1>4. CASE \E res : Become(w, [wk[w] EXCEPT !.pc = "t2", !.res = res])
  BY <1>1, <1>4, FoundEffect
<1>5. PICK o \in {"applied", "stale", "gone", "refused", "timeout"} :
        CASE o = "applied" ->
               Become(w, [wk[w] EXCEPT !.pc = "t2",
                 !.res = [ev |-> OpOf(w).old, tag |-> cal'[OpOf(w).old].ver]])
          [] o = "timeout" -> End(w, "unknown")
          [] o = "stale" /\ wk[w].tries = 0 -> Goto(w, "reobserve")
          [] o = "gone" /\ wk[w].tries = 0 -> Goto(w, "fallback")
          [] OTHER -> Goto(w, "clear")
  BY DEF Patch
<1>6. \/ \E p \in {"reobserve", "fallback", "clear"} : Goto(w, p)
      \/ End(w, "unknown")
      \/ Become(w, [wk[w] EXCEPT !.pc = "t2",
           !.res = [ev |-> OpOf(w).old, tag |-> cal'[OpOf(w).old].ver]])
  BY ONLY <1>5
<1> QED BY <1>2, <1>3, <1>4, <1>6

LEMMA ReobserveEffect ==
  ASSUME Owned, NEW w \in Workers, Reobserve(w)
  PROVE  Effect(w)
<1>1. wk[w].pc = "reobserve" /\ Noted
  BY NotedUnchanged DEF Reobserve, At
<1>2. route[w] # "create"
  BY <1>1, Known DEF WorkerShape, KindFits, RouteFits, Owned
<1>3. CASE Goto(w, "clear")
  BY <1>1, <1>3, PlainGoto DEF Reaping
<1>4. CASE End(w, "superseded")
  BY <1>1, <1>2, <1>4, PlainEnd
<1>5. CASE \E res : Become(w, [wk[w] EXCEPT !.pc = "t2", !.res = res])
  BY <1>1, <1>5, FoundEffect
<1>6. ASSUME NEW v, Become(w, [wk[w] EXCEPT !.pc = "patch", !.tag = v, !.tries = 1])
      PROVE  Effect(w)
  <2> DEFINE r == [wk[w] EXCEPT !.pc = "patch", !.tag = v, !.tries = 1]
  <2>1. r.pc = "patch" /\ r.op = wk[w].op /\ r.pass = wk[w].pass /\ r.answer = wk[w].answer
    BY Known DEF Owned, WorkerStates
  <2>2. Become(w, r)
    BY <1>6
  <2> HIDE DEF r
  <2> QED BY <1>1, <2>1, <2>2, PlainEffect DEF Reaping
<1> QED BY <1>3, <1>4, <1>5, <1>6 DEF Reobserve

LEMMA InsertFallbackEffect ==
  ASSUME Owned, NEW w \in Workers, InsertFallback(w)
  PROVE  Effect(w)
<1>1. wk[w].pc = "fallback"
  BY DEF InsertFallback, At
<1>2. CASE AppendInsert(w, OpOf(w).fallback)
  BY <1>1, <1>2, AppendEffect
<1>3. CASE Goto(w, "superseded") /\ UNCHANGED row
  BY <1>1, <1>3, PlainGoto, NotedUnchanged DEF Reaping
<1> QED BY <1>2, <1>3 DEF InsertFallback

LEMMA JudgeEffect ==
  ASSUME Owned, NEW w \in Workers, Judge(w) \/ Judged(w)
  PROVE  Effect(w)
<1>1. wk[w].pc \in {"judge", "judged"} /\ Noted
  BY NotedUnchanged DEF Judge, Judged, At
<1>2. ASSUME NEW res, NEW d,
             Become(w, [wk[w] EXCEPT !.res = res, !.pc = "bump", !.todo = d, !.then = "judged"])
      PROVE  Effect(w)
  <2> DEFINE r == [wk[w] EXCEPT !.res = res, !.pc = "bump", !.todo = d, !.then = "judged"]
  <2>1. r.pc = "bump" /\ r.op = wk[w].op /\ r.pass = wk[w].pass /\ r.answer = wk[w].answer
    BY Known DEF Owned, WorkerStates
  <2>2. Become(w, r)
    BY <1>2
  <2> HIDE DEF r
  <2> QED BY <1>1, <2>1, <2>2, PlainEffect DEF Reaping
<1>3. ASSUME NEW res, Become(w, [wk[w] EXCEPT !.res = res, !.pc = IF res = None THEN "clear" ELSE "t2"])
      PROVE  Effect(w)
  <2> DEFINE p == IF res = None THEN "clear" ELSE "t2"
             r == [wk[w] EXCEPT !.res = res, !.pc = p]
  <2>0. p \in {"clear", "t2"}
    OBVIOUS
  <2>2. Become(w, r)
    BY <1>3
  <2> HIDE DEF p
  <2>1. r.pc = p /\ r.op = wk[w].op /\ r.pass = wk[w].pass /\ r.answer = wk[w].answer
    BY Known DEF Owned, WorkerStates
  <2> HIDE DEF r
  <2> QED BY <1>1, <2>0, <2>1, <2>2, PlainEffect DEF Reaping
<1> QED BY <1>2, <1>3 DEF Judge, Judged
-----------------------------------------------------------------------------
LEMMA CancelStartEffect ==
  ASSUME Owned, NEW w \in Workers, CancelStart(w) \/ CancelRefused(w)
  PROVE  Effect(w)
<1>1. wk[w].pc \in {"start", "cancelT1"} /\ row' = row /\ Noted
  BY NotedUnchanged DEF CancelStart, CancelRefused, At
<1>2. CASE \E a \in {"changed", "in_progress"} : End(w, a)
  BY <1>1, <1>2, PlainEnd
<1>3. CASE row.status = "cancelled" /\ BeginReap(w, "cancelled")
  BY <1>1, <1>3, ReapsEffect DEF Claim
<1>4. ASSUME NEW i, Become(w, [wk[w] EXCEPT !.pc = "cancelT1", !.rev = i])
      PROVE  Effect(w)
  <2> DEFINE r == [wk[w] EXCEPT !.pc = "cancelT1", !.rev = i]
  <2>1. r.pc = "cancelT1" /\ r.op = wk[w].op /\ r.pass = wk[w].pass /\ r.answer = wk[w].answer
    BY Known DEF Owned, WorkerStates
  <2>2. Become(w, r)
    BY <1>4
  <2> HIDE DEF r
  <2> QED BY <1>1, <2>1, <2>2, PlainEffect DEF Reaping
<1> QED BY <1>2, <1>3, <1>4 DEF CancelStart, CancelRefused

LEMMA CancelOpIs ==
  ASSUME Owned, NEW w \in Workers, row.status = "confirmed"
  PROVE  /\ CancelOp(w) \in Operations /\ CancelOp(w).kind = "cancel" /\ CancelOp(w).id = w
         /\ CancelOp(w).start = None /\ CancelOp(w).gen = 1 /\ Newborn(CancelOp(w), w)
<1>1. CancelOp(w) \in Operations
  BY CancelOpTyped DEF Owned
<1> QED BY <1>1 DEF CancelOp, BeginOp, NoOp, Newborn

LEMMA CancelT1Effect ==
  ASSUME Owned, NEW w \in Workers, CancelT1(w)
  PROVE  Effect(w)
<1> DEFINE o == CancelOp(w)
           r == [wk[w] EXCEPT !.op = o, !.pc = "calendar"]
<1>1. wk[w].pc = "cancelT1" /\ row.status = "confirmed" /\ row.op.kind = "none"
  BY DEF CancelT1, At, CancelChanged
<1>2. route[w] = "cancel"
  BY <1>1, Known DEF WorkerShape, RouteFits, Owned
<1>3. row' = [row EXCEPT !.op = o] /\ Become(w, r)
  BY DEF CancelT1
<1>4. o \in Operations /\ o.kind = "cancel" /\ o.id = w /\ o.start = None /\ Newborn(o, w)
  BY <1>1, CancelOpIs
<1> HIDE DEF o
<1>5. r.pc = "calendar" /\ r.op = o /\ r.answer = wk[w].answer
  BY Known DEF Owned, WorkerStates
<1> HIDE DEF r
<1>6. /\ row' = [row EXCEPT !.op = o, !.reserved = row.reserved]
      /\ row'.op = o /\ row'.action = row.action /\ row'.status = row.status
      /\ row.reserved \in Starts \cup {None}
  BY <1>3, Known DEF Owned, BookingRows
<1>7. wk' = [wk EXCEPT ![w] = wk'[w]] /\ wk'[w] = r /\ Told(w) /\ Holds(w)
  BY <1>1, <1>3, <1>5, <1>6, HoldsEffect DEF Reaping
<1>8. Minted(o)
  BY <1>2, <1>4 DEF Minted
<1>9. Begins(w)
  BY <1>1, <1>2, <1>4, <1>6, <1>7, <1>8 DEF Begins
<1> QED BY <1>7, <1>9 DEF Effect

LEMMA CancelTakesOverEffect ==
  ASSUME Owned, NEW w \in Workers, CancelTakesOver(w)
  PROVE  Effect(w)
<1>1. row.op.kind # "none"
  BY Known DEF CancelTakesOver, Owned, RowShape, OpShape, NoOp
<1> QED BY <1>1, TakeOverEffect DEF CancelTakesOver, At

LEMMA CancelMovesOn ==
  ASSUME Owned, NEW w \in Workers, Reconcile(w) \/ LiveLook(w) \/ Remove(w) \/ Removed(w)
  PROVE  Effect(w)
<1>1. wk[w].pc \in {"reconcile", "removing", "remove", "delete", "removed", "deleted"} /\ Noted
  BY NotedUnchanged, RetiredNoted DEF Reconcile, LiveLook, Remove, Removed, At, Owned
<1>2. CASE \E p \in {"replace", "inherit", "look", "t2", "superseded", "removed", "deleted", "clear",
                     "removing"} : Goto(w, p)
  BY <1>1, <1>2, PlainGoto DEF Reaping
<1>3. CASE End(w, "unknown")
  BY <1>1, <1>3, PlainEnd
<1>4. ASSUME NEW e, NEW v, NEW a,
             Become(w, [wk[w] EXCEPT !.pc = "delete", !.at = e, !.tag = v, !.att = a])
      PROVE  Effect(w)
  <2> DEFINE r == [wk[w] EXCEPT !.pc = "delete", !.at = e, !.tag = v, !.att = a]
  <2>1. r.pc = "delete" /\ r.op = wk[w].op /\ r.pass = wk[w].pass /\ r.answer = wk[w].answer
    BY Known DEF Owned, WorkerStates
  <2>2. Become(w, r)
    BY <1>4
  <2> HIDE DEF r
  <2> QED BY <1>1, <2>1, <2>2, PlainEffect DEF Reaping
<1>5. Remove(w) => End(w, "unknown") \/ \E p \in {"removed", "deleted", "clear"} : Goto(w, p)
  BY DEF Remove
<1> QED BY <1>2, <1>3, <1>4, <1>5 DEF Reconcile, LiveLook, Removed

LEMMA InheritEffect ==
  ASSUME Owned, NEW w \in Workers, Inherit(w)
  PROVE  Effect(w)
<1>1. wk[w].pc = "inherit" /\ Noted
  BY NotedUnchanged DEF Inherit, At
<1>2. route[w] = "cancel" /\ wk[w].op.kind = "reschedule"
  BY <1>1, Known DEF WorkerShape, KindFits, RouteFits, Owned
<1>3. CASE Restart(w, wk[w].rev + 1)
  BY <1>1, <1>2, <1>3, OwnKind, PlainRestart
<1>4. CASE \E res : Become(w, [wk[w] EXCEPT !.pc = "t2", !.res = res])
  BY <1>1, <1>4, FoundEffect
<1> QED BY <1>3, <1>4 DEF Inherit

LEMMA ReplaceEffect ==
  ASSUME Owned, NEW w \in Workers, Replace(w)
  PROVE  Effect(w)
<1>1. wk[w].pc = "replace"
  BY DEF Replace, At
<1>2. CASE End(w, "in_progress") /\ UNCHANGED row
  BY <1>1, <1>2, PlainEnd, NotedUnchanged
<1>3. CASE /\ Owns(w) /\ ~CancelChanged(w)
           /\ row' = [row EXCEPT !.op = Replacement(w), !.unfinished = Carried(w),
                        !.reserved = IF OpOf(w).kind = "reschedule" THEN None ELSE @]
           /\ Become(w, [wk[w] EXCEPT !.op = Replacement(w), !.pc = "calendar"])
  <2> DEFINE o == Replacement(w)
             r == [wk[w] EXCEPT !.op = o, !.pc = "calendar"]
  <2>1. Become(w, r)
    BY <1>3
  <2> HIDE DEF o
  <2>2. r.pc = "calendar" /\ r.op = o /\ r.answer = wk[w].answer
    BY Known DEF Owned, WorkerStates
  <2> HIDE DEF r
  <2>3. row'.op = o /\ row'.action = row.action /\ row'.status = row.status
    BY <1>3, Known DEF Owned, BookingRows, o
  <2>4. wk' = [wk EXCEPT ![w] = wk'[w]] /\ wk'[w] = r /\ Told(w) /\ Holds(w)
    BY <1>1, <2>1, <2>2, <2>3, HoldsEffect DEF Reaping
  <2>5. Replaces(w)
    BY <1>1, <1>3, <2>4 DEF Replaces, CancelChanged
  <2> QED BY <2>4, <2>5 DEF Effect
<1> QED BY <1>2, <1>3 DEF Replace

LEMMA RemovingEffect ==
  ASSUME Owned, NEW w \in Workers, CancelReaps(w) \/ ClearInherited(w) \/ RemoveLook(w)
  PROVE  Effect(w)
<1>1. wk[w].pc \in {"calendar", "inherited", "removing"} /\ row' = row /\ Noted
  BY NotedUnchanged DEF CancelReaps, ClearInherited, RemoveLook, At
<1>2. CASE BeginReap(w, "inherited")
  BY <1>1, <1>2, ReapsEffect DEF Claim
<1>3. ASSUME NEW d, Become(w, [wk[w] EXCEPT !.pc = "removing", !.todo = d])
      PROVE  Effect(w)
  <2> DEFINE r == [wk[w] EXCEPT !.pc = "removing", !.todo = d]
  <2>1. r.pc = "removing" /\ r.op = wk[w].op /\ r.pass = wk[w].pass /\ r.answer = wk[w].answer
    BY Known DEF Owned, WorkerStates
  <2>2. Become(w, r)
    BY <1>3
  <2> HIDE DEF r
  <2> QED BY <1>1, <2>1, <2>2, PlainEffect DEF Reaping
<1>4. ASSUME NEW d, NEW e, NEW v, NEW a,
             Become(w, [wk[w] EXCEPT !.todo = d, !.pc = "remove", !.at = e, !.tag = v, !.att = a])
      PROVE  Effect(w)
  <2> DEFINE r == [wk[w] EXCEPT !.todo = d, !.pc = "remove", !.at = e, !.tag = v, !.att = a]
  <2>1. r.pc = "remove" /\ r.op = wk[w].op /\ r.pass = wk[w].pass /\ r.answer = wk[w].answer
    BY Known DEF Owned, WorkerStates
  <2>2. Become(w, r)
    BY <1>4
  <2> HIDE DEF r
  <2> QED BY <1>1, <2>1, <2>2, PlainEffect DEF Reaping
<1>5. ASSUME NEW d, wk[w].pc = "removing", Become(w, [wk[w] EXCEPT !.todo = d])
      PROVE  Effect(w)
  <2> DEFINE r == [wk[w] EXCEPT !.todo = d]
  <2>1. r.pc = "removing" /\ r.op = wk[w].op /\ r.pass = wk[w].pass /\ r.answer = wk[w].answer
    BY <1>5, Known DEF Owned, WorkerStates
  <2>2. Become(w, r)
    BY <1>5
  <2> HIDE DEF r
  <2> QED BY <1>1, <2>1, <2>2, PlainEffect DEF Reaping
<1> QED BY <1>2, <1>3, <1>4, <1>5 DEF CancelReaps, ClearInherited, RemoveLook, At

\* Every step of every call is one of the effects.
LEMMA StepEffect ==
  ASSUME Owned, NEW w \in Workers, Step(w)
  PROVE  Effect(w)
<1>1. CASE SharedStep(w)
  BY <1>1, InsertEffect, FinishEffect, LookEffect, BumpEffect, BumpingEffect, ReapStep DEF SharedStep
<1>2. CASE EndingStep(w)
  BY <1>2, T2Effect, SettleEffect, UndoEffect, ClearEffect, SupersededEffect, SweptEffect
     DEF EndingStep
<1>3. CASE CreateFlowStep(w)
  BY <1>3, CreateT1Effect, ReplayEffect, ReconcileT1Effect, NotifyEffect
     DEF CreateFlowStep, CreateReplay, At
<1>4. CASE RescheduleFlowStep(w)
  BY <1>4, RescheduleStartEffect, RescheduleTakesOverEffect, RescheduleT1Effect, ObserveEffect,
     PatchEffect, ReobserveEffect, InsertFallbackEffect, JudgeEffect DEF RescheduleFlowStep
<1>5. CASE CancelFlowStep(w)
  BY <1>5, CancelStartEffect, CancelT1Effect, CancelTakesOverEffect, CancelMovesOn, InheritEffect,
     ReplaceEffect, RemovingEffect DEF CancelFlowStep
<1> QED BY <1>1, <1>2, <1>3, <1>4, <1>5 DEF Step
-----------------------------------------------------------------------------
\* The row as the other transactions leave it.
LEMMA TakenColumns ==
  ASSUME Owned, NEW w \in Workers, Takes(w)
  PROVE  /\ row'.op.kind = row.op.kind /\ row'.op.id = row.op.id /\ row'.op.gen = row.op.gen + 1
         /\ row'.op.start = row.op.start /\ row.op.gen \in Nat
         /\ row'.status = row.status /\ row'.action = row.action /\ row'.cal = row.cal
         /\ row'.unfinished = row.unfinished /\ row'.start = row.start /\ row'.reserved = row.reserved
         /\ row.status # "absent" /\ wk[w].op.kind = "none" /\ wk[w].op.id = None
<1>1. row \in BookingRows /\ row.op \in Operations /\ RowShape /\ WorkerShape(wk[w], route[w])
  BY Known DEF Owned
<1>2. row.status # "absent"
  BY <1>1 DEF Takes, RowShape, NoOp
<1>3. wk[w].op.kind = "none" /\ wk[w].op.id = None
  BY <1>1 DEF Takes, WorkerShape, KindFits, OpShape
<1>4. row' = [row EXCEPT !.op = TakenOver]
  BY DEF Takes
<1>5. /\ TakenOver.kind = row.op.kind /\ TakenOver.id = row.op.id
      /\ TakenOver.gen = row.op.gen + 1 /\ TakenOver.start = row.op.start
  BY <1>1 DEF TakenOver, Operations
<1> QED BY <1>1, <1>2, <1>3, <1>4, <1>5 DEF BookingRows, Operations

LEMMA ClearedColumns ==
  ASSUME Owned, NEW w \in Workers, wk[w].pc = "clear", Owns(w), row' = Cleared(w)
  PROVE  /\ row'.status = row.status /\ row'.action = row.action /\ row'.cal = row.cal
         /\ row'.unfinished = row.unfinished /\ row'.start = row.start
         /\ row.status # "absent" /\ row.op.kind = wk[w].op.kind
         /\ wk[w].op.kind \in {"calendar_repair", "reschedule", "cancel"}
         /\ \/ row.unfinished = None /\ row'.op = NoOp
               /\ row'.reserved = IF wk[w].op.kind = "calendar_repair" THEN row.reserved ELSE None
            \/ /\ row.unfinished # None /\ row.op.kind = "cancel" /\ row'.op.kind = "create"
               /\ row'.op.id = row.unfinished.id /\ row'.op.start = None
               /\ row'.op.gen > row.unfinished.gen /\ row'.op.gen > row.op.gen
               /\ row'.reserved = row.reserved
<1>1. wk[w].op.kind \in {"calendar_repair", "reschedule", "cancel"} /\ Typed /\ Ended \in BookingRows
  BY Known, EndedTyped DEF WorkerShape, KindFits, Owned
<1>2. row.op.kind = wk[w].op.kind /\ row.status # "absent"
  BY <1>1, OwnerAlike DEF Alike
<1>3. CASE wk[w].op.kind = "calendar_repair"
  BY <1>1, <1>2, <1>3, EndedParts DEF Cleared, OpOf, Owned, RowRules
<1>4. CASE wk[w].op.kind = "reschedule"
  BY <1>1, <1>2, <1>4, EndedParts DEF Cleared, OpOf, Owned, RowRules, BookingRows
<1>5. CASE wk[w].op.kind = "cancel" /\ row.unfinished = None
  BY <1>1, <1>2, <1>5, EndedParts DEF Cleared, OpOf, BookingRows
<1>6. CASE wk[w].op.kind = "cancel" /\ row.unfinished # None
  <2>1. row.unfinished.gen \in Nat /\ row.op.gen \in Nat
    BY <1>6, Known, RowParts, OperationParts DEF Creations, Owned
  <2>2. /\ RestoredCreate.kind = "create" /\ RestoredCreate.id = row.unfinished.id
        /\ RestoredCreate.start = None
        /\ RestoredCreate.gen > row.unfinished.gen /\ RestoredCreate.gen > row.op.gen
    BY <2>1 DEF RestoredCreate, NoOp, Larger
  <2>3. row' = [Ended EXCEPT !.op = RestoredCreate]
    BY <1>6 DEF Cleared, OpOf
  <2> QED BY <1>1, <1>2, <1>6, <2>2, <2>3, EndedParts DEF BookingRows
<1> QED BY <1>1, <1>3, <1>4, <1>5, <1>6

LEMMA CreatedColumns ==
  ASSUME Owned, NEW w \in Workers, Creates(w)
  PROVE  /\ row'.op.kind = "create" /\ row'.op.id = w /\ row'.op.gen = 1 /\ row'.op.start = None
         /\ row'.status = "confirmed" /\ row'.action = None /\ row'.cal = "pending"
         /\ row'.unfinished = None /\ row'.start = T0 /\ row'.reserved = None
         /\ row.unfinished = None /\ row.op = NoOp /\ row.action = None /\ row.reserved = None
         /\ row.start = None
         /\ Pristine(w) /\ wk[w].op.kind = "none" /\ wk[w].op.id = None
<1>1. RowShape /\ WorkerShape(wk[w], route[w]) /\ w \in Ids
  BY Known DEF Owned, Ids
<1>2. wk[w].op.kind = "none" /\ wk[w].op.id = None
  BY <1>1 DEF Creates, WorkerShape, KindFits, OpShape
<1>3. Pristine(w)
  BY <1>1, <1>2, NoneIsNoValue DEF Pristine, Creates
<1> QED BY <1>1, <1>2, <1>3 DEF Creates, RowShape, FreshRow, BeginOp, NoOp

LEMMA BegunColumns ==
  ASSUME Owned, NEW w \in Workers, Begins(w)
  PROVE  /\ row'.op.kind \in {"reschedule", "cancel", "calendar_repair"} /\ row'.op.id = w
         /\ Minted(row'.op) /\ Newborn(row'.op, w) /\ row.op.kind = "none"
         /\ row'.gid = row.gid /\ row'.unresolved = row.unresolved
         /\ row'.op.kind # "reschedule" => row'.op.start = None /\ row'.reserved = row.reserved
         /\ row'.op.kind = "reschedule" => row'.op.start = row'.reserved
         /\ row'.status = "confirmed" /\ row.status = "confirmed"
         /\ row'.action = row.action /\ row'.cal = row.cal
         /\ row'.unfinished = row.unfinished /\ row'.start = row.start
         /\ route[w] # "create" /\ Pristine(w) /\ wk[w].op.kind = "none" /\ wk[w].op.id = None
<1>1. row \in BookingRows /\ WorkerShape(wk[w], route[w]) /\ w \in Ids
  BY Known DEF Owned, Ids
<1>2. wk[w].op.kind = "none" /\ wk[w].op.id = None
  BY <1>1 DEF Begins, WorkerShape, KindFits, OpShape
<1>3. PICK o \in Operations, s \in Starts \cup {None} :
       /\ row' = [row EXCEPT !.op = o, !.reserved = s]
       /\ o.id = w /\ o.kind \notin {"none", "create"} /\ Minted(o) /\ Newborn(o, w)
       /\ IF o.kind = "reschedule" THEN o.start = s ELSE o.start = None /\ s = row.reserved
  BY DEF Begins
<1>4. o.kind \in {"reschedule", "cancel", "calendar_repair"}
  BY <1>3, OperationParts
<1>5. route[w] # "create"
  BY <1>3 DEF Minted
<1>6. Pristine(w)
  BY <1>1, <1>2, <1>5, NoneIsNoValue DEF Pristine, Begins
<1>7. /\ row'.op = o /\ row'.reserved = s /\ row'.status = row.status /\ row'.action = row.action
      /\ row'.cal = row.cal /\ row'.unfinished = row.unfinished /\ row'.start = row.start
      /\ row'.gid = row.gid /\ row'.unresolved = row.unresolved
  BY <1>1, <1>3 DEF BookingRows
<1> QED BY <1>2, <1>3, <1>4, <1>5, <1>6, <1>7 DEF Begins

LEMMA ReplacedColumns ==
  ASSUME Owned, NEW w \in Workers, Replaces(w)
  PROVE  /\ row'.op.kind = "cancel" /\ row'.op.id = w /\ row'.op.start = None
         /\ Alike(wk[w].op, row.op) /\ wk[w].op.kind \in Finishable /\ route[w] = "cancel"
         /\ row'.status = "confirmed" /\ row.status = "confirmed"
         /\ row'.action = row.action /\ row'.cal = row.cal /\ row'.start = row.start
         /\ row'.reserved = IF row.op.kind = "reschedule" THEN None ELSE row.reserved
         /\ row.op.kind = "create" => row'.unfinished # None /\ row'.unfinished.id = row.op.id
                                      /\ row'.unfinished.gen = row.op.gen
         /\ row.op.kind # "create" => row'.unfinished = None /\ row.unfinished = None
         /\ wk[w].op.id # w /\ Pristine(w)
<1>1. row \in BookingRows /\ WorkerShape(wk[w], route[w]) /\ w \in Ids /\ wk[w].op.kind \in Finishable
         /\ route[w] = "cancel"
  BY Known DEF Owned, Ids, Replaces, WorkerShape, KindFits, RouteFits
<1>2. Alike(wk[w].op, row.op)
  BY <1>1, OwnerAlike DEF Replaces, Finishable
<1>3. wk[w].op.id # w
  BY <1>1, OwnKind DEF Finishable
<1>4. Pristine(w)
  BY <1>1, <1>3 DEF Pristine, Replaces
<1>5. Replacement(w).kind = "cancel" /\ Replacement(w).id = w /\ Replacement(w).start = None
  BY DEF Replacement, CancelOp, BeginOp, NoOp
<1>6. /\ row'.op = Replacement(w) /\ row'.unfinished = Carried(w) /\ row'.status = row.status
      /\ row'.action = row.action /\ row'.cal = row.cal /\ row'.start = row.start
      /\ row'.reserved = IF wk[w].op.kind = "reschedule" THEN None ELSE row.reserved
  BY <1>1 DEF BookingRows, Replaces, OpOf
<1>7. CASE row.op.kind = "create"
  <2>1. Carried(w) = [id |-> wk[w].op.id, gen |-> wk[w].op.gen, ev |-> wk[w].op.event,
                      attempts |-> wk[w].op.attempts]
    BY <1>2, <1>7 DEF Carried, OpOf, Alike, Owned, RowRules
  <2>2. wk[w].op \in Operations /\ wk[w].op.event \in Ids
    BY <1>1, <1>2, <1>7, Known DEF Owned, Alike, WorkerShape, OpShape
  <2>3. wk[w].op.id \in Ids
    BY <1>2, <1>7, <2>2, Known, OperationParts DEF Owned, WorkerShape, OpShape, Alike
  <2>4. Carried(w) \in Creations
    BY <2>1, <2>2, <2>3, OperationParts DEF Creations
  <2>5. Carried(w) # None
    BY <2>4, NoneIsNoValue
  <2> QED BY <1>1, <1>2, <1>3, <1>4, <1>5, <1>6, <1>7, <2>1, <2>5 DEF Alike, Replaces
<1>8. CASE row.op.kind # "create"
  <2>1. row.unfinished = None
    BY <1>1, <1>2, <1>8 DEF Alike, Finishable, Owned, RowRules
  <2>2. Carried(w) = row.unfinished
    BY <1>2, <1>8 DEF Carried, OpOf, Alike
  <2> QED BY <1>1, <1>2, <1>3, <1>4, <1>5, <1>6, <1>8, <2>1, <2>2 DEF Alike, Replaces
<1> QED BY <1>7, <1>8
-----------------------------------------------------------------------------
\* The effects preserve ownership.

\* The remaining cases of a step, with what the row's operation becomes.
Effects(w) ==
  \/ Noted /\ (GoesOn(w) \/ Leaves(w))
  \/ row' = row /\ Loses(w)
  \/ Takes(w) \/ Completes(w) \/ Clears(w) \/ Creates(w)
  \/ Begins(w) \/ Replaces(w) \/ Recognizes(w)

LEMMA OthersStand ==
  ASSUME Owned, NEW w \in Workers, Effect(w)
  PROVE  Effects(w) /\ \A v \in Workers : v # w => wk'[v] = wk[v]
BY DEF Effect, Effects, Owned, Typed, TypeOK

\* A worker's operation afterwards: as before, none, or the row's.
LEMMA NoOpIs == NoOp.kind = "none" /\ NoOp.id = None /\ NoOp.start = None
BY DEF NoOp

LEMMA MintedStep ==
  ASSUME Owned, NEW w \in Workers, Effect(w), UNCHANGED given
  PROVE  AllMinted'
<1>1. /\ Minted(row.op) /\ \A v \in Workers : Minted(wk[v].op)
      /\ row.unfinished # None => row.unfinished.id \in Workers /\ route[row.unfinished.id] = "create"
      /\ route' = route
  BY DEF Owned, AllMinted, given
<1>2. Minted(NoOp)
  BY NoOpIs DEF Minted
<1>3. /\ Minted(row'.op)
      /\ row'.unfinished # None => row'.unfinished.id \in Workers /\ route[row'.unfinished.id] = "create"
  <2>1. CASE Noted
    BY <1>1, <2>1 DEF Noted, Alike, Minted
  <2>2. CASE row' = row
    BY <1>1, <2>2
  <2>3. CASE Takes(w)
    BY <1>1, <2>3, TakenColumns DEF Minted
  <2>4. CASE Completes(w)
    BY <1>2, <2>4, CompletedColumns DEF Completes
  <2>5. CASE Clears(w)
    BY <1>1, <1>2, <2>5, ClearedColumns DEF Clears, Minted
  <2>6. CASE Creates(w)
    BY <2>6, CreatedColumns DEF Minted, Creates
  <2>7. CASE Begins(w)
    BY <1>1, <2>7, BegunColumns
  <2>8. CASE Replaces(w)
    BY <1>1, <2>8, ReplacedColumns DEF Minted
  <2>9. CASE Recognizes(w)
    BY <1>1, <2>9 DEF Recognizes
  <2> QED BY <2>1, <2>2, <2>3, <2>4, <2>5, <2>6, <2>7, <2>8, <2>9, OthersStand DEF Effects
<1>4. Minted(wk'[w].op)
  BY <1>1, <1>2, <1>3, OthersStand
     DEF Effects, GoesOn, Leaves, Loses, Takes, Completes, Clears, Creates, Begins, Replaces, Recognizes, Holds
<1>5. \A v \in Workers : Minted(wk'[v].op)
  BY <1>1, <1>4, OthersStand
<1> QED BY <1>1, <1>3, <1>5 DEF AllMinted, Minted

\* A call that is pristine afterwards was so before.
LEMMA PristineBefore ==
  ASSUME Owned, NEW w \in Workers, Effect(w), UNCHANGED given, NEW v \in Workers, Pristine(v)'
  PROVE  Pristine(v) /\ (v = w => ~Creates(w) /\ ~Begins(w) /\ ~Replaces(w) /\ ~Recognizes(w))
<1>1. route' = route
  BY DEF given
<1>2. CASE v # w
  BY <1>1, <1>2, OthersStand DEF Pristine
<1>3. CASE v = w
  <2>1. wk'[w].pc # "done" /\ wk'[w].op.id # w /\ (route[w] = "create" => wk'[w].pc = "start")
    BY <1>1, <1>3 DEF Pristine
  <2>2. GoesOn(w) => Pristine(w)
    BY <2>1 DEF GoesOn, Pristine
  <2>3. Leaves(w) => Pristine(w)
    BY <2>1, NoneIsNoValue DEF Leaves, Pristine, Ids
  <2>4. ~Loses(w)
    BY <2>1 DEF Loses
  <2>5. Takes(w) => Pristine(w)
    <3> SUFFICES ASSUME Takes(w) PROVE Pristine(w)
      OBVIOUS
    <3>1. wk[w].op.id # w /\ route[w] # "create"
      BY <2>1, TakenColumns, NoneIsNoValue DEF Ids, Takes, Holds
    <3> QED BY <3>1 DEF Pristine, Takes, Holds
  <2>6. ~(Creates(w) /\ Holds(w)) /\ ~Begins(w) /\ ~Replaces(w) /\ ~Recognizes(w)
    BY <2>1, CreatedColumns, BegunColumns, ReplacedColumns DEF Holds, Begins, Replaces, Recognizes
  <2>7. ~Creates(w)
    BY <2>4, <2>6, <2>1 DEF Creates, Loses
  <2>8. Pristine(w)
    BY <2>2, <2>3, <2>4, <2>5, <2>6, <2>7, OthersStand DEF Effects, Completes, Clears
  <2> QED BY <1>3, <2>6, <2>7, <2>8
<1> QED BY <1>2, <1>3

LEMMA UnusedStep ==
  ASSUME Owned, NEW w \in Workers, Effect(w), UNCHANGED given
  PROVE  PristineUnused'
<1> SUFFICES ASSUME NEW v \in Workers, Pristine(v)'
             PROVE  Unused(v)'
  BY DEF PristineUnused
<1>1. Pristine(v) /\ (v = w => ~Creates(w) /\ ~Begins(w) /\ ~Replaces(w) /\ ~Recognizes(w))
  BY PristineBefore
<1>2. Unused(v) /\ v # None
  BY <1>1, NoneIsNoValue DEF Owned, PristineUnused, Ids
<1>3. row'.op.id # v /\ (row'.unfinished # None => row'.unfinished.id # v)
  <2>1. CASE Noted
    BY <1>2, <2>1 DEF Noted, Alike, Unused
  <2>2. CASE row' = row
    BY <1>2, <2>2 DEF Unused
  <2>3. CASE Takes(w)
    BY <1>2, <2>3, TakenColumns DEF Unused
  <2>4. CASE Completes(w)
    BY <1>2, <2>4, CompletedColumns, NoOpIs DEF Completes, Unused
  <2>5. CASE Clears(w)
    BY <1>2, <2>5, ClearedColumns, NoOpIs DEF Clears, Unused
  <2>6. CASE Creates(w)
    BY <1>1, <2>6, CreatedColumns
  <2>7. CASE Begins(w)
    BY <1>1, <1>2, <2>7, BegunColumns DEF Unused
  <2>8. CASE Replaces(w)
    BY <1>1, <1>2, <2>8, ReplacedColumns DEF Unused
  <2>9. CASE Recognizes(w)
    BY <1>2, <2>9 DEF Recognizes, Unused
  <2> QED BY <2>1, <2>2, <2>3, <2>4, <2>5, <2>6, <2>7, <2>8, <2>9, OthersStand DEF Effects
<1>4. \A u \in Workers \ {v} : wk'[u].op.id # v
  <2> SUFFICES ASSUME NEW u \in Workers \ {v} PROVE wk'[u].op.id # v
    OBVIOUS
  <2>1. wk[u].op.id # v
    BY <1>2 DEF Unused
  <2>2. CASE u # w
    BY <2>1, <2>2, OthersStand
  <2>3. CASE u = w
    <3>1. wk'[w].op = wk[w].op \/ wk'[w].op = NoOp \/ wk'[w].op = row'.op
      <4>1. GoesOn(w) \/ Leaves(w) \/ Holds(w) \/ Loses(w)
        BY OthersStand DEF Effects, Takes, Completes, Clears, Creates, Begins, Replaces, Recognizes
      <4> QED BY <4>1 DEF GoesOn, Leaves, Holds, Loses
    <3> QED BY <1>2, <1>3, <2>1, <2>3, <3>1, NoOpIs
  <2> QED BY <2>2, <2>3
<1> QED BY <1>3, <1>4 DEF Unused

LEMMA RepairsEndStep ==
  ASSUME Owned, NEW w \in Workers, Effect(w), UNCHANGED given
  PROVE  RepairsEnd'
<1> SUFFICES ASSUME NEW v \in Workers, route[v] = "notify", wk'[v].op.id = v
             PROVE  wk'[v].pass = 1
  BY DEF RepairsEnd, given
<1>1. CASE v # w
  BY <1>1, OthersStand DEF Owned, RepairsEnd
<1>2. CASE v = w
  <2>1. wk[w].op.id = w => wk[w].pass = 1
    BY <1>2 DEF Owned, RepairsEnd
  <2>2. CASE Takes(w)
    <3>1. Pristine(w)
      BY <1>2, <2>2, TakenColumns, NoneIsNoValue DEF Pristine, Ids, Takes
    <3>2. row.op.id # w
      BY <3>1 DEF Owned, PristineUnused, Unused
    <3> QED BY <1>2, <2>2, <3>2, TakenColumns DEF Takes, Holds
  <2>3. ~Creates(w) /\ ~Replaces(w) /\ ~Recognizes(w) /\ ~Loses(w)
    BY <1>2, ReplacedColumns DEF Creates, Recognizes, Loses
  <2>4. NoOp.id # w
    BY NoOpIs, NoneIsNoValue DEF Ids
  <2> QED BY <1>2, <2>1, <2>2, <2>3, <2>4, OthersStand
          DEF Effects, GoesOn, Leaves, Completes, Clears, Begins
<1> QED BY <1>1, <1>2

LEMMA RowRulesStep ==
  ASSUME Owned, NEW w \in Workers, Effect(w), UNCHANGED given
  PROVE  RowRules'
<1>1. RowRules /\ RowShape /\ OpShape(row.op) /\ row.op \in Operations
  BY Known DEF Owned, RowShape
<1>2. CASE Noted
  BY <1>1, <1>2 DEF Noted, Alike, RowRules
<1>3. CASE row' = row
  BY <1>1, <1>3 DEF RowRules
<1>4. CASE Takes(w)
  BY <1>1, <1>4, TakenColumns DEF RowRules
<1>5. CASE Completes(w)
  BY <1>1, <1>5, CompletedColumns, NoOpIs DEF RowRules, Completes
<1>6. CASE Clears(w)
  BY <1>1, <1>6, ClearedColumns, NoOpIs DEF RowRules, Clears
<1>7. CASE Creates(w)
  BY <1>7, CreatedColumns DEF RowRules
<1>8. CASE Begins(w)
  BY <1>1, <1>8, BegunColumns DEF RowRules
<1>9. CASE Replaces(w)
  <2>1. row.op.kind \in Finishable
    BY <1>9, ReplacedColumns DEF Alike
  <2> QED BY <1>1, <1>9, <2>1, ReplacedColumns DEF RowRules, Finishable
<1>10. CASE Recognizes(w)
  BY <1>1, <1>10 DEF Recognizes, RowRules
<1> QED BY <1>2, <1>3, <1>4, <1>5, <1>6, <1>7, <1>8, <1>9, <1>10, OthersStand DEF Effects

\* What is settled stays settled: a row stays, an answered creation and a cancellation too.
LEMMA SettledLasts ==
  ASSUME Owned, NEW w \in Workers, Effect(w)
  PROVE  /\ row.status # "absent" => row'.status # "absent"
         /\ row.action # None => row'.action # None
         /\ row.status = "cancelled" => row'.status = "cancelled"
<1>1. CASE Noted
  BY <1>1 DEF Noted
<1>2. CASE row' = row
  BY <1>2
<1>3. CASE Takes(w)
  BY <1>3, TakenColumns
<1>4. CASE Completes(w)
  BY <1>4, CompletedColumns DEF Completes
<1>5. CASE Clears(w)
  BY <1>5, ClearedColumns DEF Clears
<1>6. CASE Creates(w)
  BY <1>6, CreatedColumns DEF Creates
<1>7. CASE Begins(w)
  BY <1>7, BegunColumns
<1>8. CASE Replaces(w)
  BY <1>8, ReplacedColumns
<1>9. CASE Recognizes(w)
  BY <1>9 DEF Recognizes
<1> QED BY <1>1, <1>2, <1>3, <1>4, <1>5, <1>6, <1>7, <1>8, <1>9, OthersStand DEF Effects

LEMMA HoldersStep ==
  ASSUME Owned, NEW w \in Workers, Effect(w), Typed'
  PROVE  HoldersHaveRow'
<1> SUFFICES ASSUME NEW v \in Workers, wk'[v].op.kind # "none"
             PROVE  row'.status # "absent"
  BY DEF HoldersHaveRow
<1>1. CASE wk[v].op.kind # "none"
  BY <1>1, SettledLasts DEF Owned, HoldersHaveRow
<1>2. CASE wk'[v].op = row'.op
  BY <1>2, NoOpIs DEF Typed, Shape, RowShape
<1>3. wk'[v].op \in {wk[v].op, NoOp, row'.op}
  BY OthersStand DEF Effects, GoesOn, Leaves, Loses, Takes, Completes, Clears, Creates, Begins,
     Replaces, Recognizes, Holds
<1> QED BY <1>1, <1>2, <1>3, NoOpIs

LEMMA ClaimsStep ==
  ASSUME Owned, NEW w \in Workers, Effect(w), UNCHANGED given
  PROVE  Claims'
<1> SUFFICES ASSUME NEW v \in Workers
             PROVE  /\ Claim(row', wk'[v].answer, route[v])
                    /\ wk'[v].pc \in Reaping => Claim(row', wk'[v].then, route[v])
  BY DEF Claims, given
<1>1. CASE v = w
  BY <1>1 DEF Effect, Told
<1>2. CASE v # w
  <2>1. wk'[v] = wk[v]
    BY <1>2, OthersStand
  <2>2. /\ Claim(row, wk[v].answer, route[v])
        /\ wk[v].pc \in Reaping => Claim(row, wk[v].then, route[v])
    BY DEF Owned, Claims
  <2> QED BY <2>1, <2>2, SettledLasts DEF Claim
<1> QED BY <1>1, <1>2

\* What the actor remembers afterwards.
LEMMA ActorHolds ==
  ASSUME Owned, NEW w \in Workers, Effect(w)
  PROVE  \/ wk'[w].op \in {wk[w].op, NoOp}
         \/ wk'[w].op = row'.op
BY OthersStand DEF Effects, GoesOn, Leaves, Loses, Takes, Completes, Clears, Creates, Begins,
   Replaces, Recognizes, Holds

LEMMA BehindStep ==
  ASSUME Owned, NEW w \in Workers, Effect(w), AllMinted', Typed'
  PROVE  Behind'
<1> DEFINE NotAhead(o, p) == o.gen <= p.gen /\ (o.gen = p.gen => Alike(o, p))
<1> SUFFICES ASSUME NEW v \in Workers, wk'[v].op.kind # "none"
             PROVE  /\ row'.op.id = wk'[v].op.id => NotAhead(wk'[v].op, row'.op)
                    /\ row'.unfinished # None /\ row'.unfinished.id = wk'[v].op.id
                         /\ row'.op.id # wk'[v].op.id => wk'[v].op.gen <= row'.unfinished.gen
  BY DEF Behind
<1>1. /\ wk[v].op \in Operations /\ row.op \in Operations /\ wk'[v].op \in Operations
      /\ row'.op \in Operations
      /\ row.unfinished # None => row.unfinished.gen \in Nat
  BY Known, WorkerParts, RowParts DEF Owned, Typed, TypeOK, Creations
<1>2. /\ wk[v].op.gen \in Nat /\ row.op.gen \in Nat /\ row'.op.gen \in Nat
  BY <1>1, OperationParts
<1>3. wk'[v].op.id \in Workers /\ wk'[v].op.id # None
  BY NoneIsNoValue DEF AllMinted, Minted, Ids
<1>4. CASE wk'[v].op = row'.op
  BY <1>2, <1>4 DEF Alike
<1>5. CASE wk'[v].op = wk[v].op
  <2>1. wk[v].op.kind # "none"
    BY <1>5
  <2>2. /\ row.op.id = wk[v].op.id => NotAhead(wk[v].op, row.op)
        /\ row.unfinished # None /\ row.unfinished.id = wk[v].op.id /\ row.op.id # wk[v].op.id =>
             wk[v].op.gen <= row.unfinished.gen
    BY <2>1 DEF Owned, Behind
  <2>3. CASE Noted
    <3>1. Alike(row'.op, row.op) /\ row'.unfinished = row.unfinished
      BY <2>3 DEF Noted
    <3>2. row'.op.gen = row.op.gen /\ row'.op.id = row.op.id
             /\ (Alike(wk[v].op, row.op) => Alike(wk[v].op, row'.op))
      BY <3>1 DEF Alike
    <3> QED BY <1>5, <2>2, <3>1, <3>2
  <2>4. CASE row' = row
    BY <1>5, <2>2, <2>4
  <2>5. CASE Takes(w)
    BY <1>2, <1>5, <2>2, <2>5, TakenColumns
  <2>6. CASE Completes(w)
    BY <1>3, <2>6, CompletedColumns, NoOpIs DEF Completes
  <2>7. CASE Clears(w)
    BY <1>1, <1>2, <1>3, <1>5, <2>2, <2>7, ClearedColumns, NoOpIs DEF Clears
  <2>8. CASE Creates(w)
    <3>1. Unused(w) /\ row'.unfinished = None /\ row'.op.id = w /\ wk[w].op.kind = "none"
      BY <2>8, CreatedColumns DEF Owned, PristineUnused
    <3>2. wk[v].op.id # w
      BY <2>1, <3>1 DEF Unused
    <3> QED BY <1>5, <3>1, <3>2
  <2>9. CASE Begins(w)
    <3>1. Unused(w) /\ row'.unfinished = row.unfinished /\ row'.op.id = w /\ wk[w].op.kind = "none"
             /\ row.op.kind = "none"
      BY <2>9, BegunColumns DEF Owned, PristineUnused
    <3>2. wk[v].op.id # w
      BY <2>1, <3>1 DEF Unused
    <3>3. row.unfinished = None
      BY <3>1 DEF Owned, RowRules
    <3> QED BY <1>5, <3>1, <3>2, <3>3
  <2>10. CASE Replaces(w)
    <3>1. Unused(w) /\ row'.op.id = w /\ wk[w].op.id # w
      BY <2>10, ReplacedColumns DEF Owned, PristineUnused
    <3>2. wk[v].op.id # w
      BY <3>1 DEF Unused
    <3> QED BY <1>5, <2>2, <3>1, <3>2, <2>10, ReplacedColumns
  <2>11. CASE Recognizes(w)
    BY <1>5, <2>2, <2>11 DEF Recognizes
  <2> QED BY <2>3, <2>4, <2>5, <2>6, <2>7, <2>8, <2>9, <2>10, <2>11, OthersStand DEF Effects
<1>6. wk'[v].op # NoOp
  BY NoOpIs
<1> QED BY <1>4, <1>5, <1>6, ActorHolds, OthersStand

\* A call that takes or mints an operation shares its id and generation with nobody.
LEMMA NewHolderAlone ==
  ASSUME Owned, NEW w \in Workers, Takes(w) \/ Creates(w) \/ Begins(w) \/ Replaces(w),
         NEW v \in Workers, v # w, wk[v].op.kind # "none", wk[v].op.id = row'.op.id
  PROVE  wk[v].op.gen # row'.op.gen
<1>1. CASE Takes(w)
  <2>1. wk[v].op.gen \in Nat /\ wk[v].op.gen <= row.op.gen
    BY <1>1, TakenColumns, Known, OperationParts DEF Owned, Behind
  <2> QED BY <1>1, <2>1, TakenColumns
<1>2. CASE Creates(w) \/ Begins(w) \/ Replaces(w)
  <2>1. Pristine(w) /\ row'.op.id = w
    BY <1>2, CreatedColumns, BegunColumns, ReplacedColumns
  <2>2. wk[v].op.id # w
    BY <2>1 DEF Owned, PristineUnused, Unused
  <2> QED BY <2>1, <2>2
<1> QED BY <1>1, <1>2

LEMMA SingleOwnerStep ==
  ASSUME Owned, NEW w \in Workers, Effect(w), UNCHANGED given
  PROVE  SingleOwner'
<1> SUFFICES ASSUME "T1" \notin world.lostCommits
             PROVE  OneOwner' /\ \A v \in Workers : wk'[v].pc # "lost"
  BY DEF SingleOwner, given
<1>1. OneOwner /\ \A v \in Workers : wk[v].pc # "lost"
  BY DEF Owned, SingleOwner
<1>2. ~Loses(w) /\ ~Recognizes(w)
  BY <1>1 DEF Loses, Recognizes
<1>3. wk'[w].pc # "lost"
  BY <1>2, OthersStand DEF Effects, GoesOn, Leaves, Takes, Completes, Clears, Creates, Begins,
     Replaces, Holds
<1>4. \A v \in Workers : wk'[v].pc # "lost"
  BY <1>1, <1>3, OthersStand
<1>5. \/ wk'[w].op \in {wk[w].op, NoOp}
      \/ wk'[w].op = row'.op /\ (Takes(w) \/ Creates(w) \/ Begins(w) \/ Replaces(w))
  BY <1>2, OthersStand DEF Effects, GoesOn, Leaves, Takes, Completes, Clears, Creates, Begins,
     Replaces, Holds
<1>6. ASSUME NEW v \in Workers, v # w, wk[v].op.kind # "none", wk'[w].op.kind # "none",
             wk[v].op.id = wk'[w].op.id
      PROVE  wk[v].op.gen # wk'[w].op.gen
  <2>1. CASE wk'[w].op = wk[w].op
    BY <1>1, <1>6, <2>1 DEF OneOwner
  <2>2. CASE wk'[w].op = row'.op /\ (Takes(w) \/ Creates(w) \/ Begins(w) \/ Replaces(w))
    BY <1>6, <2>2, NewHolderAlone
  <2> QED BY <1>5, <1>6, <2>1, <2>2, NoOpIs
<1>7. OneOwner'
  <2> SUFFICES ASSUME NEW u \in Workers, NEW v \in Workers, u # v,
                      wk'[u].op.kind # "none", wk'[v].op.kind # "none", wk'[u].op.id = wk'[v].op.id
               PROVE  wk'[u].op.gen # wk'[v].op.gen
    BY DEF OneOwner
  <2>1. CASE u = w
    BY <1>6, <2>1, OthersStand
  <2>2. CASE v = w
    BY <1>6, <2>2, OthersStand
  <2>3. CASE u # w /\ v # w
    BY <1>1, <2>3, OthersStand DEF OneOwner
  <2> QED BY <2>1, <2>2, <2>3
<1> QED BY <1>4, <1>7

LEMMA OwnedStep ==
  ASSUME Owned, NEW w \in Workers, Step(w)
  PROVE  Owned'
<1>1. Effect(w) /\ UNCHANGED given
  BY StepEffect DEF Step
<1>2. Typed'
  BY WorkerStepTyped DEF Owned
<1>3. AllMinted'
  BY <1>1, MintedStep
<1> QED BY <1>1, <1>2, <1>3, BehindStep, UnusedStep, RepairsEndStep, RowRulesStep, HoldersStep,
           ClaimsStep, SingleOwnerStep DEF Owned

\* Nothing but staleness and the ledgers changes, and no call moves.
LEMMA OwnedRests ==
  ASSUME Owned, Typed', Noted, wk' = wk, UNCHANGED given
  PROVE  Owned'
<1>1. route' = route /\ world' = world
  BY DEF given
<1>2. AllMinted'
  BY <1>1 DEF Owned, AllMinted, Minted, Noted, Alike
<1>3. Behind'
  <2> SUFFICES ASSUME NEW w \in Workers, wk[w].op.kind # "none"
               PROVE  /\ row'.op.id = wk[w].op.id =>
                           /\ wk[w].op.gen <= row'.op.gen
                           /\ wk[w].op.gen = row'.op.gen => Alike(wk[w].op, row'.op)
                      /\ row'.unfinished # None /\ row'.unfinished.id = wk[w].op.id
                           /\ row'.op.id # wk[w].op.id => wk[w].op.gen <= row'.unfinished.gen
    BY DEF Behind
  <2>1. Alike(row'.op, row.op) /\ row'.unfinished = row.unfinished
    BY DEF Noted
  <2>2. row'.op.id = row.op.id /\ row'.op.gen = row.op.gen
    BY <2>1 DEF Alike
  <2>3. Alike(wk[w].op, row.op) => Alike(wk[w].op, row'.op)
    BY <2>1 DEF Alike
  <2> QED BY <2>1, <2>2, <2>3 DEF Owned, Behind
<1>4. PristineUnused'
  BY <1>1 DEF Owned, PristineUnused, Pristine, Unused, Noted, Alike
<1>5. RowRules'
  BY DEF Owned, RowRules, Noted, Alike
<1>6. Claims'
  BY <1>1 DEF Owned, Claims, Claim, Noted
<1>7. RepairsEnd' /\ HoldersHaveRow'
  BY <1>1 DEF Owned, RepairsEnd, HoldersHaveRow, Noted
<1>8. SingleOwner'
  BY <1>1 DEF Owned, SingleOwner, OneOwner
<1> QED BY <1>2, <1>3, <1>4, <1>5, <1>6, <1>7, <1>8 DEF Owned

\* Time, Google and the host change no column but the operation's staleness.
LEMMA OwnedWorldStep ==
  ASSUME Owned, TimePasses \/ LateExecutes \/ HostDeletes, UNCHANGED given
  PROVE  Owned'
<1>1. Typed'
  BY WorldStepTyped DEF Owned
<1>2. wk' = wk
  BY DEF TimePasses, LateExecutes, HostDeletes
<1>3. Noted
  <2>1. CASE TimePasses
    BY <2>1 DEF TimePasses, Noted, Alike, Owned, Typed, TypeOK, BookingRows, Operations
  <2>2. CASE LateExecutes \/ HostDeletes
    BY <2>2, NotedUnchanged DEF LateExecutes, HostDeletes
  <2> QED BY <2>1, <2>2
<1> QED BY <1>1, <1>2, <1>3, OwnedRests

LEMMA OwnedSteps == Owned /\ [Next]_vars => Owned'
<1>1. ASSUME Owned, Next PROVE Owned'
  BY <1>1, OwnedStep, OwnedWorldStep DEF Next
<1>2. ASSUME Owned, UNCHANGED vars PROVE Owned'
  <2>1. wk' = wk /\ UNCHANGED given /\ Noted
    BY <1>2, NotedUnchanged DEF vars
  <2>2. Typed'
    BY <1>2, StepsTyped DEF Owned
  <2> QED BY ONLY <1>2, <2>1, <2>2, OwnedRests
<1> QED BY <1>1, <1>2

\* The row a history begins with: none, or a booking with nothing under way.
LEMMA FirstRow ==
  ASSUME Init
  PROVE  /\ row.op = NoOp /\ row.unfinished = None /\ row.reserved = None
         /\ row.status = "absent" => row.action = None
         /\ row.status # "absent" => row.action = "confirm" /\ row.cal \in {"created", "failed"}
                                     /\ row.status = "confirmed"
<1>1. PICK h \in {"none", "made", "failed"} : History(h)
  BY ScenariosAreWellFormed DEF Init
<1>2. row = NoRow \/ row = MadeRow \/ row = FailedRow
        \/ row = [FailedRow EXCEPT !.unresolved = {[att |-> <<Origin, 1>>, ev |-> Origin]}]
  BY <1>1 DEF History
<1>3. /\ NoRow.op = NoOp /\ NoRow.unfinished = None /\ NoRow.reserved = None
      /\ NoRow.status = "absent" /\ NoRow.action = None
  BY DEF NoRow
<1>4. /\ MadeRow.op = NoOp /\ MadeRow.unfinished = None /\ MadeRow.reserved = None
      /\ MadeRow.status = "confirmed" /\ MadeRow.action = "confirm" /\ MadeRow.cal = "created"
  BY DEF NoRow, MadeRow
<1>5. /\ FailedRow.op = NoOp /\ FailedRow.unfinished = None /\ FailedRow.reserved = None
      /\ FailedRow.status = "confirmed" /\ FailedRow.action = "confirm"
      /\ FailedRow.cal = "failed"
  BY DEF NoRow, MadeRow, FailedRow
<1>6. ASSUME NEW u, row = [FailedRow EXCEPT !.unresolved = u]
      PROVE  /\ row.op = FailedRow.op /\ row.unfinished = FailedRow.unfinished
             /\ row.status = FailedRow.status /\ row.action = FailedRow.action
             /\ row.cal = FailedRow.cal /\ row.reserved = FailedRow.reserved
  BY <1>6 DEF NoRow, MadeRow, FailedRow
<1> QED BY <1>2, <1>3, <1>4, <1>5, <1>6

LEMMA OwnedAtFirst == Init => Owned
<1> SUFFICES ASSUME Init PROVE Owned
  OBVIOUS
<1>1. Typed
  BY StartTyped
<1>2. \A w \in Workers : wk[w] = NewWorker
  BY DEF Init
<1>3. NewWorker.op = NoOp /\ NewWorker.pc = "start" /\ NewWorker.answer = None
  BY DEF NewWorker
<1>5. /\ row.op = NoOp /\ row.unfinished = None
      /\ row.status = "absent" => row.action = None
      /\ row.status # "absent" => row.action = "confirm" /\ row.cal \in {"created", "failed"}
                                  /\ row.status = "confirmed"
  BY FirstRow
<1>6. "confirm" # None /\ None \notin Nexts /\ \A w \in Workers : w # None
  BY NoneIsNoValue DEF Actions, Ids
<1>7. AllMinted /\ Behind /\ PristineUnused /\ RepairsEnd /\ HoldersHaveRow
  BY <1>2, <1>3, <1>5, <1>6, NoOpIs
     DEF AllMinted, Minted, Behind, PristineUnused, Pristine, Unused, RepairsEnd, HoldersHaveRow
<1>8. RowRules
  BY <1>5, <1>6, NoOpIs DEF RowRules
<1>9. Claims
  BY <1>2, <1>3, <1>6 DEF Claims, Claim, Reaping, Nexts, Answers
<1>10. SingleOwner
  BY <1>2, <1>3, NoOpIs DEF SingleOwner, OneOwner
<1> QED BY <1>1, <1>7, <1>8, <1>9, <1>10 DEF Owned

LEMMA OwnedAlways == Spec => []Owned
BY OwnedAtFirst, OwnedSteps, PTL DEF Spec
-----------------------------------------------------------------------------
\* An unfinished creation is exactly a pending one, an open operation always owns it,
\* and only a cancel or its restoration carries it (rows.ts:250), whatever T2, T2',
\* takeover, replacement or restoration came between.
THEOREM CreationsAccounted == Spec => []CreationAccounted
<1>1. Owned => CreationAccounted
  BY DEF Owned, RowRules, CreationAccounted
<1> QED BY <1>1, OwnedAlways, PTL

\* Whichever path finds the outcome (the call's own T2, a settled commit, a replay or a
\* superseded call's locked read), "created" and "cancelled" are answered only when the
\* row says so, and a create is never told that it was superseded (superseded.ts:124).
THEOREM AnswersTrue == Spec => []AnswersAreTrue
<1>1. Owned => AnswersAreTrue
  BY DEF Owned, Claims, Claim, AnswersAreTrue
<1> QED BY <1>1, OwnedAlways, PTL

\* Unless a create's first COMMIT may be lost, no two calls ever hold the same operation
\* under the same generation: takeovers, replays, repairs, replacements and restorations
\* (ops.ts:321) all fence their predecessor off.
THEOREM OwnerUnique == Spec => []("T1" \notin world.lostCommits => OneOwner)
<1>1. Owned => ("T1" \notin world.lostCommits => OneOwner)
  BY DEF Owned, SingleOwner
<1> QED BY <1>1, OwnedAlways, PTL
-----------------------------------------------------------------------------
\* The refinement: each effect on the row is a step of HostBookings, or none.
RowsNext == Rows!InsertRow(Origin) \/ Rows!RowUpdate(Origin) \/ UNCHANGED Rows!columns

\* The columns HostBookings speaks of, equal before and after.
LEMMA RowsStutter ==
  ASSUME row'.status = row.status, row'.start = row.start, row'.reserved = row.reserved,
         row'.op.start = row.op.start,
         row'.op.kind = row.op.kind \/ {row.op.kind, row'.op.kind} \subseteq {"none", "calendar_repair"},
         row'.action # None <=> row.action # None, row'.unfinished # None <=> row.unfinished # None
  PROVE  UNCHANGED Rows!columns
<1>1. (IF row'.op.kind = "calendar_repair" THEN "none" ELSE row'.op.kind)
        = (IF row.op.kind = "calendar_repair" THEN "none" ELSE row.op.kind)
  OBVIOUS
<1>2. Just(row.action # None)' = Just(row.action # None)
      /\ Just(row.unfinished # None)' = Just(row.unfinished # None)
  BY DEF Just
<1> QED BY <1>1, <1>2 DEF Rows!columns

LEMMA RowsCreates ==
  ASSUME Owned, NEW w \in Workers, Creates(w)
  PROVE  Rows!InsertRow(Origin)
<1>1. row.status = "absent" /\ row'.op.start = row.op.start
  BY CreatedColumns, NoOpIs DEF Creates
<1> QED BY <1>1, CreatedColumns, NoOpIs DEF Rows!InsertRow, WindowAt

LEMMA RowsBegins ==
  ASSUME Owned, Typed', NEW w \in Workers, Begins(w)
  PROVE  RowsNext
<1>1. row.op.start = None
  BY BegunColumns DEF Owned, RowRules
<1>2. CASE row'.op.kind = "calendar_repair"
  <2>1. UNCHANGED Rows!columns
    BY <1>1, <1>2, BegunColumns, RowsStutter
  <2> QED BY <2>1 DEF RowsNext
<1>3. CASE row'.op.kind = "cancel"
  <2>1. Rows!BeginCancel(Origin)
    BY <1>1, <1>3, BegunColumns DEF Rows!BeginCancel
  <2> QED BY <2>1 DEF RowsNext, Rows!RowUpdate
<1>4. CASE row'.op.kind = "reschedule"
  <2>1. row'.op.start \in Starts /\ row'.op.start # None
    BY <1>4, NoneIsNoValue DEF Typed, Shape, RowShape, OpShape
  <2>4. /\ row.status = "confirmed" /\ row'.status = "confirmed" /\ row.op.kind = "none"
        /\ row'.reserved = row'.op.start /\ row'.start = row.start
        /\ row'.action = row.action /\ row'.unfinished = row.unfinished
    BY <1>4, BegunColumns
  <2>5. /\ WindowOrNone(row'.op.start) = WindowAt(row'.op.start)
        /\ WindowOrNone(row'.reserved) = WindowAt(row'.op.start)
    BY <2>1, <2>4 DEF WindowOrNone
  <2>6. ~Rows!Occupied(WindowAt(row'.op.start), {Origin} \ {Origin})
    BY DEF Rows!Occupied
  <2>2. Rows!BeginReschedule(Origin, WindowAt(row'.op.start))
    BY ONLY <1>4, <2>4, <2>5, <2>6 DEF Rows!BeginReschedule
  <2>3. WindowAt(row'.op.start) \in {WindowAt(s) : s \in Starts}
    BY <2>1
  <2> QED BY <2>2, <2>3 DEF RowsNext, Rows!RowUpdate
<1> QED BY <1>2, <1>3, <1>4, BegunColumns

LEMMA RowsReplaces ==
  ASSUME Owned, NEW w \in Workers, Replaces(w)
  PROVE  RowsNext
<1>1. row.op.kind \in Finishable
  BY ReplacedColumns DEF Alike
<1>2. row.op.kind # "reschedule" => row.op.start = None
  BY DEF Owned, RowRules
<1>3. CASE row.op.kind = "create"
  <2>1. row.action = None
    BY <1>3 DEF Owned, RowRules
  <2>2. Rows!ReplaceByCancel(Origin)
    BY <1>2, <1>3, <2>1, ReplacedColumns DEF Rows!ReplaceByCancel, Just
  <2> QED BY <2>2 DEF RowsNext, Rows!RowUpdate
<1>4. CASE row.op.kind = "reschedule"
  <2>2. /\ row.status = "confirmed" /\ row'.status = "confirmed" /\ row'.op.kind = "cancel"
        /\ row'.reserved = None /\ row'.op.start = None /\ row'.start = row.start
        /\ row'.action = row.action /\ row'.unfinished = row.unfinished
    BY <1>4, ReplacedColumns
  <2>3. WindowOrNone(row'.op.start) = None /\ WindowOrNone(row'.reserved) = None
    BY <2>2 DEF WindowOrNone
  <2>1. Rows!ReplaceByCancel(Origin)
    BY ONLY <1>4, <2>2, <2>3 DEF Rows!ReplaceByCancel, Rows!ClearReschedule
  <2> QED BY <2>1 DEF RowsNext, Rows!RowUpdate
<1>5. CASE row.op.kind = "calendar_repair"
  <2>1. Rows!BeginCancel(Origin)
    BY <1>2, <1>5, ReplacedColumns DEF Rows!BeginCancel
  <2> QED BY <2>1 DEF RowsNext, Rows!RowUpdate
<1> QED BY <1>1, <1>3, <1>4, <1>5 DEF Finishable

LEMMA RowsClears ==
  ASSUME Owned, NEW w \in Workers, Clears(w)
  PROVE  RowsNext
<1>1. wk[w].pc = "clear" /\ Owns(w) /\ row' = Cleared(w)
  BY DEF Clears
<1>2. row.op.kind # "reschedule" => row.op.start = None
  BY DEF Owned, RowRules
<1>3. CASE row.op.kind = "calendar_repair"
  <2>1. UNCHANGED Rows!columns
    BY <1>1, <1>2, <1>3, ClearedColumns, NoOpIs, RowsStutter
  <2> QED BY <2>1 DEF RowsNext
<1>4. CASE row.op.kind = "reschedule"
  <2>1. Rows!AbandonReschedule(Origin)
    BY <1>1, <1>4, ClearedColumns, NoOpIs
       DEF Rows!AbandonReschedule, Rows!ClearReschedule, WindowOrNone
  <2> QED BY <2>1 DEF RowsNext, Rows!RowUpdate
<1>5. CASE row.op.kind = "cancel"
  <2>1. Rows!CancelFails(Origin)
    BY <1>1, <1>2, <1>5, ClearedColumns, NoOpIs DEF Rows!CancelFails, WindowOrNone, Just
  <2> QED BY <2>1 DEF RowsNext, Rows!RowUpdate
<1> QED BY <1>1, <1>3, <1>4, <1>5, ClearedColumns

LEMMA RowsCompletes ==
  ASSUME Owned, NEW w \in Workers, Completes(w)
  PROVE  RowsNext
<1>1. wk[w].pc \in {"t2", "t2fail"} /\ Owns(w) /\ row' = Completed(w)
  BY DEF Completes
<1>2. wk[w].op.kind \in {"create", "reschedule", "cancel", "calendar_repair"}
  BY <1>1, Known, OperationParts DEF WorkerShape, KindFits, Owned
<1>3. Alike(wk[w].op, row.op)
  BY <1>1, <1>2, OwnerAlike
<1>4. /\ row.op.kind = wk[w].op.kind /\ row.op.start = wk[w].op.start
      /\ row.op.kind # "reschedule" => row.op.start = None
      /\ row.op.kind \in {"reschedule", "calendar_repair"} =>
           row.action # None /\ row.unfinished = None
  BY <1>3 DEF Alike, Owned, RowRules
<1>5. CASE row.op.kind = "create"
  <2>1. Rows!CompleteCreate(Origin)
    BY <1>1, <1>4, <1>5, CompletedColumns, NoOpIs DEF Rows!CompleteCreate, Just
  <2> QED BY <2>1 DEF RowsNext, Rows!RowUpdate
<1>6. CASE row.op.kind = "calendar_repair"
  <2>1. UNCHANGED Rows!columns
    BY <1>1, <1>4, <1>6, CompletedColumns, NoOpIs, RowsStutter
  <2> QED BY <2>1 DEF RowsNext
<1>7. CASE row.op.kind = "reschedule"
  <2>1. row.op.start # None
    BY <1>7, NoneIsNoValue DEF Owned, Typed, Shape, RowShape, OpShape
  <2>2. Rows!CompleteReschedule(Origin)
    BY <1>1, <1>4, <1>7, <2>1, CompletedColumns, NoOpIs
       DEF Rows!CompleteReschedule, Rows!ClearReschedule, WindowOrNone, Just
  <2> QED BY <2>2 DEF RowsNext, Rows!RowUpdate
<1>8. CASE row.op.kind = "cancel"
  <2>1. Rows!CompleteCancel(Origin)
    BY <1>1, <1>4, <1>8, CompletedColumns, NoOpIs DEF Rows!CompleteCancel, WindowOrNone, Just
  <2> QED BY <2>1 DEF RowsNext, Rows!RowUpdate
<1> QED BY <1>2, <1>4, <1>5, <1>6, <1>7, <1>8

LEMMA RowsNoted ==
  ASSUME Noted
  PROVE  UNCHANGED Rows!columns
BY RowsStutter DEF Noted, Alike

LEMMA RowsStep ==
  ASSUME Owned, Typed', NEW w \in Workers, Effects(w)
  PROVE  RowsNext
<1>1. CASE Noted \/ row' = row
  BY <1>1, RowsNoted, NotedUnchanged DEF RowsNext
<1>2. CASE Takes(w)
  <2>1. UNCHANGED Rows!columns
    BY <1>2, TakenColumns, RowsStutter
  <2> QED BY <2>1 DEF RowsNext
<1>3. CASE Creates(w)
  BY <1>3, RowsCreates DEF RowsNext
<1> QED BY <1>1, <1>2, <1>3, RowsBegins, RowsReplaces, RowsClears, RowsCompletes
           DEF Effects, Recognizes

LEMMA RowsSteps ==
  ASSUME Owned, Owned', [Next]_vars
  PROVE  RowsNext
<1>1. Typed'
  BY DEF Owned
<1>2. CASE \E w \in Workers : Step(w)
  BY <1>1, <1>2, StepEffect, OthersStand, RowsStep
<1>3. CASE TimePasses
  <2>1. Noted
    BY <1>3 DEF TimePasses, Noted, Alike, Owned, Typed, TypeOK, BookingRows, Operations
  <2> QED BY <2>1, RowsNoted DEF RowsNext
<1>4. CASE row' = row
  BY <1>4, RowsNoted, NotedUnchanged DEF RowsNext
<1> QED BY <1>2, <1>3, <1>4 DEF Next, LateExecutes, HostDeletes, vars

LEMMA RowsAtFirst == Init => Rows!RowsInit
<1> SUFFICES ASSUME Init PROVE Rows!RowsInit
  OBVIOUS
<1>1. row.op = NoOp /\ row.unfinished = None /\ row.reserved = None
      /\ row.status \in {"absent", "confirmed"} /\ (row.status = "confirmed" <=> row.action # None)
  BY FirstRow, NoneIsNoValue DEF Actions
<1> QED BY <1>1, NoOpIs DEF Rows!RowsInit, WindowOrNone, Just

\* Every step of every call, however superseded, late or interrupted, changes the row
\* only as the host's bookings allow (rows.ts, the nine transactions' updates): an
\* insertion, or an update of the open operation, on whose steps the absence of double
\* bookings is proved.
THEOREM RowsImplement == Spec => RowsImplemented
<1>1. Owned /\ Owned' /\ [Next]_vars
        => [\E b \in {Origin} : Rows!InsertRow(b) \/ Rows!RowUpdate(b)]_(Rows!columns)
  BY RowsSteps DEF RowsNext
<1> QED BY <1>1, OwnedAlways, RowsAtFirst, PTL DEF Spec, RowsImplemented, Rows!RowsSpec

-------------------------------------------------------------------------------
(***************************************************************************)
(* What a call is told of a failed operation (settle.ts). A step of a call *)
(* is silent about its completing update (Mute), writes it (Writes) or     *)
(* reads the row to learn of it (Learns); the last one answers "failed"    *)
(* only where no update of its own was written.                            *)
(***************************************************************************)
\* What a step that ends or passes on a call leaves of its memory: r forgets that a
\* completing update was written, or knows no more of it than before, and a move goes on
\* with a revision that was on the row.
Hushed(w, r) ==
  /\ r.wrote => wk[w].wrote
  /\ r.answer = "failed" => r.pc = "done" \/ wk[w].answer = "failed"
  /\ r.op.kind = "reschedule" =>
       r.rev <= row.rev \/ (wk[w].op.kind = "reschedule" /\ r.rev = wk[w].rev)

Mute(w) == wk[w].pc \notin {"settle", "done"} /\ Hushed(w, wk'[w])

LEMMA HushedBy ==
  ASSUME Owned, NEW w \in Workers, NEW r, Become(w, r), Hushed(w, r)
  PROVE  Hushed(w, wk'[w])
BY BecomeIs DEF Owned

LEMMA SameHushed ==
  ASSUME Owned, NEW w \in Workers, NEW r, Become(w, r),
         r.wrote = wk[w].wrote, r.op = wk[w].op, r.rev = wk[w].rev, r.answer = wk[w].answer
  PROVE  Hushed(w, wk'[w])
BY HushedBy DEF Hushed

LEMMA GotoHushed ==
  ASSUME Owned, NEW w \in Workers, NEW p, Goto(w, p)
  PROVE  Hushed(w, wk'[w])
<1> DEFINE r == [wk[w] EXCEPT !.pc = p]
<1>1. r.wrote = wk[w].wrote /\ r.op = wk[w].op /\ r.rev = wk[w].rev /\ r.answer = wk[w].answer
  BY Known DEF Owned, WorkerStates
<1>2. Become(w, r)
  BY DEF Goto
<1> HIDE DEF r
<1> QED BY <1>1, <1>2, SameHushed

LEMMA EndHushed ==
  ASSUME Owned, NEW w \in Workers, NEW a, End(w, a)
  PROVE  Hushed(w, wk'[w]) /\ wk'[w].pc = "done" /\ wk'[w].answer = a
<1> DEFINE r == [NewWorker EXCEPT !.pc = "done", !.answer = a, !.wrote = wk[w].wrote]
<1>1. r.wrote = wk[w].wrote /\ r.op.kind = "none" /\ r.pc = "done" /\ r.answer = a
  BY DEF NewWorker, NoOp
<1>2. Become(w, r)
  BY DEF End
<1> HIDE DEF r
<1> QED BY <1>1, <1>2, HushedBy, BecomeIs DEF Hushed, Owned

LEMMA NoneIsNoFailure == None # "failed"
BY NoneIsNoValue DEF Nexts, Answers

LEMMA RestartHushed ==
  ASSUME Owned, NEW w \in Workers, NEW i, Restart(w, i)
  PROVE  /\ Hushed(w, wk'[w])
         /\ ~wk'[w].wrote \/ (wk'[w].pc = "done" /\ wk'[w].answer = "in_progress")
<1> DEFINE r == [NewWorker EXCEPT !.pass = 1, !.rev = i, !.n = wk[w].n]
<1>1. r.wrote = FALSE /\ r.op.kind = "none" /\ r.answer # "failed"
  BY NoneIsNoFailure DEF NewWorker, NoOp
<1>2. CASE Become(w, r)
  <2> HIDE DEF r
  <2> QED BY <1>1, <1>2, HushedBy, BecomeIs DEF Hushed, Owned
<1> QED BY <1>2, EndHushed DEF Restart

\* The ways a completed operation lets its call go on: none answers a failure.
LEMMA DoneHushed ==
  ASSUME Owned, NEW w \in Workers, wk[w].op.kind # "none", Done(w) \/ Continue(w)
  PROVE  /\ Hushed(w, wk'[w])
         /\ ~wk'[w].wrote \/ (wk'[w].pc = "done" /\ wk'[w].answer # "failed")
<1>1. wk[w].op.kind \in {"create", "calendar_repair", "reschedule", "cancel"}
  BY Known, OperationParts DEF Owned
<1>2. \A a : End(w, a) /\ a # "failed" =>
        Hushed(w, wk'[w]) /\ wk'[w].pc = "done" /\ wk'[w].answer # "failed"
  BY EndHushed
<1>3. \A i : Restart(w, i) =>
        Hushed(w, wk'[w]) /\ (~wk'[w].wrote \/ (wk'[w].pc = "done" /\ wk'[w].answer # "failed"))
  BY RestartHushed
<1>4. CASE Continue(w)
  BY <1>2, <1>3, <1>4 DEF Continue
<1>5. CASE Done(w)
  BY <1>1, <1>2, <1>3, <1>4, <1>5 DEF Done, OpOf
<1> QED BY <1>4, <1>5

LEMMA GoOnHushed ==
  ASSUME Owned, NEW w \in Workers, NEW next, GoOn(w, next)
  PROVE  Hushed(w, wk'[w])
<1>1. CASE next = "go"
  <2>1. \A a : End(w, a) => Hushed(w, wk'[w])
    BY EndHushed
  <2>2. \A i : Restart(w, i) => Hushed(w, wk'[w])
    BY RestartHushed
  <2>3. Continue(w)
    BY <1>1 DEF GoOn
  <2> QED BY <2>1, <2>2, <2>3 DEF Continue
<1>2. CASE next # "go"
  BY <1>2, EndHushed, GotoHushed DEF GoOn
<1> QED BY <1>1, <1>2
LEMMA AppendHushed ==
  ASSUME Owned, NEW w \in Workers, NEW e, AppendInsert(w, e)
  PROVE  Hushed(w, wk'[w])
<1> DEFINE mine == IF OpOf(w).kind = "create" /\ wk[w].own = None
                     THEN [ev |-> e, att |-> <<w, wk[w].n + 1>>, tag |-> None] ELSE wk[w].own
           r == [wk[w] EXCEPT !.pc = "insert", !.at = e, !.att = <<w, wk[w].n + 1>>, !.n = @ + 1,
                              !.tries = @ + 1, !.own = mine]
<1>1. r.wrote = wk[w].wrote /\ r.op = wk[w].op /\ r.rev = wk[w].rev /\ r.answer = wk[w].answer
  BY Known DEF Owned, WorkerStates
<1>2. Become(w, r)
  BY DEF AppendInsert
<1> HIDE DEF r
<1> QED BY <1>1, <1>2, SameHushed

\* A takeover, of a move by a call that knows the row's revision.
LEMMA TakeOverHushed ==
  ASSUME Owned, NEW w \in Workers, NEW ids, NEW p, TakeOver(w, ids, p),
         row.op.kind = "reschedule" => wk[w].rev <= row.rev
  PROVE  Hushed(w, wk'[w])
<1> DEFINE r == [wk[w] EXCEPT !.op = TakenOver, !.start = row.start, !.todo = ids, !.then = p,
                              !.pc = IF ids = {} THEN p ELSE "bump", !.tries = 0, !.own = None]
<1>1. r.wrote = wk[w].wrote /\ r.rev = wk[w].rev /\ r.op = TakenOver /\ r.answer = wk[w].answer
  BY Known DEF Owned, WorkerStates
<1>2. Become(w, r) /\ TakenOver.kind = row.op.kind
  BY Known DEF TakeOver, TakenOver, Owned, BookingRows, Operations
<1> HIDE DEF r
<1> QED BY <1>1, <1>2, HushedBy DEF Hushed
-----------------------------------------------------------------------------
LEMMA SharedMute ==
  ASSUME Owned, NEW w \in Workers, SharedStep(w)
  PROVE  Mute(w)
<1>1. wk[w] \in WorkerStates
  BY Known DEF Owned
<1>2. CASE Insert(w)
  <2>1. CASE \E a : End(w, a)
    BY <1>2, <2>1, EndHushed DEF Insert, Mute, At
  <2>2. ASSUME NEW g, NEW o, Become(w, [wk[w] EXCEPT !.pc = "finish", !.got = g, !.own = o])
        PROVE  Hushed(w, wk'[w])
    BY <1>1, <2>2, SameHushed DEF WorkerStates
  <2> QED BY <1>1, <1>2, <2>1, <2>2 DEF Insert, Mute, At
<1>3. CASE Finish(w)
  <2>1. ASSUME NEW e, Become(w, [wk[w] EXCEPT !.pc = "t2", !.res = e])
        PROVE  Hushed(w, wk'[w])
    BY <1>1, <2>1, SameHushed DEF WorkerStates
  <2> QED BY <1>3, <2>1, GotoHushed DEF Finish, Mute, At
<1>4. CASE Look(w)
  <2>1. ASSUME NEW e, NEW o, Become(w, [wk[w] EXCEPT !.pc = "t2", !.res = e, !.own = o])
        PROVE  Hushed(w, wk'[w])
    BY <1>1, <2>1, SameHushed DEF WorkerStates
  <2> QED BY <1>1, <1>4, <2>1, GotoHushed, EndHushed, AppendHushed DEF Look, Mute, At
<1>5. CASE Bump(w)
  <2>1. ASSUME NEW d, NEW e, Become(w, [wk[w] EXCEPT !.todo = d, !.seen = e])
        PROVE  Hushed(w, wk'[w])
    BY <1>1, <2>1, SameHushed DEF WorkerStates
  <2>2. ASSUME NEW d, NEW e, NEW v,
               Become(w, [wk[w] EXCEPT !.pc = "bumping", !.at = e, !.tag = v, !.todo = d])
        PROVE  Hushed(w, wk'[w])
    BY <1>1, <2>2, SameHushed DEF WorkerStates
  <2> QED BY <1>1, <1>5, <2>1, <2>2, GotoHushed, EndHushed DEF Bump, Mute, At
<1>6. CASE Bumping(w)
  <2>1. ASSUME NEW e, Become(w, [wk[w] EXCEPT !.pc = "bump", !.seen = e])
        PROVE  Hushed(w, wk'[w])
    BY <1>1, <2>1, SameHushed DEF WorkerStates
  <2> QED BY <1>6, <2>1, EndHushed DEF Bumping, Mute, At
<1>7. CASE Reap(w)
  <2>1. ASSUME NEW d, NEW e, NEW v, NEW a,
               Become(w, [wk[w] EXCEPT !.pc = "sweep", !.at = e, !.tag = v, !.att = a,
                                       !.tries = 0, !.todo = d])
        PROVE  Hushed(w, wk'[w])
    BY <1>1, <2>1, SameHushed DEF WorkerStates
  <2>2. ASSUME NEW d, Become(w, [wk[w] EXCEPT !.todo = d])
        PROVE  Hushed(w, wk'[w])
    BY <1>1, <2>2, SameHushed DEF WorkerStates
  <2> QED BY <1>1, <1>7, <2>1, <2>2 DEF Reap, Mute, At
<1>8. CASE Sweep(w) \/ Retire(w)
  BY <1>8, GotoHushed DEF Sweep, Retire, Mute, At
<1>9. CASE SweepLook(w)
  <2>1. ASSUME NEW v, Become(w, [wk[w] EXCEPT !.pc = "sweep", !.tag = v, !.tries = 1])
        PROVE  Hushed(w, wk'[w])
    BY <1>1, <2>1, SameHushed DEF WorkerStates
  <2> QED BY <1>9, <2>1, GotoHushed DEF SweepLook, Mute, At
<1> QED BY <1>2, <1>3, <1>4, <1>5, <1>6, <1>7, <1>8, <1>9 DEF SharedStep

\* T2's written update that lost its response is the one way a call comes to have written.
Writes(w) ==
  /\ wk[w].pc \in {"t2", "t2fail"} /\ Owns(w) /\ row' = Completed(w)
  /\ wk'[w].pc = "settle" /\ wk'[w].op = wk[w].op /\ wk'[w].rev = wk[w].rev
  /\ wk'[w].answer = wk[w].answer

\* And settling is the one step of a call that has.
Learns(w) ==
  /\ wk[w].pc = "settle" /\ Hushed(w, wk'[w])
  /\ DidCommit(w) => ~wk'[w].wrote \/ (wk'[w].pc = "done" /\ wk'[w].answer # "failed")

LEMMA EndingWord ==
  ASSUME Owned, NEW w \in Workers, EndingStep(w)
  PROVE  Mute(w) \/ Writes(w) \/ Learns(w)
<1>1. wk[w] \in WorkerStates /\ WorkerShape(wk[w], route[w])
  BY Known DEF Owned
<1>2. CASE T2(w)
  <2>1. wk[w].pc \in {"t2", "t2fail"} /\ wk[w].op.kind # "none"
    BY <1>1, <1>2 DEF T2, At, WorkerShape, KindFits
  <2>2. CASE NotOwner(w)
    <3>1. ASSUME NEW g, Become(w, [wk[w] EXCEPT !.pc = "superseded", !.got = g])
          PROVE  Hushed(w, wk'[w])
      BY <1>1, <3>1, SameHushed DEF WorkerStates
    <3>2. Hushed(w, wk'[w])
      BY <2>2, <3>1, EndHushed, RestartHushed DEF NotOwner
    <3> QED BY <2>1, <3>2 DEF Mute
  <2>3. CASE Done(w)
    BY <2>1, <2>3, DoneHushed DEF Mute
  <2>4. CASE Owns(w) /\ row' = Completed(w) /\ Become(w, [wk[w] EXCEPT !.pc = "settle", !.wrote = TRUE])
    <3> DEFINE r == [wk[w] EXCEPT !.pc = "settle", !.wrote = TRUE]
    <3>1. r.pc = "settle" /\ r.op = wk[w].op /\ r.rev = wk[w].rev /\ r.answer = wk[w].answer
      BY <1>1 DEF WorkerStates
    <3>2. Become(w, r)
      BY <2>4
    <3> HIDE DEF r
    <3>3. wk'[w] = r
      BY <3>2, BecomeIs DEF Owned
    <3> QED BY <2>1, <2>4, <3>1, <3>3 DEF Writes
  <2>5. CASE \E p : Goto(w, p)
    BY <2>1, <2>5, GotoHushed DEF Mute
  <2> QED BY <1>2, <2>2, <2>3, <2>4, <2>5 DEF T2
<1>3. CASE Settle(w)
  <2>1. wk[w].pc = "settle" /\ wk[w].op.kind # "none"
    BY <1>1, <1>3 DEF Settle, At, WorkerShape, KindFits
  <2>2. CASE DidCommit(w)
    BY <1>3, <2>1, <2>2, DoneHushed DEF Settle, Learns
  <2>3. CASE ~DidCommit(w)
    BY <1>3, <2>1, <2>3, GotoHushed DEF Settle, Learns
  <2> QED BY <2>2, <2>3
<1>4. CASE RolledBack(w) \/ Compensate(w)
  BY <1>4, EndHushed, GotoHushed DEF RolledBack, Compensate, Mute, At
<1>5. CASE Clear(w)
  <2>1. wk[w].pc = "clear" /\ wk[w].op.kind # "none"
    BY <1>1, <1>5 DEF Clear, At, WorkerShape, KindFits
  <2>2. AfterClear(w) \/ End(w, "failed")
    BY <1>5 DEF Clear
  <2>3. Hushed(w, wk'[w])
    BY <2>1, <2>2, EndHushed, RestartHushed, DoneHushed DEF AfterClear
  <2> QED BY <2>1, <2>3 DEF Mute
<1>6. CASE Superseded(w)
  <2>1. ASSUME NEW d, NEW x, NEW a, NEW e, NEW v,
               Become(w, [[wk[w] EXCEPT !.todo = d, !.then = x, !.att = a]
                            EXCEPT !.pc = "sweep", !.at = e, !.tag = v, !.tries = 0])
        PROVE  Hushed(w, wk'[w])
    BY <1>1, <2>1, SameHushed DEF WorkerStates
  <2>2. ASSUME NEW d, NEW x, NEW a,
               Become(w, [[wk[w] EXCEPT !.todo = d, !.then = x, !.att = a] EXCEPT !.pc = "retire"])
        PROVE  Hushed(w, wk'[w])
    BY <1>1, <2>2, SameHushed DEF WorkerStates
  <2> QED BY <1>6, <2>1, <2>2, GoOnHushed DEF Superseded, Mute, At
<1>7. CASE Swept(w)
  BY <1>7, GoOnHushed DEF Swept, Mute, At
<1> QED BY <1>2, <1>3, <1>4, <1>5, <1>6, <1>7 DEF EndingStep
-----------------------------------------------------------------------------
LEMMA ReplayHushed ==
  ASSUME Owned, NEW w \in Workers, Replay(w)
  PROVE  Hushed(w, wk'[w])
BY EndHushed, TakeOverHushed DEF Replay

LEMMA CreateFlowMute ==
  ASSUME Owned, NEW w \in Workers, CreateFlowStep(w)
  PROVE  Mute(w)
<1>1. wk[w] \in WorkerStates /\ row \in BookingRows
  BY Known DEF Owned
<1>2. ASSUME NEW o, o.kind # "reschedule", Become(w, Created(w, o))
      PROVE  Hushed(w, wk'[w])
  <2> DEFINE r == Created(w, o)
  <2>1. r.wrote = wk[w].wrote /\ r.op = o /\ r.answer = wk[w].answer
    BY <1>1 DEF Created, WorkerStates
  <2> HIDE DEF r
  <2> QED BY <1>2, <2>1, HushedBy DEF Hushed, r
<1>3. CASE CreateT1(w)
  <2>1. FreshRow(w).op.kind = "create"
    BY DEF FreshRow, BeginOp, NoOp
  <2> QED BY <1>2, <1>3, <2>1, GotoHushed DEF CreateT1, Mute, At
<1>4. CASE CreateReplay(w)
  BY <1>4, ReplayHushed DEF CreateReplay, Mute, At
<1>5. CASE ReconcileT1(w)
  BY <1>2, <1>5, ReplayHushed, EndHushed DEF ReconcileT1, Mute, At
<1>6. CASE NotifyRecovers(w)
  BY <1>6, TakeOverHushed, EndHushed DEF NotifyRecovers, Mute, At
<1>7. ASSUME NEW d, NEW x, Become(w, [wk[w] EXCEPT !.pc = "reap", !.todo = d, !.then = x])
      PROVE  Hushed(w, wk'[w])
  BY <1>1, <1>7, SameHushed DEF WorkerStates
<1>8. CASE NotifyRepairs(w)
  <2> DEFINE o == [BeginOp("calendar_repair", w) EXCEPT !.event = row.gid]
             r == [wk[w] EXCEPT !.pass = 1, !.pc = "look", !.op = o, !.start = row.start]
  <2>1. r.wrote = wk[w].wrote /\ r.op.kind = "calendar_repair" /\ r.answer = wk[w].answer
    BY <1>1 DEF WorkerStates, BeginOp, NoOp
  <2>2. row' = [row EXCEPT !.op = o] => row'.op = o
    BY <1>1 DEF BookingRows
  <2> HIDE DEF o
  <2>3. row' = [row EXCEPT !.op = o] /\ Become(w, [wk[w] EXCEPT !.pass = 1, !.pc = "look", !.op = row'.op, !.start = row.start])
        => Become(w, r)
    BY <2>2
  <2> HIDE DEF r
  <2>4. Become(w, r) => Hushed(w, wk'[w])
    BY <2>1, HushedBy DEF Hushed
  <2> QED BY <1>7, <1>8, <2>3, <2>4, EndHushed DEF NotifyRepairs, BeginReap, Mute, At, o
<1>9. CASE Read(w)
  BY <1>7, <1>9, EndHushed DEF Read, BeginReap, Mute, At
<1> QED BY <1>3, <1>4, <1>5, <1>6, <1>8, <1>9 DEF CreateFlowStep

LEMMA RescheduleFlowMute ==
  ASSUME Owned, NEW w \in Workers, RescheduleFlowStep(w)
  PROVE  Mute(w)
<1>1. /\ wk[w] \in WorkerStates /\ row \in BookingRows /\ WorkerShape(wk[w], route[w])
      /\ row.rev \in Nat
  BY Known DEF Owned, BookingRows
<1>2. CASE RescheduleStart(w)
  <2>1. wk[w].op.kind = "none"
    BY <1>1, <1>2 DEF RescheduleStart, At, WorkerShape, KindFits
  <2> DEFINE known == IF wk[w].pass = 0 THEN [wk[w] EXCEPT !.rev = row.rev] ELSE wk[w]
  <2>2. known \in WorkerStates /\ known.wrote = wk[w].wrote /\ known.op = wk[w].op
        /\ known.answer = wk[w].answer
    BY <1>1 DEF WorkerStates
  <2>3. \/ \E d : Become(w, [known EXCEPT !.pc = "reap", !.todo = d, !.then = "t1"])
        \/ Become(w, [known EXCEPT !.pc = "t1"])
    BY <1>2 DEF RescheduleStart
  <2> HIDE DEF known
  <2>4. ASSUME NEW d, Become(w, [known EXCEPT !.pc = "reap", !.todo = d, !.then = "t1"])
        PROVE  Hushed(w, wk'[w])
    <3> DEFINE r == [known EXCEPT !.pc = "reap", !.todo = d, !.then = "t1"]
    <3>1. r.wrote = wk[w].wrote /\ r.op = wk[w].op /\ r.answer = wk[w].answer
      BY <2>2 DEF WorkerStates
    <3> HIDE DEF r
    <3> QED BY <2>1, <2>4, <3>1, HushedBy DEF Hushed, r
  <2>5. ASSUME Become(w, [known EXCEPT !.pc = "t1"])
        PROVE  Hushed(w, wk'[w])
    <3> DEFINE r == [known EXCEPT !.pc = "t1"]
    <3>1. r.wrote = wk[w].wrote /\ r.op = wk[w].op /\ r.answer = wk[w].answer
      BY <2>2 DEF WorkerStates
    <3> HIDE DEF r
    <3> QED BY <2>1, <2>5, <3>1, HushedBy DEF Hushed, r
  <2> QED BY <1>2, <2>3, <2>4, <2>5 DEF RescheduleStart, Mute, At
<1>3. CASE RescheduleRefused(w)
  BY <1>3, EndHushed DEF RescheduleRefused, Mute, At
<1>4. CASE RescheduleTakesOver(w)
  BY <1>1, <1>4, TakeOverHushed DEF RescheduleTakesOver, RescheduleChanged, Mute, At
<1>5. CASE RescheduleT1(w)
  <2> DEFINE o == [BeginOp("reschedule", w) EXCEPT !.start = Target[w], !.old = row.gid,
                                                   !.etag = row.etag, !.fallback = w]
             r == [wk[w] EXCEPT !.op = o, !.start = row.start, !.tag = row.etag, !.tries = 0,
                                !.pc = IF row.etag = None THEN "observe" ELSE "patch"]
  <2>1. r.wrote = wk[w].wrote /\ r.rev = wk[w].rev /\ r.answer = wk[w].answer
    BY <1>1 DEF WorkerStates
  <2>2. Become(w, r) /\ wk[w].rev = row.rev
    BY <1>5 DEF RescheduleT1, RescheduleChanged
  <2> HIDE DEF r, o
  <2> QED BY <1>1, <1>5, <2>1, <2>2, HushedBy DEF Hushed, RescheduleT1, Mute, At
<1>6. ASSUME NEW v, Become(w, [wk[w] EXCEPT !.pc = "patch", !.tag = v])
      PROVE  Hushed(w, wk'[w])
  BY <1>1, <1>6, SameHushed DEF WorkerStates
<1>7. CASE Observe(w)
  BY <1>6, <1>7, GotoHushed DEF Observe, Mute, At
<1>8. ASSUME NEW e, Become(w, [wk[w] EXCEPT !.pc = "t2", !.res = e])
      PROVE  Hushed(w, wk'[w])
  BY <1>1, <1>8, SameHushed DEF WorkerStates
<1>9. CASE Patch(w)
  BY <1>8, <1>9, GotoHushed, EndHushed DEF Patch, Mute, At
<1>10. CASE Reobserve(w)
  <2>1. ASSUME NEW v, Become(w, [wk[w] EXCEPT !.pc = "patch", !.tag = v, !.tries = 1])
        PROVE  Hushed(w, wk'[w])
    BY <1>1, <2>1, SameHushed DEF WorkerStates
  <2> QED BY <1>8, <1>10, <2>1, GotoHushed, EndHushed DEF Reobserve, Mute, At
<1>11. CASE InsertFallback(w)
  BY <1>11, GotoHushed, AppendHushed DEF InsertFallback, Mute, At
<1>12. ASSUME NEW e, NEW p, Become(w, [wk[w] EXCEPT !.res = e, !.pc = p])
       PROVE  Hushed(w, wk'[w])
  BY <1>1, <1>12, SameHushed DEF WorkerStates
<1>13. CASE Judge(w)
  <2>1. ASSUME NEW e, NEW d, Become(w, [wk[w] EXCEPT !.res = e, !.pc = "bump", !.todo = d, !.then = "judged"])
        PROVE  Hushed(w, wk'[w])
    BY <1>1, <2>1, SameHushed DEF WorkerStates
  <2> QED BY <1>12, <1>13, <2>1 DEF Judge, Mute, At
<1>14. CASE Judged(w)
  BY <1>12, <1>14 DEF Judged, Mute, At
<1> QED BY <1>2, <1>3, <1>4, <1>5, <1>7, <1>9, <1>10, <1>11, <1>13, <1>14 DEF RescheduleFlowStep

LEMMA CancelFlowMute ==
  ASSUME Owned, NEW w \in Workers, CancelFlowStep(w)
  PROVE  Mute(w)
<1>1. /\ wk[w] \in WorkerStates /\ row \in BookingRows /\ WorkerShape(wk[w], route[w])
      /\ row.rev \in Nat
  BY Known DEF Owned, BookingRows
<1>2. ASSUME NEW d, NEW x, Become(w, [wk[w] EXCEPT !.pc = "reap", !.todo = d, !.then = x])
      PROVE  Hushed(w, wk'[w])
  BY <1>1, <1>2, SameHushed DEF WorkerStates
<1>3. CASE CancelStart(w)
  <2>1. wk[w].op.kind = "none" /\ wk[w].pc = "start"
    BY <1>1, <1>3 DEF CancelStart, At, WorkerShape, KindFits
  <2>2. ASSUME NEW i, Become(w, [wk[w] EXCEPT !.pc = "cancelT1", !.rev = i])
        PROVE  Hushed(w, wk'[w])
    <3> DEFINE r == [wk[w] EXCEPT !.pc = "cancelT1", !.rev = i]
    <3>1. r.wrote = wk[w].wrote /\ r.op = wk[w].op /\ r.answer = wk[w].answer
      BY <1>1 DEF WorkerStates
    <3> HIDE DEF r
    <3> QED BY <2>1, <2>2, <3>1, HushedBy DEF Hushed, r
  <2>3. \/ \E d, x : Become(w, [wk[w] EXCEPT !.pc = "reap", !.todo = d, !.then = x])
        \/ \E i : Become(w, [wk[w] EXCEPT !.pc = "cancelT1", !.rev = i])
    BY <1>1, <1>3 DEF CancelStart, BeginReap, WorkerStates
  <2> QED BY <1>2, <2>1, <2>2, <2>3 DEF Mute
<1>4. CASE CancelRefused(w)
  BY <1>4, EndHushed DEF CancelRefused, Mute, At
<1>5. ASSUME NEW o, o.kind = "cancel", Become(w, [wk[w] EXCEPT !.op = o, !.pc = "calendar"])
      PROVE  Hushed(w, wk'[w])
  <2> DEFINE r == [wk[w] EXCEPT !.op = o, !.pc = "calendar"]
  <2>1. r.wrote = wk[w].wrote /\ r.op = o /\ r.answer = wk[w].answer
    BY <1>1 DEF WorkerStates
  <2> HIDE DEF r
  <2> QED BY <1>5, <2>1, HushedBy DEF Hushed, r
<1>6. CancelOp(w).kind = "cancel" /\ Replacement(w).kind = "cancel"
  BY DEF CancelOp, Replacement, BeginOp, NoOp
<1>7. CASE CancelT1(w)
  BY <1>5, <1>6, <1>7 DEF CancelT1, Mute, At
<1>8. CASE CancelTakesOver(w)
  BY <1>1, <1>8, TakeOverHushed DEF CancelTakesOver, CancelChanged, Mute, At
<1>9. CASE Reconcile(w)
  BY <1>9, GotoHushed DEF Reconcile, Mute, At
<1>10. CASE Inherit(w)
  <2>1. ASSUME NEW e, Become(w, [wk[w] EXCEPT !.pc = "t2", !.res = e])
        PROVE  Hushed(w, wk'[w])
    BY <1>1, <2>1, SameHushed DEF WorkerStates
  <2> QED BY <1>10, <2>1, RestartHushed DEF Inherit, Mute, At
<1>11. CASE Replace(w)
  BY <1>5, <1>6, <1>11, EndHushed DEF Replace, Mute, At
<1>12. CASE CancelReaps(w)
  BY <1>2, <1>12 DEF CancelReaps, BeginReap, Mute, At
<1>13. CASE ClearInherited(w)
  <2>1. ASSUME NEW d, Become(w, [wk[w] EXCEPT !.pc = "removing", !.todo = d])
        PROVE  Hushed(w, wk'[w])
    BY <1>1, <2>1, SameHushed DEF WorkerStates
  <2> QED BY <1>13, <2>1 DEF ClearInherited, Mute, At
<1>14. CASE RemoveLook(w)
  <2>1. ASSUME NEW d, NEW e, NEW v, NEW a,
               Become(w, [wk[w] EXCEPT !.todo = d, !.pc = "remove", !.at = e, !.tag = v, !.att = a])
        PROVE  Hushed(w, wk'[w])
    BY <1>1, <2>1, SameHushed DEF WorkerStates
  <2>2. ASSUME NEW d, Become(w, [wk[w] EXCEPT !.todo = d])
        PROVE  Hushed(w, wk'[w])
    BY <1>1, <2>2, SameHushed DEF WorkerStates
  <2> QED BY <1>14, <2>1, <2>2 DEF RemoveLook, Mute, At
<1>15. CASE LiveLook(w)
  <2>1. ASSUME NEW e, NEW v, NEW a,
               Become(w, [wk[w] EXCEPT !.pc = "delete", !.at = e, !.tag = v, !.att = a])
        PROVE  Hushed(w, wk'[w])
    BY <1>1, <2>1, SameHushed DEF WorkerStates
  <2> QED BY <1>15, <2>1, GotoHushed DEF LiveLook, Mute, At
<1>16. CASE Remove(w)
  BY <1>16, GotoHushed, EndHushed DEF Remove, Mute, At
<1>17. CASE Removed(w)
  BY <1>17, GotoHushed DEF Removed, Mute, At
<1> QED BY <1>3, <1>4, <1>7, <1>8, <1>9, <1>10, <1>11, <1>12, <1>13, <1>14, <1>15, <1>16, <1>17
        DEF CancelFlowStep

LEMMA StepWord ==
  ASSUME Owned, NEW w \in Workers, Step(w)
  PROVE  Mute(w) \/ Writes(w) \/ Learns(w)
BY SharedMute, EndingWord, CreateFlowMute, RescheduleFlowMute, CancelFlowMute DEF Step
-----------------------------------------------------------------------------
\* A lost response is told from the row as long as nothing overwrites what was written: one
\* call moves the booking, and no cancel may follow a repair.
OneMover == \A u, v \in Workers : route[u] = "reschedule" /\ route[v] = "reschedule" => u = v
NoCancelOfRepairs == \A u, v \in Workers : ~(route[u] = "notify" /\ route[v] = "cancel")
Tellable == OneMover /\ NoCancelOfRepairs

\* Whoever works on a move began from a revision the row has had.
RevKept == \A w \in Workers : wk[w].op.kind = "reschedule" => wk[w].rev <= row.rev

Settling(w) ==
  wk[w].wrote =>
    \/ wk[w].pc = "settle" /\ DidCommit(w) /\ row.op.id # wk[w].op.id
    \/ wk[w].pc = "done" /\ wk[w].answer # "failed"

FailuresLast == \A w \in Workers : wk[w].answer = "failed" => wk[w].pc = "done"

Spoken == Owned /\ RevKept /\ FailuresLast /\ (Tellable => \A w \in Workers : Settling(w))

\* What a completing update writes, beside CompletedColumns.
LEMMA CompletedMore ==
  ASSUME Owned, NEW w \in Workers, wk[w].pc \in {"t2", "t2fail"}, Owns(w), row' = Completed(w)
  PROVE  /\ wk[w].op.kind \in {"calendar_repair", "reschedule"} => row'.cal = "created"
         /\ row.rev \in Nat /\ row'.rev \in {row.rev, row.rev + 1}
         /\ wk[w].op.kind = "reschedule" => row'.rev = row.rev + 1
<1>1. /\ wk[w].op.kind \in {"create", "reschedule", "cancel", "calendar_repair"}
      /\ Typed /\ Ended \in BookingRows /\ row.rev \in Nat
  BY Known, OperationParts, EndedTyped DEF WorkerShape, KindFits, Owned, BookingRows
<1>2. CASE wk[w].op.kind = "create"
  BY <1>1, <1>2, EndedParts DEF Completed, CompletedCreate, OpOf, BookingRows
<1>3. CASE wk[w].op.kind = "calendar_repair"
  BY <1>1, <1>3, EndedParts DEF Completed, CompletedRepair, OpOf, BookingRows
<1>4. CASE wk[w].op.kind = "reschedule"
  BY <1>1, <1>4, EndedParts DEF Completed, CompletedReschedule, OpOf, BookingRows
<1>5. CASE wk[w].op.kind = "cancel"
  BY <1>1, <1>5, EndedParts DEF Completed, CompletedCancel, OpOf, BookingRows
<1> QED BY <1>1, <1>2, <1>3, <1>4, <1>5

\* The row's revision never goes back.
LEMMA RevGrows ==
  ASSUME Owned, NEW w \in Workers, Effect(w), row.status # "absent"
  PROVE  row.rev \in Nat /\ row'.rev \in Nat /\ row.rev <= row'.rev
<1>1. row \in BookingRows /\ row.rev \in Nat /\ Typed
  BY Known DEF Owned, BookingRows
<1>2. CASE Noted \/ row' = row
  BY <1>1, <1>2 DEF Noted
<1>3. CASE Completes(w)
  BY <1>3, CompletedMore DEF Completes
<1>4. CASE Takes(w) \/ Begins(w) \/ Replaces(w)
  <2>1. ASSUME NEW o, NEW u, NEW s, row' = [row EXCEPT !.op = o, !.unfinished = u, !.reserved = s]
        PROVE  row'.rev = row.rev
    BY <1>1, <2>1 DEF BookingRows
  <2>2. ASSUME NEW o, NEW s, row' = [row EXCEPT !.op = o, !.reserved = s]
        PROVE  row'.rev = row.rev
    BY <1>1, <2>2 DEF BookingRows
  <2>3. ASSUME NEW o, row' = [row EXCEPT !.op = o]
        PROVE  row'.rev = row.rev
    BY <1>1, <2>3 DEF BookingRows
  <2>4. CASE Takes(w)
    BY <1>1, <2>3, <2>4 DEF Takes
  <2>5. CASE Begins(w)
    BY <1>1, <2>2, <2>5 DEF Begins
  <2>6. CASE Replaces(w)
    BY <1>1, <2>1, <2>6 DEF Replaces
  <2> QED BY <1>4, <2>4, <2>5, <2>6
<1>5. CASE Clears(w)
  <2>1. wk[w].op.kind \in {"calendar_repair", "reschedule", "cancel"}
    BY <1>5, ClearedColumns DEF Clears
  <2>2. Ended \in BookingRows /\ Ended.rev = row.rev
    BY <1>1, EndedTyped, EndedParts
  <2>3. row'.rev = row.rev
    BY <1>5, <2>1, <2>2 DEF Clears, Cleared, OpOf, BookingRows
  <2> QED BY <1>1, <2>3
<1>6. CASE Creates(w)
  BY <1>6 DEF Creates
<1> QED BY <1>2, <1>3, <1>4, <1>5, <1>6, OthersStand DEF Effects, Recognizes

\* An operation that has left the row does not come back, but for a creation restored.
LEMMA NeverBack ==
  ASSUME Owned, NEW w \in Workers, Effect(w), UNCHANGED given,
         NEW v \in Workers, wk[v].op.kind # "none", row.op.id # wk[v].op.id,
         wk[v].op.kind = "create" => row.action # None
  PROVE  row'.op.id # wk[v].op.id
<1> DEFINE o == wk[v].op
<1>1. /\ Minted(o) /\ o.id \in Workers /\ o.id # None /\ row.status # "absent"
      /\ o.kind \in {"create", "reschedule", "cancel", "calendar_repair"}
  BY Known, OperationParts, NoneIsNoValue DEF Owned, AllMinted, Minted, HoldersHaveRow, Ids
<1>2. CASE Noted \/ row' = row \/ Takes(w) \/ Recognizes(w)
  BY <1>2, TakenColumns DEF Noted, Alike, Recognizes
<1>3. CASE Completes(w)
  BY <1>1, <1>3, CompletedColumns, NoOpIs DEF Completes
<1>4. CASE Clears(w)
  <2>1. CASE row'.op = NoOp
    BY <1>1, <2>1, NoOpIs
  <2>2. CASE row.unfinished # None /\ row'.op.kind = "create" /\ row'.op.id = row.unfinished.id
    <3>1. row.action = None
      BY <2>2 DEF Owned, RowRules
    <3>2. row.unfinished.id = o.id => o.kind = "create"
      BY <1>1, <2>2 DEF Owned, AllMinted, Minted
    <3> QED BY <2>2, <3>1, <3>2
  <2> QED BY <1>4, <2>1, <2>2, ClearedColumns DEF Clears
<1>5. CASE Creates(w)
  BY <1>1, <1>5 DEF Creates
<1>6. CASE Begins(w) \/ Replaces(w)
  <2>1. row'.op.id = w /\ Pristine(w) /\ wk[w].op.id # w
    BY <1>6, BegunColumns, ReplacedColumns, NoneIsNoValue DEF Ids
  <2>2. Unused(w)
    BY <2>1 DEF Owned, PristineUnused
  <2> QED BY <2>1, <2>2 DEF Unused
<1> QED BY <1>2, <1>3, <1>4, <1>5, <1>6, OthersStand DEF Effects

\* What a call wrote stays to be told while others work.
LEMMA StillTold ==
  ASSUME Owned, NEW w \in Workers, Effect(w), UNCHANGED given, Tellable, RevKept,
         NEW v \in Workers, v # w, wk[v].pc = "settle", DidCommit(v), row.op.id # wk[v].op.id
  PROVE  DidCommit(v)' /\ row'.op.id # wk[v].op.id
<1> DEFINE o == wk[v].op
<1>1. /\ wk'[v] = wk[v] /\ Minted(o) /\ row.status # "absent"
      /\ o.kind \in {"create", "reschedule", "cancel", "calendar_repair"}
  BY Known, OperationParts, OthersStand
     DEF Owned, AllMinted, HoldersHaveRow, WorkerShape, KindFits
<1>2. row'.op.id # o.id
  BY <1>1, NeverBack DEF DidCommit, OpOf
<1>3. /\ Noted => row'.status = row.status /\ row'.action = row.action /\ row'.cal = row.cal
                  /\ row'.start = row.start
      /\ Takes(w) \/ Begins(w) \/ Replaces(w) \/ Clears(w) =>
           /\ row'.status = row.status /\ row'.action = row.action /\ row'.cal = row.cal
           /\ row'.start = row.start
      /\ ~Creates(w)
  BY <1>1, TakenColumns, BegunColumns, ReplacedColumns, ClearedColumns DEF Noted, Clears, Creates
<1>4. CASE o.kind = "create"
  <2>1. row.action # None
    BY <1>4 DEF DidCommit, OpOf
  <2>2. row'.action # None
    BY <1>3, <2>1, CompletedColumns, OthersStand DEF Effects, Completes, Recognizes
  <2> QED BY <1>1, <1>2, <1>4, <2>2 DEF DidCommit, OpOf
<1>5. CASE o.kind = "calendar_repair"
  <2>1. row.cal = "created" /\ route[o.id] = "notify" /\ o.id \in Workers
    BY <1>1, <1>5 DEF DidCommit, OpOf, Minted
  <2>2. ASSUME Completes(w) PROVE row'.cal = "created"
    <3>1. wk[w].op.kind # "none" /\ Minted(wk[w].op) /\ Alike(wk[w].op, row.op)
          /\ wk[w].op.kind \in {"create", "reschedule", "cancel", "calendar_repair"}
      BY <2>2, Known, OwnerAlike, OperationParts
         DEF Completes, WorkerShape, KindFits, Owned, AllMinted
    <3>2. wk[w].op.kind # "cancel"
      BY <2>1, <3>1 DEF Minted, Tellable, NoCancelOfRepairs
    <3>3. wk[w].op.kind # "create"
      BY <1>1, <2>1, <3>1 DEF Owned, RowRules, Alike
    <3> QED BY <2>2, <3>1, <3>2, <3>3, CompletedMore DEF Completes
  <2>3. row'.cal = "created"
    BY <1>3, <2>1, <2>2, OthersStand DEF Effects, Recognizes
  <2> QED BY <1>1, <1>2, <1>5, <2>3 DEF DidCommit, OpOf
<1>6. CASE o.kind = "reschedule"
  <2>1. row.start = o.start /\ row.rev > wk[v].rev /\ route[o.id] = "reschedule" /\ o.id \in Workers
    BY <1>1, <1>6 DEF DidCommit, OpOf, Minted
  <2>2. ASSUME Completes(w) PROVE row'.start = row.start
    <3>1. wk[w].op.kind # "none" /\ Minted(wk[w].op) /\ Alike(wk[w].op, row.op)
      BY <2>2, Known, OwnerAlike DEF Completes, WorkerShape, KindFits, Owned, AllMinted
    <3>2. wk[w].op.kind # "reschedule"
      BY <2>1, <3>1 DEF Minted, Tellable, OneMover, Alike
    <3> QED BY <2>2, <3>2, CompletedColumns DEF Completes
  <2>3. row'.start = row.start
    BY <1>3, <2>2, OthersStand DEF Effects, Recognizes
  <2>4. row'.rev > wk[v].rev
    BY <1>1, <2>1, RevGrows, Known DEF Owned, WorkerStates
  <2> QED BY <1>1, <1>2, <1>6, <2>1, <2>3, <2>4 DEF DidCommit, OpOf
<1>7. CASE o.kind = "cancel"
  <2>1. row.status = "cancelled"
    BY <1>7 DEF DidCommit, OpOf
  <2>2. row'.status = "cancelled"
    BY <1>3, <2>1, CompletedColumns, OthersStand DEF Effects, Completes, Recognizes
  <2> QED BY <1>1, <1>2, <1>7, <2>2 DEF DidCommit, OpOf
<1> QED BY <1>1, <1>2, <1>4, <1>5, <1>6, <1>7

LEMMA SpokenStep ==
  ASSUME Spoken, NEW w \in Workers, Step(w)
  PROVE  Spoken'
<1>1. /\ Owned /\ Owned' /\ RevKept /\ Effect(w) /\ UNCHANGED given /\ route' = route
      /\ \A v \in Workers : v # w => wk'[v] = wk[v]
  BY OwnedStep, StepEffect, OthersStand DEF Spoken, Step, given
<1>2. Mute(w) \/ Writes(w) \/ Learns(w)
  BY <1>1, StepWord
<1>3. /\ row.rev \in Nat /\ row'.rev \in Nat
      /\ \A v \in Workers : wk[v].rev \in Nat /\ wk'[v].rev \in Nat
  BY <1>1, Known DEF Owned, BookingRows, WorkerStates, Typed, TypeOK
<1>4. RevKept'
  <2> SUFFICES ASSUME NEW v \in Workers, wk'[v].op.kind = "reschedule"
               PROVE  wk'[v].rev <= row'.rev
    BY DEF RevKept
  <2>1. row.status # "absent" => row.rev <= row'.rev
    BY <1>1, RevGrows
  <2>2. CASE v # w
    BY <1>1, <1>3, <2>1, <2>2 DEF RevKept, Owned, HoldersHaveRow
  <2>3. CASE v = w
    <3>1. wk'[w].rev <= row.rev \/ (wk[w].op.kind = "reschedule" /\ wk'[w].rev = wk[w].rev)
      BY <1>2, <2>3 DEF Mute, Learns, Writes, Hushed
    <3>2. wk'[w].rev <= row.rev
      BY <1>1, <3>1 DEF RevKept
    <3>3. row.status # "absent"
      <4>1. row.status = "absent" => ~Takes(w) /\ ~Completes(w) /\ ~Clears(w) /\ ~Begins(w)
                                     /\ ~Replaces(w) /\ ~Recognizes(w)
        <5>1. Takes(w) => row.status # "absent"
          BY <1>1, TakenColumns
        <5>2. Completes(w) => row.status # "absent"
          BY <1>1, CompletedColumns DEF Completes
        <5>3. Clears(w) => row.status # "absent"
          BY <1>1, ClearedColumns DEF Clears
        <5>4. Begins(w) \/ Replaces(w) => row.status # "absent"
          BY DEF Begins, Replaces
        <5>5. Recognizes(w) => row.status # "absent"
          BY <1>1, NoOpIs DEF Recognizes, Owned, Typed, Shape, RowShape
        <5> QED BY <5>1, <5>2, <5>3, <5>4, <5>5
      <4>2. Creates(w) => wk'[w].op.kind # "reschedule"
        BY <1>1, CreatedColumns DEF Creates, Holds, Loses
      <4>3. wk[w].op.kind = "none" => ~GoesOn(w) /\ ~Leaves(w) /\ ~Loses(w)
        BY <2>3, NoOpIs DEF GoesOn, Leaves, Loses
      <4> QED BY <1>1, <2>3, <4>1, <4>2, <4>3, OthersStand DEF Effects, Owned, HoldersHaveRow
    <3> QED BY <1>3, <2>1, <2>3, <3>2, <3>3
  <2> QED BY <2>2, <2>3
<1>6. FailuresLast'
  <2>1. wk[w].pc # "done"
    BY <1>2 DEF Mute, Writes, Learns
  <2>2. wk'[w].answer = "failed" => wk'[w].pc = "done"
    BY <1>2, <2>1 DEF Mute, Writes, Learns, Hushed, Spoken, FailuresLast
  <2> QED BY <1>1, <2>2 DEF Spoken, FailuresLast
<1>5. ASSUME Tellable' PROVE \A v \in Workers : Settling(v)'
  <2>1. Tellable /\ \A v \in Workers : Settling(v)
    BY <1>1, <1>5 DEF Spoken, Tellable, OneMover, NoCancelOfRepairs
  <2> SUFFICES ASSUME NEW v \in Workers, wk'[v].wrote
               PROVE  \/ wk'[v].pc = "settle" /\ DidCommit(v)' /\ row'.op.id # wk'[v].op.id
                      \/ wk'[v].pc = "done" /\ wk'[v].answer # "failed"
    BY DEF Settling
  <2>2. CASE v # w
    BY <1>1, <2>1, <2>2, StillTold DEF Settling
  <2>3. CASE v = w /\ Mute(w)
    BY <2>1, <2>3 DEF Mute, Hushed, Settling
  <2>4. CASE v = w /\ Learns(w)
    BY <2>1, <2>4 DEF Learns, Hushed, Settling
  <2>5. CASE v = w /\ Writes(w)
    <3> DEFINE o == wk[w].op
    <3>1. /\ o.kind \in {"create", "reschedule", "cancel", "calendar_repair"} /\ o.id # None
          /\ wk[w].pc \in {"t2", "t2fail"} /\ Owns(w) /\ row' = Completed(w)
          /\ wk'[w].pc = "settle" /\ wk'[w].op = o /\ wk'[w].rev = wk[w].rev
      BY <1>1, <2>5, Known, OperationParts
         DEF Writes, Owned, WorkerShape, KindFits, OpShape
    <3>2. row'.op = NoOp /\ row'.action # None /\ row'.op.id # o.id
          /\ (o.kind = "cancel" => row'.status = "cancelled")
          /\ (o.kind = "reschedule" => row'.start = o.start)
      BY <1>1, <3>1, CompletedColumns, NoOpIs
    <3>3. /\ o.kind = "calendar_repair" => row'.cal = "created"
          /\ o.kind = "reschedule" => row'.rev = row.rev + 1
      BY <1>1, <3>1, CompletedMore
    <3>4. o.kind = "reschedule" => row'.rev > wk'[w].rev
      BY <1>1, <1>3, <3>1, <3>3 DEF RevKept
    <3>5. DidCommit(w)'
      BY <3>1, <3>2, <3>3, <3>4 DEF DidCommit, OpOf
    <3> QED BY <2>5, <3>1, <3>2, <3>5
  <2> QED BY <1>2, <2>2, <2>3, <2>4, <2>5
<1> QED BY <1>1, <1>4, <1>5, <1>6 DEF Spoken

LEMMA SpokenSteps == Spoken /\ [Next]_vars => Spoken'
<1>1. ASSUME Spoken, wk' = wk, row'.status = row.status, row'.action = row.action,
             row'.cal = row.cal, row'.start = row.start, row'.rev = row.rev,
             row'.op.id = row.op.id, UNCHANGED given, Owned'
      PROVE  Spoken'
  <2>1. RevKept' /\ FailuresLast' /\ route' = route
    BY <1>1 DEF Spoken, RevKept, FailuresLast, given
  <2>2. \A v \in Workers : Settling(v) => Settling(v)'
    <3> SUFFICES ASSUME NEW v \in Workers, Settling(v) PROVE Settling(v)'
      OBVIOUS
    <3>1. ASSUME wk[v].pc = "settle", DidCommit(v) PROVE DidCommit(v)'
      <4>1. wk[v].op.kind \in {"create", "reschedule", "cancel", "calendar_repair"}
        BY <1>1, <3>1, Known, OperationParts DEF Spoken, Owned, WorkerShape, KindFits
      <4> QED BY <1>1, <3>1, <4>1 DEF DidCommit, OpOf
    <3> QED BY <1>1, <3>1 DEF Settling
  <2> QED BY <1>1, <2>1, <2>2 DEF Spoken, Tellable, OneMover, NoCancelOfRepairs
<1>2. ASSUME Spoken, TimePasses \/ LateExecutes \/ HostDeletes, UNCHANGED given PROVE Spoken'
  <2>1. Owned /\ Owned'
    BY <1>2, OwnedWorldStep DEF Spoken
  <2>4. row \in BookingRows
    BY <2>1 DEF Owned, Typed, TypeOK
  <2>2. wk' = wk
    BY <1>2 DEF TimePasses, LateExecutes, HostDeletes
  <2>3. /\ row'.status = row.status /\ row'.action = row.action /\ row'.cal = row.cal
        /\ row'.start = row.start /\ row'.rev = row.rev /\ row'.op.id = row.op.id
    BY <1>2, <2>4 DEF TimePasses, LateExecutes, HostDeletes, BookingRows, Operations
  <2> QED BY <1>1, <1>2, <2>1, <2>2, <2>3
<1>3. ASSUME Spoken, UNCHANGED vars PROVE Spoken'
  <2>1. Owned'
    BY <1>3, OwnedSteps DEF Spoken
  <2> QED BY <1>1, <1>3, <2>1 DEF vars
<1> QED BY <1>2, <1>3, SpokenStep DEF Next

LEMMA SpokenAtFirst == Init => Spoken
<1> SUFFICES ASSUME Init PROVE Spoken
  OBVIOUS
<1>1. \A w \in Workers : wk[w].op.kind = "none" /\ ~wk[w].wrote /\ wk[w].answer # "failed"
  BY NoneIsNoFailure DEF Init, NewWorker, NoOp
<1>2. RevKept /\ FailuresLast
  BY <1>1 DEF RevKept, FailuresLast
<1>3. \A w \in Workers : Settling(w)
  BY <1>1 DEF Settling
<1> QED BY <1>2, <1>3, OwnedAtFirst DEF Spoken

\* A call told that its operation failed left no completing update in the row (settle.ts:63),
\* whatever COMMITs lost their response: where one call moves the booking and no cancel
\* follows a repair, the locked read cannot take a written update for a missing one.
THEOREM FailuresAreTrue == Spec => [](Tellable => FailedMeansUnwritten)
<1>1. Spoken => (Tellable => FailedMeansUnwritten)
  BY DEF Spoken, Settling, FailuresLast, FailedMeansUnwritten
<1> QED BY <1>1, SpokenAtFirst, SpokenSteps, PTL DEF Spec
===============================================================================
