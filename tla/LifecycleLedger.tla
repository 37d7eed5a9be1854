--------------------------- MODULE LifecycleLedger ---------------------------
(***************************************************************************)
(* The attempts and the ids of a booking's inserts, proved for every       *)
(* number of calls: an insert Google may still execute is on record, and   *)
(* an id retired for reaping never comes back.                             *)
(***************************************************************************)
EXTENDS LifecycleOwnership

\* The places where an attempt is held that is about to be retired.
Holding == {"sweep", "sweepLook", "retire", "remove", "removed", "delete", "deleted"}

\* A canceller on its way to replace the operation it took over.
Reconciling(r) ==
  \/ r.pc \in {"reconcile", "replace"}
  \/ r.pc \in {"bump", "bumping"} /\ r.then = "reconcile"

\* The events a reschedule may be completed with.
Near(o) == {o.old, o.fallback}

\* A worker that completes a reschedule works on nothing else.
Aims(r) ==
  /\ r.op.kind = "none" => r.seen = None /\ r.res = None
  /\ r.op.kind = "reschedule" =>
       /\ r.op.event = None
       /\ r.pc \in {"insert", "finish"} => r.at = r.op.fallback
       /\ r.pc \in {"bump", "bumping"} => r.todo \subseteq Near(r.op)
       /\ r.pc = "bumping" => r.at \in Near(r.op)
       /\ r.seen # None => r.seen.ev \in Near(r.op)
       /\ r.res # None => r.res.ev \in Near(r.op)

AllAim == \A w \in Workers : Aims(wk[w])

\* The ids an operation has to do with.
Touched(o) == {o.event, o.old, o.fallback} \cup {x.ev : x \in o.attempts}

Open(e) == e # None /\ e \notin {u.ev : u \in row.unresolved}

\* The open operation works on the booking's event, and on a fallback not yet retired.
IdRules ==
  /\ row.op.event \in {None, row.gid} /\ row.op.old \in {None, row.gid}
  /\ row.op.kind = "reschedule" => row.op.event = None
  /\ row.op.fallback # None => Open(row.op.fallback)
  /\ row.unfinished # None => row.unfinished.ev = row.gid

\* An id that has been used, or may be.
Used(i) ==
  \/ i = row.gid \/ \E u \in row.unresolved : i = u.ev
  \/ i \in Touched(row.op) \/ \E v \in Workers : i \in Touched(wk[v].op)
  \/ row.unfinished # None /\ \E x \in row.unfinished.attempts : i = x.ev

\* A call that may still mint its operation has an id nobody has used.
FreshIds == \A w \in Workers : Pristine(w) => ~Used(w)

Retired == Owned /\ AllAim /\ IdRules /\ FreshIds
-----------------------------------------------------------------------------
\* A worker's attempts are numbered, and it has sent none beyond its count.
Issued(a) == \A w \in Workers : a \in {w} \X Nat => wk[w].pc = "done" \/ a[2] <= wk[w].n

\* Google may still execute the insert of attempt a.
Pending(a) ==
  \/ \E r \in late : r.kind = "insert" /\ r.att = a
  \/ \E w \in Workers : At(w, "insert") /\ wk[w].att = a

Spent(a) == Issued(a) /\ ~Pending(a)

Numbered ==
  \A w \in Workers :
    /\ route[w] = "create" /\ wk[w].pc = "start" => wk[w].n = 0
    /\ \/ wk[w].pc \in {"insert", "finish"}
       \/ wk[w].pc = "look" /\ wk[w].op.kind = "reschedule"
       => wk[w].att = <<w, wk[w].n>>
    /\ wk[w].own # None /\ wk[w].pc # "done" =>
         wk[w].own.att \in {w} \X Nat /\ wk[w].own.att[2] <= wk[w].n

\* Only a call that gave up leaves an insert behind, and only one.
LateAreOver ==
  \A r \in late : r.kind = "insert" =>
    /\ r.att \in Attempts
    /\ \A w \in Workers : r.att \in {w} \X Nat => wk[w].pc = "done"
    /\ \A s \in late : s.kind = "insert" /\ s.att = r.att => s = r

HeldAreSpent ==
  /\ \A e \in Ids : Spent(cal[e].att)
  /\ \A w \in Workers : wk[w].pc \in Holding => Spent(wk[w].att)

\* Wherever an attempt is entered, it was issued, and it is not settled while pending.
Stands(x) == Issued(x.att) /\ (Pending(x.att) => x.out = "unresolved")

EntriesStand ==
  /\ \A x \in row.op.attempts : Stands(x)
  /\ \A w \in Workers : \A x \in wk[w].op.attempts : Stands(x)
  /\ row.unfinished # None => \A x \in row.unfinished.attempts : Stands(x)

Covers(s, t) == \A x \in t : \E y \in s : y.att = x.att

\* What a cancel carries is in its own ledger, and what it will replace in its memory.
LedgersCovered ==
  /\ row.unfinished # None => Covers(row.op.attempts, row.unfinished.attempts)
  /\ \A w \in Workers :
       Reconciling(wk[w]) /\ Owns(w) => Covers(wk[w].op.attempts, row.op.attempts)

Recorded ==
  /\ Numbered /\ LateAreOver /\ HeldAreSpent /\ EntriesStand /\ LedgersCovered
  /\ InsertsOnRecord

KeptOnRecord == "T1" \notin world.lostCommits => Recorded
-----------------------------------------------------------------------------
\* What a step of a call does to the ledgers: nothing, an entry, a settlement, a
\* retirement, or one of the transactions,
Entered(w) ==
  /\ Owns(w) /\ wk[w].op.kind # "none" /\ wk[w].pc # "insert"
  /\ wk'[w].pc = "insert" /\ wk'[w].op = wk[w].op
  /\ \E e \in Ids :
       /\ e \in Touched(wk[w].op)
       /\ row' = [row EXCEPT !.op.attempts = @ \cup {Attempt(<<w, wk[w].n + 1>>, e)}]

Settled(w) ==
  /\ wk[w].pc = "finish"
  /\ \E out \in {"applied", "rejected"} : row' = Resolved(w, out)

Erased(w) == wk[w].pc \in {"retire", "removed", "deleted"} /\ RetireAttempt(wk[w].att)

Books(w) ==
  \/ row' = row \/ Entered(w) \/ Settled(w) \/ Erased(w)
  \/ Takes(w) \/ Completes(w) \/ Clears(w) \/ Begins(w) \/ Replaces(w)
  \/ Creates(w) /\ wk'[w].pc \in {"insert", "lost"}

\* to what Google holds or may still execute,
Posts(w) ==
  /\ \A r \in late' : r.kind = "insert" =>
       \/ r \in late
       \/ wk[w].pc = "insert" /\ wk'[w].pc = "done" /\ r.att = wk[w].att
  /\ \A r, s \in late' \ late : r.kind = "insert" /\ s.kind = "insert" => r = s
  /\ \A e \in Ids : cal'[e].att # cal[e].att =>
       wk[w].pc = "insert" /\ wk'[w].pc = "finish" /\ cal'[e].att = wk[w].att

\* and to the attempts in the call's hand, which r is afterwards.
Hand(w, r) ==
  /\ r.op \in {wk[w].op, NoOp, row'.op}
  /\ r.pc = "start" => route[w] # "create"
  /\ r.pc \notin {"done", "insert"} => r.n = wk[w].n
  /\ r.pc = "insert" =>
       /\ \/ r.n = wk[w].n + 1 /\ wk[w].pc # "insert"
          \/ r.n = 1 /\ route[w] = "create" /\ wk[w].pc \in {"start", "lost"}
       /\ r.att = <<w, r.n>>
       /\ wk[w].pc # "lost" => \E x \in row'.op.attempts : x.att = r.att /\ x.out = "unresolved"
  /\ r.pc = "finish" \/ (r.pc = "look" /\ r.op.kind = "reschedule") =>
       wk[w].pc \in {"insert", "finish"} /\ r.att = wk[w].att
  /\ r.pc \in Holding =>
       \/ wk[w].pc \in Holding /\ r.att = wk[w].att
       \/ \E e \in Ids : r.att = cal[e].att
       \/ wk[w].pc = "superseded" /\ wk[w].own # None /\ r.att = wk[w].own.att
  /\ r.own # None =>
       \/ wk[w].own # None /\ r.own.att = wk[w].own.att
       \/ r.own.att = <<w, r.n>>
       \/ /\ wk[w].pc = "insert" \/ (wk[w].pc = "look" /\ wk[w].op.kind = "reschedule")
          /\ r.own.att = wk[w].att
  /\ Reconciling(r) => r.op = row'.op \/ (Reconciling(wk[w]) /\ r.op = wk[w].op)

Handled(w) == Hand(w, wk'[w]) /\ Aims(wk'[w])

\* The places a call can come to without an attempt in hand.
Plain ==
  Places \ ({"start", "done", "lost", "look", "insert", "finish", "bump", "bumping", "reconcile",
             "replace"} \cup Holding)

LEMMA HandledBy ==
  ASSUME Retired, NEW w \in Workers, NEW r, Become(w, r), Hand(w, r), Aims(r)
  PROVE  Handled(w)
BY BecomeIs DEF Handled, Retired, Owned

LEMMA PlainHand ==
  ASSUME Retired, NEW w \in Workers, NEW r, Become(w, r), r.pc \in Plain,
         r.op = wk[w].op, r.n = wk[w].n, r.own = wk[w].own, r.seen = wk[w].seen,
         \/ r.res = wk[w].res
         \/ r.op.kind # "none" /\ (r.op.kind = "reschedule" => r.res = None \/ r.res.ev \in Near(r.op))
  PROVE  Handled(w)
<1>1. Hand(w, r)
  BY DEF Hand, Plain, Reconciling, Holding
<1>2. Aims(r)
  BY DEF Aims, Plain, Retired, AllAim
<1> QED BY <1>1, <1>2, HandledBy

LEMMA GotoHand ==
  ASSUME Retired, NEW w \in Workers, NEW p \in Plain, Goto(w, p)
  PROVE  Handled(w)
<1> DEFINE r == [wk[w] EXCEPT !.pc = p]
<1>1. /\ r.pc = p /\ r.op = wk[w].op /\ r.n = wk[w].n /\ r.own = wk[w].own /\ r.seen = wk[w].seen
      /\ r.res = wk[w].res
  BY Known DEF Retired, Owned, WorkerStates
<1>2. Become(w, r)
  BY DEF Goto
<1> HIDE DEF r
<1> QED BY <1>1, <1>2, PlainHand

LEMMA EndHand ==
  ASSUME Retired, NEW w \in Workers, NEW a, End(w, a)
  PROVE  Handled(w) /\ wk'[w].pc = "done"
<1> DEFINE r == [NewWorker EXCEPT !.pc = "done", !.answer = a, !.wrote = wk[w].wrote]
<1>1. r.pc = "done" /\ r.op = NoOp /\ r.own = None /\ r.seen = None /\ r.res = None
  BY DEF NewWorker
<1>2. Become(w, r)
  BY DEF End
<1> HIDE DEF r
<1>3. Hand(w, r) /\ Aims(r)
  BY <1>1, NoOpIs DEF Hand, Aims, Holding, Reconciling
<1> QED BY <1>1, <1>2, <1>3, HandledBy, BecomeIs DEF Retired, Owned

LEMMA RestartHand ==
  ASSUME Retired, NEW w \in Workers, NEW i, Restart(w, i), route[w] # "create"
  PROVE  Handled(w) /\ wk'[w].pc \in {"start", "done"}
<1> DEFINE r == [NewWorker EXCEPT !.pass = 1, !.rev = i, !.n = wk[w].n]
<1>1. CASE End(w, "in_progress")
  BY <1>1, EndHand
<1>2. CASE Become(w, r)
  <2>1. /\ r.pc = "start" /\ r.op = NoOp /\ r.own = None /\ r.seen = None /\ r.res = None
        /\ r.n = wk[w].n
    BY DEF NewWorker
  <2> HIDE DEF r
  <2>2. Hand(w, r) /\ Aims(r)
    BY <2>1, NoOpIs DEF Hand, Aims, Holding, Reconciling
  <2> QED BY <1>2, <2>1, <2>2, HandledBy, BecomeIs DEF Retired, Owned
<1> QED BY <1>1, <1>2 DEF Restart

LEMMA OutsidePosts ==
  ASSUME Outside, NEW w
  PROVE  Posts(w)
BY DEF Outside, Posts

\* A request that is no insert.
LEMMA AskPosts ==
  ASSUME Typed, NEW w \in Workers, NEW q, NEW o, Ask(q, o), q.kind # "insert", q.ev \in Ids
  PROVE  Posts(w)
<1>1. \A r \in late' : r.kind = "insert" => r \in late
  BY DEF Ask
<1>2. ASSUME NEW e \in Ids, cal' = Executed(q) PROVE cal'[e].att = cal[e].att
  BY <1>2 DEF Executed, Typed, TypeOK, Events
<1> QED BY <1>1, <1>2 DEF Ask, Posts
-----------------------------------------------------------------------------
\* The deed of every step.
Deed(w) == Books(w) /\ Posts(w) /\ Handled(w)

LEMMA AppendDeed ==
  ASSUME Retired, NEW w \in Workers, NEW e \in Ids, wk[w].pc # "insert", AppendInsert(w, e), Outside,
         Owns(w), wk[w].op.kind # "none", e \in Touched(wk[w].op),
         wk[w].op.kind = "reschedule" => e = wk[w].op.fallback
  PROVE  Deed(w)
<1> DEFINE a == <<w, wk[w].n + 1>>
           mine == IF OpOf(w).kind = "create" /\ wk[w].own = None
                     THEN [ev |-> e, att |-> a, tag |-> None] ELSE wk[w].own
           r == [wk[w] EXCEPT !.pc = "insert", !.at = e, !.att = a, !.n = @ + 1,
                              !.tries = @ + 1, !.own = mine]
<1>1. Become(w, r)
  BY DEF AppendInsert
<1>2. /\ r.pc = "insert" /\ r.op = wk[w].op /\ r.at = e /\ r.att = a /\ r.n = wk[w].n + 1
      /\ r.own = mine /\ r.seen = wk[w].seen /\ r.res = wk[w].res
  BY Known DEF Retired, Owned, WorkerStates
<1>3. mine # None => mine.att = a \/ (wk[w].own # None /\ mine = wk[w].own)
  OBVIOUS
<1>4. row' = [row EXCEPT !.op.attempts = @ \cup {Attempt(a, e)}]
  BY DEF AppendInsert
<1>5. Attempt(a, e) \in row'.op.attempts /\ Attempt(a, e).att = a /\ Attempt(a, e).out = "unresolved"
  BY <1>4, Known DEF Attempt, Retired, Owned, BookingRows, Operations
<1> HIDE DEF r, mine
<1>6. Hand(w, r)
  BY <1>2, <1>3, <1>5 DEF Hand, Holding, Reconciling
<1>7. Aims(r)
  BY <1>2 DEF Aims, Retired, AllAim
<1>8. Handled(w) /\ wk'[w] = r
  BY <1>1, <1>6, <1>7, HandledBy, BecomeIs DEF Retired, Owned
<1>9. Entered(w)
  BY <1>2, <1>4, <1>8 DEF Entered
<1> QED BY <1>8, <1>9, OutsidePosts DEF Deed, Books

LEMMA InsertDeed ==
  ASSUME Retired, NEW w \in Workers, Insert(w)
  PROVE  Deed(w)
<1>1. wk[w].pc = "insert" /\ row' = row
  BY DEF Insert, At
<1>2. wk[w].at \in Ids /\ Typed /\ wk[w].op.kind # "none"
  BY <1>1, Known DEF Retired, Owned, WorkerShape, HandFits, KindFits, Finishable
<1> DEFINE q == InsertReq(wk[w].at, InsertStart(w), wk[w].att)
<1>3. q.kind = "insert" /\ q.att = wk[w].att /\ q.ev = wk[w].at
  BY DEF InsertReq
<1> HIDE DEF q
<1>4. PICK o \in {"applied", "conflict", "refused", "timeout"} :
        /\ Ask(q, o)
        /\ IF o = "timeout" THEN End(w, "unknown")
           ELSE Become(w, [wk[w] EXCEPT !.pc = "finish", !.got = o,
                  !.own = IF o = "applied" THEN OwnInsert(w, cal'[wk[w].at].ver) ELSE @])
  BY DEF Insert, q
<1>5. ASSUME NEW e \in Ids, cal' = Executed(q)
      PROVE  cal'[e].att = cal[e].att \/ cal'[e].att = wk[w].att
  BY <1>2, <1>3, <1>5 DEF Executed, Typed, TypeOK, Events
<1>6. CASE o = "timeout"
  <2>1. late' = late \cup {q} \/ late' = late
    BY <1>4 DEF Ask
  <2>2. cal' = cal
    BY <1>4, <1>6 DEF Ask, Verdict
  <2>3. Handled(w) /\ wk'[w].pc = "done"
    BY <1>4, <1>6, EndHand
  <2> QED BY <1>1, <1>3, <2>1, <2>2, <2>3 DEF Deed, Books, Posts
<1>7. CASE o # "timeout"
  <2> DEFINE own == IF o = "applied" THEN OwnInsert(w, cal'[wk[w].at].ver) ELSE wk[w].own
             r == [wk[w] EXCEPT !.pc = "finish", !.got = o, !.own = own]
  <2>1. Become(w, r)
    BY <1>4, <1>7, Known DEF Retired, Owned, WorkerStates
  <2>2. /\ r.pc = "finish" /\ r.op = wk[w].op /\ r.n = wk[w].n /\ r.own = own /\ r.att = wk[w].att
        /\ r.at = wk[w].at /\ r.seen = wk[w].seen /\ r.res = wk[w].res
    BY Known DEF Retired, Owned, WorkerStates
  <2>3. own # None => \/ wk[w].own # None /\ own.att = wk[w].own.att
                      \/ own.att = wk[w].att
    <3>1. wk[w].op.kind = "create" => wk[w].own # None
      BY <1>1, Known, NoneIsNoValue DEF Retired, Owned, WorkerShape, HandFits
    <3> QED BY <3>1 DEF OwnInsert, OpOf
  <2> HIDE DEF r, own
  <2>4. Hand(w, r)
    BY <1>1, <2>2, <2>3 DEF Hand, Holding, Reconciling
  <2>5. Aims(r)
    BY <1>1, <1>2, <2>2 DEF Aims, Retired, AllAim
  <2>6. Handled(w) /\ wk'[w].pc = "finish"
    BY <2>1, <2>2, <2>4, <2>5, HandledBy, BecomeIs DEF Retired, Owned
  <2>7. late' = late
    BY <1>4, <1>7 DEF Ask
  <2>8. Posts(w)
    BY <1>1, <1>4, <1>5, <2>6, <2>7 DEF Posts, Ask
  <2> QED BY <1>1, <2>6, <2>8 DEF Deed, Books
<1> QED BY <1>6, <1>7

LEMMA FinishDeed ==
  ASSUME Retired, NEW w \in Workers, Finish(w)
  PROVE  Deed(w)
<1>1. wk[w].pc = "finish" /\ Settled(w) /\ Outside
  BY DEF Finish, At, Settled
<1>2. wk[w].op.kind # "none" /\ wk[w].at \in Ids
  BY <1>1, Known DEF Retired, Owned, WorkerShape, HandFits, KindFits, Finishable
<1>3. CASE Become(w, [wk[w] EXCEPT !.pc = "t2", !.res = [ev |-> wk[w].at, tag |-> wk[w].own.tag]])
  <2> DEFINE r == [wk[w] EXCEPT !.pc = "t2", !.res = [ev |-> wk[w].at, tag |-> wk[w].own.tag]]
  <2>1. /\ r.pc = "t2" /\ r.op = wk[w].op /\ r.n = wk[w].n /\ r.own = wk[w].own
        /\ r.seen = wk[w].seen /\ r.res.ev = wk[w].at
    BY Known DEF Retired, Owned, WorkerStates
  <2>2. Become(w, r)
    BY <1>3
  <2> HIDE DEF r
  <2>3. r.op.kind = "reschedule" => r.res.ev \in Near(r.op)
    BY <1>1, <2>1 DEF Retired, AllAim, Aims, Near
  <2> QED BY <1>1, <1>2, <2>1, <2>2, <2>3, PlainHand, OutsidePosts DEF Deed, Books, Plain, Places, Holding
<1>4. CASE \E p \in {"t2fail", "clear"} : Goto(w, p)
  BY <1>1, <1>4, GotoHand, OutsidePosts DEF Deed, Books, Plain, Places, Holding
<1>5. CASE Goto(w, "look")
  <2> DEFINE r == [wk[w] EXCEPT !.pc = "look"]
  <2>1. /\ r.pc = "look" /\ r.op = wk[w].op /\ r.n = wk[w].n /\ r.own = wk[w].own
        /\ r.seen = wk[w].seen /\ r.res = wk[w].res /\ r.att = wk[w].att
    BY Known DEF Retired, Owned, WorkerStates
  <2>2. Become(w, r)
    BY <1>5 DEF Goto
  <2> HIDE DEF r
  <2>3. Hand(w, r) /\ Aims(r)
    BY <1>1, <2>1 DEF Hand, Aims, Retired, AllAim, Reconciling, Holding
  <2> QED BY <1>1, <2>2, <2>3, HandledBy, OutsidePosts DEF Deed, Books
<1> QED BY <1>3, <1>4, <1>5 DEF Finish

LEMMA LookDeed ==
  ASSUME Retired, NEW w \in Workers, Look(w)
  PROVE  Deed(w)
<1>1. wk[w].pc = "look" /\ Outside
  BY DEF Look, At
<1>2. wk[w].op.kind \in Finishable
  BY <1>1, Known DEF Retired, Owned, WorkerShape, KindFits
<1> DEFINE e == IF OpOf(w).kind = "reschedule" THEN OpOf(w).fallback ELSE OpOf(w).event
           own == IF OpOf(w).kind = "reschedule"
                    THEN [ev |-> e, att |-> wk[w].att, tag |-> cal[e].ver] ELSE wk[w].own
<1>3. e \in Ids /\ e \in Touched(wk[w].op) /\ (wk[w].op.kind = "reschedule" => e = wk[w].op.fallback)
  BY <1>2, Known DEF Retired, Owned, WorkerShape, OpShape, OpOf, Touched, Finishable
<1>4. CASE Become(w, [wk[w] EXCEPT !.pc = "t2", !.res = Seen(e), !.own = own]) /\ row' = row
  <2> DEFINE r == [wk[w] EXCEPT !.pc = "t2", !.res = Seen(e), !.own = own]
  <2>1. /\ r.pc = "t2" /\ r.op = wk[w].op /\ r.n = wk[w].n /\ r.own = own
        /\ r.seen = wk[w].seen /\ r.res = Seen(e)
    BY Known DEF Retired, Owned, WorkerStates
  <2>2. Become(w, r)
    BY <1>4
  <2>3. own # None => \/ own = wk[w].own /\ wk[w].own # None
                      \/ wk[w].op.kind = "reschedule" /\ own.att = wk[w].att
    BY DEF OpOf
  <2> HIDE DEF r, own, e
  <2>4. Hand(w, r)
    BY <1>1, <2>1, <2>3 DEF Hand, Reconciling, Holding
  <2>5. Aims(r)
    BY <1>1, <1>2, <1>3, <2>1 DEF Aims, Retired, AllAim, Seen, Near, Finishable
  <2> QED BY <1>1, <1>4, <2>2, <2>4, <2>5, HandledBy, OutsidePosts DEF Deed, Books
<1>5. CASE AppendInsert(w, e) /\ Owns(w)
  <2> HIDE DEF e
  <2> QED BY <1>1, <1>2, <1>3, <1>5, AppendDeed DEF Finishable
<1>6. CASE \E a \in Answers : End(w, a) /\ row' = row
  BY <1>1, <1>6, EndHand, OutsidePosts DEF Deed, Books
<1>7. CASE Goto(w, "clear") /\ row' = row
  BY <1>1, <1>7, GotoHand, OutsidePosts DEF Deed, Books, Plain, Places, Holding
<1>8. CASE Live(e) /\ Become(w, [wk[w] EXCEPT !.pc = "t2", !.res = Seen(e),
              !.own = IF OpOf(w).kind = "reschedule"
                        THEN [ev |-> e, att |-> wk[w].att, tag |-> cal[e].ver] ELSE @])
           /\ row' = row
  BY <1>4, <1>8, Known DEF Retired, Owned, WorkerStates
<1> QED BY <1>5, <1>6, <1>7, <1>8 DEF Look, Answers

LEMMA BumpHand ==
  ASSUME Retired, NEW w \in Workers, NEW r, Become(w, r), wk[w].pc \in {"bump", "bumping"},
         r.pc \in {"bump", "bumping"}, r.then = wk[w].then, r.op = wk[w].op, r.n = wk[w].n,
         r.own = wk[w].own, r.res = wk[w].res, r.todo \subseteq wk[w].todo,
         r.pc = "bumping" => r.at \in wk[w].todo,
         \/ r.seen = wk[w].seen \/ r.seen = None
         \/ wk[w].pc = "bumping" /\ r.seen.ev = wk[w].at
  PROVE  Handled(w)
<1>1. Hand(w, r)
  BY DEF Hand, Reconciling, Holding
<1>2. wk[w].op.kind # "none"
  BY Known DEF Retired, Owned, WorkerShape, KindFits, Finishable
<1>3. Aims(r)
  BY <1>2 DEF Aims, Retired, AllAim
<1> QED BY <1>1, <1>3, HandledBy

LEMMA BumpDeed ==
  ASSUME Retired, NEW w \in Workers, Bump(w)
  PROVE  Deed(w)
<1>1. wk[w].pc = "bump" /\ Outside /\ row' = row
  BY DEF Bump, At
<1>2. CASE Goto(w, wk[w].then)
  <2>1. wk[w].then \in {"judge", "judged", "calendar", "reconcile"}
    BY <1>1, Known DEF Retired, Owned, WorkerShape, KindFits
  <2>2. CASE wk[w].then # "reconcile"
    BY <1>1, <1>2, <2>1, <2>2, GotoHand, OutsidePosts DEF Deed, Books, Plain, Places, Holding
  <2>3. CASE wk[w].then = "reconcile"
    <3> DEFINE r == [wk[w] EXCEPT !.pc = "reconcile"]
    <3>1. /\ r.pc = "reconcile" /\ r.op = wk[w].op /\ r.n = wk[w].n /\ r.own = wk[w].own
          /\ r.seen = wk[w].seen /\ r.res = wk[w].res
      BY Known DEF Retired, Owned, WorkerStates
    <3>2. Become(w, r)
      BY <1>2, <2>3 DEF Goto
    <3> HIDE DEF r
    <3>3. Hand(w, r) /\ Aims(r)
      BY <1>1, <2>3, <3>1 DEF Hand, Aims, Retired, AllAim, Reconciling, Holding
    <3> QED BY <1>1, <3>2, <3>3, HandledBy, OutsidePosts DEF Deed, Books
  <2> QED BY <2>2, <2>3
<1>3. ASSUME NEW e \in wk[w].todo, Become(w, [wk[w] EXCEPT !.todo = @ \ {e}, !.seen = None])
      PROVE  Deed(w)
  <2> DEFINE r == [wk[w] EXCEPT !.todo = @ \ {e}, !.seen = None]
  <2>1. /\ r.pc = "bump" /\ r.op = wk[w].op /\ r.n = wk[w].n /\ r.own = wk[w].own
        /\ r.seen = None /\ r.res = wk[w].res /\ r.then = wk[w].then /\ r.todo \subseteq wk[w].todo
    BY <1>1, Known DEF Retired, Owned, WorkerStates
  <2>2. Become(w, r)
    BY <1>3
  <2> HIDE DEF r
  <2> QED BY <1>1, <2>1, <2>2, BumpHand, OutsidePosts DEF Deed, Books
<1>4. ASSUME NEW e \in wk[w].todo,
             Become(w, [wk[w] EXCEPT !.pc = "bumping", !.at = e, !.tag = cal[e].ver, !.todo = @ \ {e}])
      PROVE  Deed(w)
  <2> DEFINE r == [wk[w] EXCEPT !.pc = "bumping", !.at = e, !.tag = cal[e].ver, !.todo = @ \ {e}]
  <2>1. /\ r.pc = "bumping" /\ r.op = wk[w].op /\ r.n = wk[w].n /\ r.own = wk[w].own
        /\ r.seen = wk[w].seen /\ r.res = wk[w].res /\ r.then = wk[w].then
        /\ r.todo \subseteq wk[w].todo /\ r.at = e
    BY Known DEF Retired, Owned, WorkerStates
  <2>2. Become(w, r)
    BY <1>4
  <2> HIDE DEF r
  <2> QED BY <1>1, <2>1, <2>2, BumpHand, OutsidePosts DEF Deed, Books
<1>5. CASE End(w, "superseded")
  BY <1>1, <1>5, EndHand, OutsidePosts DEF Deed, Books
<1> QED BY <1>2, <1>3, <1>4, <1>5 DEF Bump

LEMMA BumpingDeed ==
  ASSUME Retired, NEW w \in Workers, Bumping(w)
  PROVE  Deed(w)
<1>1. wk[w].pc = "bumping" /\ row' = row
  BY DEF Bumping, At
<1>2. wk[w].at \in Ids /\ Typed
  BY <1>1, Known DEF Retired, Owned, WorkerShape, HandFits
<1>3. PICK o \in {"applied", "stale", "gone", "refused", "timeout"} :
        /\ Ask(BumpReq(wk[w].at, wk[w].tag), o)
        /\ IF o \in {"refused", "timeout"} THEN End(w, "unknown")
           ELSE Become(w, [wk[w] EXCEPT !.pc = "bump",
                  !.seen = IF cal'[wk[w].at].live
                             THEN [ev |-> wk[w].at, tag |-> cal'[wk[w].at].ver] ELSE None])
  BY DEF Bumping
<1>4. Posts(w)
  <2>1. BumpReq(wk[w].at, wk[w].tag).kind # "insert" /\ BumpReq(wk[w].at, wk[w].tag).ev = wk[w].at
    BY DEF BumpReq, PatchReq
  <2> QED BY ONLY <1>2, <1>3, <2>1, AskPosts
<1>5. ASSUME NEW seen, seen = None \/ seen.ev = wk[w].at,
             Become(w, [wk[w] EXCEPT !.pc = "bump", !.seen = seen])
      PROVE  Handled(w)
  <2> DEFINE r == [wk[w] EXCEPT !.pc = "bump", !.seen = seen]
  <2>1. /\ r.pc = "bump" /\ r.op = wk[w].op /\ r.n = wk[w].n /\ r.own = wk[w].own
        /\ r.seen = seen /\ r.res = wk[w].res /\ r.then = wk[w].then /\ r.todo = wk[w].todo
    BY Known DEF Retired, Owned, WorkerStates
  <2>2. Become(w, r)
    BY <1>5
  <2> HIDE DEF r
  <2> QED BY <1>1, <1>5, <2>1, <2>2, BumpHand
<1> DEFINE seen == IF cal'[wk[w].at].live
                     THEN [ev |-> wk[w].at, tag |-> cal'[wk[w].at].ver] ELSE None
<1>6. Handled(w)
  <2>1. CASE End(w, "unknown")
    BY <2>1, EndHand
  <2>2. CASE Become(w, [wk[w] EXCEPT !.pc = "bump", !.seen = seen])
    <3>1. seen = None \/ seen.ev = wk[w].at
      OBVIOUS
    <3> HIDE DEF seen
    <3> QED BY <1>5, <2>2, <3>1
  <2> QED BY <1>3, <2>1, <2>2
<1> QED BY <1>1, <1>4, <1>6 DEF Deed, Books

\* A sweep of retired events: the attempt in hand is the event's, or was already in hand.
LEMMA HoldHand ==
  ASSUME Retired, NEW w \in Workers, NEW r, Become(w, r), r.pc \in Holding,
         r.op = wk[w].op, r.n = wk[w].n, r.own = wk[w].own, r.seen = wk[w].seen, r.res = wk[w].res,
         \/ wk[w].pc \in Holding /\ r.att = wk[w].att
         \/ \E e \in Ids : r.att = cal[e].att
         \/ wk[w].pc = "superseded" /\ wk[w].own # None /\ r.att = wk[w].own.att
  PROVE  Handled(w)
<1>1. Hand(w, r)
  BY DEF Hand, Reconciling, Holding
<1>2. Aims(r)
  BY DEF Aims, Retired, AllAim, Holding
<1> QED BY <1>1, <1>2, HandledBy

LEMMA HoldGoto ==
  ASSUME Retired, NEW w \in Workers, NEW p \in Holding, Goto(w, p), wk[w].pc \in Holding
  PROVE  Handled(w)
<1> DEFINE r == [wk[w] EXCEPT !.pc = p]
<1>1. /\ r.pc = p /\ r.op = wk[w].op /\ r.n = wk[w].n /\ r.own = wk[w].own
      /\ r.seen = wk[w].seen /\ r.res = wk[w].res /\ r.att = wk[w].att
  BY Known DEF Retired, Owned, WorkerStates
<1>2. Become(w, r)
  BY DEF Goto
<1> HIDE DEF r
<1> QED BY <1>1, <1>2, HoldHand

LEMMA DeletePosts ==
  ASSUME Retired, NEW w \in Workers, NEW o, NEW v, NEW e \in Ids, Ask(DeleteReq(e, v), o)
  PROVE  Posts(w)
<1>1. DeleteReq(e, v).kind # "insert" /\ DeleteReq(e, v).ev \in Ids
  BY DEF DeleteReq
<1> QED BY <1>1, AskPosts DEF Retired, Owned

LEMMA ReapDeed ==
  ASSUME Retired, NEW w \in Workers, Reap(w)
  PROVE  Deed(w)
<1>1. wk[w].pc = "reap" /\ Outside /\ row' = row
  BY DEF Reap, At
<1>2. PICK e \in wk[w].todo :
        IF Live(e)
          THEN Become(w, [wk[w] EXCEPT !.pc = "sweep", !.at = e, !.tag = cal[e].ver,
                                       !.att = cal[e].att, !.tries = 0, !.todo = @ \ {e}])
          ELSE Become(w, [wk[w] EXCEPT !.todo = @ \ {e}])
  BY DEF Reap
<1>3. e \in Ids
  BY Known, WorkerParts DEF Retired, Owned
<1>4. CASE Live(e)
  <2> DEFINE r == [wk[w] EXCEPT !.pc = "sweep", !.at = e, !.tag = cal[e].ver, !.att = cal[e].att,
                                !.tries = 0, !.todo = @ \ {e}]
  <2>1. /\ r.pc = "sweep" /\ r.op = wk[w].op /\ r.n = wk[w].n /\ r.own = wk[w].own
        /\ r.seen = wk[w].seen /\ r.res = wk[w].res /\ r.att = cal[e].att
    BY Known DEF Retired, Owned, WorkerStates
  <2>2. Become(w, r)
    BY <1>2, <1>4
  <2> HIDE DEF r
  <2> QED BY <1>1, <1>3, <2>1, <2>2, HoldHand, OutsidePosts DEF Deed, Books, Holding
<1>5. CASE ~Live(e)
  <2> DEFINE r == [wk[w] EXCEPT !.todo = @ \ {e}]
  <2>1. /\ r.pc = "reap" /\ r.op = wk[w].op /\ r.n = wk[w].n /\ r.own = wk[w].own
        /\ r.seen = wk[w].seen /\ r.res = wk[w].res
    BY <1>1, Known DEF Retired, Owned, WorkerStates
  <2>2. Become(w, r)
    BY <1>2, <1>5
  <2> HIDE DEF r
  <2> QED BY <1>1, <2>1, <2>2, PlainHand, OutsidePosts DEF Deed, Books, Plain, Places, Holding
<1> QED BY <1>4, <1>5

LEMMA SweepDeed ==
  ASSUME Retired, NEW w \in Workers, Sweep(w)
  PROVE  Deed(w)
<1>1. wk[w].pc = "sweep" /\ row' = row
  BY DEF Sweep, At
<1>2. wk[w].at \in Ids
  BY <1>1, Known DEF Retired, Owned, WorkerShape, HandFits
<1>3. Posts(w)
  BY <1>2, DeletePosts DEF Sweep
<1>4. \E p \in {"retire", "sweepLook", "reap"} : Goto(w, p)
  BY DEF Sweep
<1> QED BY <1>1, <1>3, <1>4, GotoHand, HoldGoto DEF Deed, Books, Plain, Places, Holding

LEMMA SweepLookDeed ==
  ASSUME Retired, NEW w \in Workers, SweepLook(w)
  PROVE  Deed(w)
<1>1. wk[w].pc = "sweepLook" /\ row' = row /\ Outside
  BY DEF SweepLook, At
<1>2. CASE Goto(w, "retire")
  BY <1>1, <1>2, HoldGoto, OutsidePosts DEF Deed, Books, Holding
<1>3. ASSUME NEW v, Become(w, [wk[w] EXCEPT !.pc = "sweep", !.tag = v, !.tries = 1])
      PROVE  Deed(w)
  <2> DEFINE r == [wk[w] EXCEPT !.pc = "sweep", !.tag = v, !.tries = 1]
  <2>1. /\ r.pc = "sweep" /\ r.op = wk[w].op /\ r.n = wk[w].n /\ r.own = wk[w].own
        /\ r.seen = wk[w].seen /\ r.res = wk[w].res /\ r.att = wk[w].att
    BY Known DEF Retired, Owned, WorkerStates
  <2>2. Become(w, r)
    BY <1>3
  <2> HIDE DEF r
  <2> QED BY <1>1, <2>1, <2>2, HoldHand, OutsidePosts DEF Deed, Books, Holding
<1> QED BY <1>2, <1>3 DEF SweepLook

LEMMA RetireDeed ==
  ASSUME Retired, NEW w \in Workers, Retire(w)
  PROVE  Deed(w)
<1>1. Erased(w) /\ Outside
  BY DEF Retire, At, Erased
<1> QED BY <1>1, GotoHand, OutsidePosts DEF Retire, Deed, Books, Plain, Places, Holding
-----------------------------------------------------------------------------
\* The ends of the operations.
LEMMA ContinueHand ==
  ASSUME Retired, NEW w \in Workers, Continue(w)
  PROVE  Handled(w)
BY EndHand, RestartHand DEF Continue

LEMMA DoneHand ==
  ASSUME Retired, NEW w \in Workers, Done(w)
  PROVE  Handled(w)
BY ContinueHand, EndHand, RestartHand DEF Done

LEMMA NotOwnerHand ==
  ASSUME Retired, NEW w \in Workers, NotOwner(w)
  PROVE  Handled(w)
<1>1. CASE \E a \in Answers : End(w, a)
  BY <1>1, EndHand
<1>2. CASE route[w] = "cancel" /\ Restart(w, wk[w].rev + 1)
  BY <1>2, RestartHand
<1>3. ASSUME NEW g, Become(w, [wk[w] EXCEPT !.pc = "superseded", !.got = g]) PROVE Handled(w)
  <2> DEFINE r == [wk[w] EXCEPT !.pc = "superseded", !.got = g]
  <2>1. /\ r.pc = "superseded" /\ r.op = wk[w].op /\ r.n = wk[w].n /\ r.own = wk[w].own
        /\ r.seen = wk[w].seen /\ r.res = wk[w].res
    BY Known DEF Retired, Owned, WorkerStates
  <2>2. Become(w, r)
    BY <1>3
  <2> HIDE DEF r
  <2> QED BY <2>1, <2>2, PlainHand DEF Plain, Places, Holding
<1>4. CASE Become(w, [wk[w] EXCEPT !.pc = "superseded", !.got = IF At(w, "t2") THEN "applied" ELSE @])
  BY <1>3, <1>4, Known DEF Retired, Owned, WorkerStates
<1> QED BY <1>1, <1>2, <1>4 DEF NotOwner, Answers

LEMMA T2Deed ==
  ASSUME Retired, NEW w \in Workers, T2(w)
  PROVE  Deed(w)
<1>1. wk[w].pc \in {"t2", "t2fail"} /\ Outside
  BY DEF T2, At
<1>2. row' = row \/ Completes(w)
  <2>1. Effects(w) /\ (row' = row \/ (Owns(w) /\ row' = Completed(w)))
    BY T2Effect, OthersStand DEF T2, Retired
  <2> QED BY <1>1, <2>1
          DEF Effects, Takes, Completes, Clears, Creates, Begins, Replaces, Recognizes
<1>3. CASE Become(w, [wk[w] EXCEPT !.pc = "settle", !.wrote = TRUE])
  <2> DEFINE r == [wk[w] EXCEPT !.pc = "settle", !.wrote = TRUE]
  <2>1. /\ r.pc = "settle" /\ r.op = wk[w].op /\ r.n = wk[w].n /\ r.own = wk[w].own
        /\ r.seen = wk[w].seen /\ r.res = wk[w].res
    BY Known DEF Retired, Owned, WorkerStates
  <2>2. Become(w, r)
    BY <1>3
  <2> HIDE DEF r
  <2>3. Handled(w)
    BY <2>1, <2>2, PlainHand DEF Plain, Places, Holding
  <2> QED BY <1>1, <1>2, <2>3, OutsidePosts DEF Deed, Books
<1>4. CASE \E p \in {"settle", "rolledBack"} : Goto(w, p)
  <2>1. Handled(w)
    BY <1>4, GotoHand DEF Plain, Places, Holding
  <2> QED BY <1>1, <1>2, <2>1, OutsidePosts DEF Deed, Books
<1>5. CASE NotOwner(w) \/ Done(w)
  BY <1>1, <1>2, <1>5, NotOwnerHand, DoneHand, OutsidePosts DEF Deed, Books
<1> QED BY <1>3, <1>4, <1>5 DEF T2

LEMMA SettleDeed ==
  ASSUME Retired, NEW w \in Workers, Settle(w)
  PROVE  Deed(w)
<1>1. CASE Done(w)
  BY <1>1, DoneHand, OutsidePosts DEF Settle, Deed, Books
<1>2. CASE Goto(w, "rolledBack")
  BY <1>2, GotoHand, OutsidePosts DEF Settle, Deed, Books, Plain, Places, Holding
<1> QED BY <1>1, <1>2 DEF Settle

LEMMA RolledBackDeed ==
  ASSUME Retired, NEW w \in Workers, RolledBack(w)
  PROVE  Deed(w)
<1>1. CASE End(w, "failed")
  BY <1>1, EndHand, OutsidePosts DEF RolledBack, Deed, Books
<1>2. CASE Goto(w, "compensate")
  BY <1>2, GotoHand, OutsidePosts DEF RolledBack, Deed, Books, Plain, Places, Holding
<1> QED BY <1>1, <1>2 DEF RolledBack

LEMMA CompensateDeed ==
  ASSUME Retired, NEW w \in Workers, Compensate(w)
  PROVE  Deed(w)
<1>1. wk[w].pc = "compensate" /\ row' = row /\ End(w, "failed")
  BY DEF Compensate, At
<1>2. wk[w].op.old \in Ids /\ (wk[w].own # None => wk[w].own.ev \in Ids)
  BY <1>1, Known, WorkerParts
     DEF Retired, Owned, WorkerShape, KindFits, OpShape, OwnInserts
<1> DEFINE q == IF wk[w].own # None THEN DeleteReq(wk[w].own.ev, wk[w].own.tag)
                ELSE PatchReq(OpOf(w).old, wk[w].start, wk[w].res.tag)
<1>3. q.kind # "insert" /\ q.ev \in Ids
  BY <1>2 DEF DeleteReq, PatchReq, OpOf
<1>4. \E o \in {"applied", "stale", "gone", "refused", "timeout"} : Ask(q, o)
  BY DEF Compensate
<1> HIDE DEF q
<1>5. Posts(w)
  BY <1>3, <1>4, AskPosts DEF Retired, Owned
<1> QED BY <1>1, <1>5, EndHand DEF Deed, Books

LEMMA ClearDeed ==
  ASSUME Retired, NEW w \in Workers, Clear(w)
  PROVE  Deed(w)
<1>1. wk[w].pc = "clear" /\ Outside
  BY DEF Clear, At
<1>2. wk[w].op.kind = "reschedule" => route[w] # "create"
  BY Known DEF Retired, Owned, WorkerShape, RouteFits
<1>3. row' = row \/ Clears(w)
  <2>1. Effects(w) /\ (row' = row \/ (Owns(w) /\ row' = Cleared(w)))
    BY ClearEffect, OthersStand DEF Clear, Retired
  <2>2. wk'[w].pc \in {"start", "done"}
    BY <1>2, EndHand, RestartHand DEF Clear, AfterClear, Continue, OpOf
  <2> QED BY <1>1, <2>1, <2>2
          DEF Effects, Takes, Completes, Clears, Creates, Begins, Replaces, Recognizes, GoesOn
<1>4. Handled(w)
  BY <1>2, ContinueHand, EndHand, RestartHand DEF Clear, AfterClear, OpOf
<1> QED BY <1>1, <1>3, <1>4, OutsidePosts DEF Deed, Books

LEMMA GoOnHand ==
  ASSUME Retired, NEW w \in Workers, NEW next, GoOn(w, next)
  PROVE  Handled(w)
BY ContinueHand, EndHand, GotoHand DEF GoOn, Plain, Places, Holding

LEMMA SupersededDeed ==
  ASSUME Retired, NEW w \in Workers, Superseded(w)
  PROVE  Deed(w)
<1> DEFINE a == SupersededAnswer(w)
           own == wk[w].own
<1>1. wk[w].pc = "superseded" /\ row' = row /\ Outside
  BY DEF Superseded, At
<1>2. CASE GoOn(w, a)
  BY <1>1, <1>2, GoOnHand, OutsidePosts DEF Deed, Books
<1>3. CASE /\ own # None
           /\ Become(w, [wk[w] EXCEPT !.todo = {}, !.then = a, !.att = own.att, !.pc = "sweep",
                                      !.at = own.ev, !.tag = own.tag, !.tries = 0])
  <2> DEFINE r == [wk[w] EXCEPT !.todo = {}, !.then = a, !.att = own.att, !.pc = "sweep",
                                !.at = own.ev, !.tag = own.tag, !.tries = 0]
  <2>1. /\ r.pc = "sweep" /\ r.op = wk[w].op /\ r.n = wk[w].n /\ r.own = wk[w].own
        /\ r.seen = wk[w].seen /\ r.res = wk[w].res /\ r.att = own.att
    BY Known DEF Retired, Owned, WorkerStates
  <2>2. Become(w, r)
    BY <1>3
  <2> HIDE DEF r, a
  <2> QED BY <1>1, <1>3, <2>1, <2>2, HoldHand, OutsidePosts DEF Deed, Books, Holding
<1>4. CASE /\ own # None
           /\ Become(w, [wk[w] EXCEPT !.todo = {}, !.then = a, !.att = own.att, !.pc = "retire"])
  <2> DEFINE r == [wk[w] EXCEPT !.todo = {}, !.then = a, !.att = own.att, !.pc = "retire"]
  <2>1. /\ r.pc = "retire" /\ r.op = wk[w].op /\ r.n = wk[w].n /\ r.own = wk[w].own
        /\ r.seen = wk[w].seen /\ r.res = wk[w].res /\ r.att = own.att
    BY Known DEF Retired, Owned, WorkerStates
  <2>2. Become(w, r)
    BY <1>4
  <2> HIDE DEF r, a
  <2> QED BY <1>1, <1>4, <2>1, <2>2, HoldHand, OutsidePosts DEF Deed, Books, Holding
<1> QED BY <1>2, <1>3, <1>4 DEF Superseded, CleanupEligible

LEMMA SweptDeed ==
  ASSUME Retired, NEW w \in Workers, Swept(w)
  PROVE  Deed(w)
BY GoOnHand, OutsidePosts DEF Swept, Deed, Books
-----------------------------------------------------------------------------
\* The flows.
LEMMA TakeOverDeed ==
  ASSUME Retired, NEW w \in Workers, NEW ids, NEW p, TakeOver(w, ids, p), Outside,
         wk[w].pc \in {"start", "lost", "t1", "cancelT1"}, Takes(w),
         p \in {"look", "judge", "calendar", "reconcile"},
         p = "look" => row.op.kind # "reschedule",
         row.op.kind = "reschedule" => ids \subseteq Near(row.op) /\ row.op.event = None
  PROVE  Deed(w)
<1> DEFINE q == IF ids = {} THEN p ELSE "bump"
           o == TakenOver
           r == [wk[w] EXCEPT !.op = o, !.start = row.start, !.todo = ids, !.then = p,
                              !.pc = q, !.tries = 0, !.own = None]
<1>1. Become(w, r) /\ row' = [row EXCEPT !.op = o]
  BY DEF TakeOver
<1>2. /\ o.kind = row.op.kind /\ o.event = row.op.event /\ o.old = row.op.old
      /\ o.fallback = row.op.fallback
  BY Known DEF Retired, Owned, TakenOver, Operations
<1>3. row'.op = o
  BY <1>1, Known DEF Retired, Owned, BookingRows
<1> HIDE DEF o, q
<1>4. /\ r.pc = q /\ r.op = o /\ r.n = wk[w].n /\ r.own = None /\ r.todo = ids
      /\ r.seen = wk[w].seen /\ r.res = wk[w].res
  BY Known DEF Retired, Owned, WorkerStates
<1> HIDE DEF r
<1>5. q \in {"bump", "look", "judge", "calendar", "reconcile"} /\ (q = "look" => p = "look")
  BY DEF q
<1>6. wk[w].op.kind = "none"
  BY Known DEF Retired, Owned, WorkerShape, KindFits
<1>7. Hand(w, r)
  BY <1>2, <1>3, <1>4, <1>5 DEF Hand, Holding
<1>8. Aims(r)
  <2>1. r.seen = None /\ r.res = None
    BY <1>4, <1>6 DEF Retired, AllAim, Aims
  <2> QED BY <1>2, <1>4, <1>5, <2>1 DEF Aims, Near
<1> QED BY <1>1, <1>7, <1>8, HandledBy, OutsidePosts DEF Deed, Books

LEMMA CreatedHand ==
  ASSUME Retired, NEW w \in Workers, Become(w, Created(w, row'.op)), row'.op.kind = "create",
         route[w] = "create", wk[w].pc \in {"start", "lost"},
         wk[w].pc = "start" =>
           \E x \in row'.op.attempts : x.att = <<w, 1>> /\ x.out = "unresolved"
  PROVE  Handled(w) /\ Holds(w) /\ wk'[w].pc = "insert"
<1> DEFINE o == row'.op
           r == [wk[w] EXCEPT !.pc = "insert", !.op = o, !.start = T0, !.at = w, !.att = <<w, 1>>,
                              !.n = 1, !.tries = 1, !.own = [ev |-> w, att |-> <<w, 1>>, tag |-> None]]
<1>1. Become(w, r)
  BY DEF Created
<1> HIDE DEF o
<1>2. r.pc = "insert" /\ r.op = o /\ r.n = 1 /\ r.att = <<w, 1>> /\ r.own.att = <<w, 1>>
  BY Known DEF Retired, Owned, WorkerStates
<1> HIDE DEF r
<1>3. o.kind = "create" /\ o = row'.op
  BY DEF o
<1>4. Hand(w, r) /\ Aims(r)
  BY <1>2, <1>3 DEF Hand, Aims, Holding, Reconciling
<1>5. wk'[w] = r
  BY <1>1, BecomeIs DEF Retired, Owned
<1> QED BY <1>1, <1>2, <1>3, <1>4, <1>5, HandledBy DEF Holds

LEMMA CreateT1Deed ==
  ASSUME Retired, NEW w \in Workers, CreateT1(w)
  PROVE  Deed(w)
<1>1. route[w] = "create" /\ wk[w].pc = "start" /\ row.status = "absent" /\ Outside
  BY DEF CreateT1, At
<1>2. CASE row' = FreshRow(w) /\ Become(w, Created(w, row'.op))
  <2>1. row'.op.kind = "create"
    BY <1>2 DEF FreshRow, BeginOp, NoOp
  <2>2. Attempt(<<w, 1>>, w) \in row'.op.attempts
    BY <1>2 DEF FreshRow, BeginOp, NoOp
  <2>3. Attempt(<<w, 1>>, w).att = <<w, 1>> /\ Attempt(<<w, 1>>, w).out = "unresolved"
    BY DEF Attempt
  <2>4. Handled(w) /\ Holds(w) /\ wk'[w].pc = "insert"
    BY <1>1, <1>2, <2>1, <2>2, <2>3, CreatedHand
  <2>5. Creates(w)
    BY <1>1, <1>2, <2>4 DEF Creates
  <2> QED BY <1>1, <2>4, <2>5, OutsidePosts DEF Deed, Books
<1>3. CASE "T1" \in world.lostCommits /\ row' \in {row, FreshRow(w)} /\ Goto(w, "lost")
  <2> DEFINE r == [wk[w] EXCEPT !.pc = "lost"]
  <2>1. /\ r.pc = "lost" /\ r.op = wk[w].op /\ r.n = wk[w].n /\ r.own = wk[w].own
        /\ r.seen = wk[w].seen /\ r.res = wk[w].res
    BY Known DEF Retired, Owned, WorkerStates
  <2>2. Become(w, r)
    BY <1>3 DEF Goto
  <2> HIDE DEF r
  <2>3. Hand(w, r) /\ Aims(r)
    BY <2>1 DEF Hand, Aims, Retired, AllAim, Holding, Reconciling
  <2>4. Handled(w) /\ wk'[w] = r
    BY <2>2, <2>3, HandledBy, BecomeIs DEF Retired, Owned
  <2>5. row' = row \/ Creates(w)
    BY <1>1, <1>3, <2>1, <2>4 DEF Creates, Loses
  <2> QED BY <1>1, <2>1, <2>4, <2>5, OutsidePosts DEF Deed, Books
<1> QED BY <1>2, <1>3 DEF CreateT1

\* A takeover is the effect of that name.
LEMMA TakenTakes ==
  ASSUME Retired, NEW w \in Workers, NEW ids, NEW p, TakeOver(w, ids, p), row.op.kind # "none",
         wk[w].pc \in {"start", "lost", "t1", "cancelT1"},
         p \in {"look", "judge", "calendar", "reconcile"}
  PROVE  Takes(w)
<1>1. Effects(w)
  BY TakeOverEffect, OthersStand DEF Retired
<1>2. row' = [row EXCEPT !.op = TakenOver] /\ row.op.gen \in Nat
  BY Known, OperationParts DEF TakeOver, Retired, Owned
<1>3. row'.op.gen = row.op.gen + 1 /\ row'.op.kind = row.op.kind /\ row'.op.id = row.op.id
  BY <1>2, Known DEF Retired, Owned, BookingRows, Operations, TakenOver
<1>4. ~Noted /\ row' # row
  <2>1. row'.op.gen # row.op.gen
    BY <1>2, <1>3
  <2> QED BY <2>1 DEF Noted, Alike
<1>5. row.status # "absent" /\ row'.op.kind # "none"
  BY <1>3, Known DEF Retired, Owned, RowShape, NoOp
<1>6. ~Creates(w) /\ ~Begins(w)
  BY <1>5 DEF Creates, Begins
<1> QED BY <1>1, <1>4, <1>6 DEF Effects, Completes, Clears, Replaces, Recognizes

LEMMA ReplayDeed ==
  ASSUME Retired, NEW w \in Workers, Replay(w), Outside, wk[w].pc \in {"start", "lost"}
  PROVE  Deed(w)
<1>1. CASE row.op.kind = "create" /\ TakeOver(w, {}, "look")
  BY <1>1, TakenTakes, TakeOverDeed
<1>2. CASE \E a \in Answers : End(w, a) /\ row' = row
  BY <1>2, EndHand, OutsidePosts DEF Deed, Books
<1> QED BY <1>1, <1>2 DEF Replay, Answers

LEMMA ReconcileT1Deed ==
  ASSUME Retired, NEW w \in Workers, ReconcileT1(w)
  PROVE  Deed(w)
<1>1. wk[w].pc = "lost" /\ route[w] = "create" /\ Outside
  BY Known DEF ReconcileT1, At, WorkerShape, RouteFits, Retired, Owned
<1>2. CASE End(w, "failed") /\ UNCHANGED row
  BY <1>1, <1>2, EndHand, OutsidePosts DEF Deed, Books
<1>3. CASE row.op.kind = "create" /\ Become(w, Created(w, row.op)) /\ UNCHANGED row
  BY <1>1, <1>3, CreatedHand, OutsidePosts DEF Deed, Books
<1>4. CASE Replay(w)
  BY <1>1, <1>4, ReplayDeed
<1> QED BY <1>2, <1>3, <1>4 DEF ReconcileT1

LEMMA ReapsHand ==
  ASSUME Retired, NEW w \in Workers, NEW next, NEW i,
         Become(w, [wk[w] EXCEPT !.rev = i, !.pc = "reap", !.todo = EligibleReapIds, !.then = next])
  PROVE  Handled(w)
<1> DEFINE r == [wk[w] EXCEPT !.rev = i, !.pc = "reap", !.todo = EligibleReapIds, !.then = next]
<1>1. /\ r.pc = "reap" /\ r.op = wk[w].op /\ r.n = wk[w].n /\ r.own = wk[w].own
      /\ r.seen = wk[w].seen /\ r.res = wk[w].res
  BY Known DEF Retired, Owned, WorkerStates
<1> HIDE DEF r
<1> QED BY <1>1, PlainHand DEF Plain, Places, Holding, r

LEMMA BeginReapHand ==
  ASSUME Retired, NEW w \in Workers, NEW next, BeginReap(w, next)
  PROVE  Handled(w)
BY SameRevision, ReapsHand DEF BeginReap, Retired

LEMMA NotifyDeed ==
  ASSUME Retired, NEW w \in Workers, NotifyRecovers(w) \/ NotifyRepairs(w) \/ Read(w)
  PROVE  Deed(w)
<1>1. wk[w].pc = "start" /\ route[w] \in {"notify", "read"} /\ Outside
  BY DEF NotifyRecovers, NotifyRepairs, Read, At
<1>2. CASE row.op.kind \in {"create", "calendar_repair"} /\ TakeOver(w, {}, "look")
  <2>1. Takes(w)
    BY <1>1, <1>2, TakenTakes
  <2> QED BY <1>1, <1>2, <2>1, TakeOverDeed
<1>3. CASE \E a \in Answers : End(w, a) /\ row' = row
  BY <1>1, <1>3, EndHand, OutsidePosts DEF Deed, Books
<1>4. CASE BeginReap(w, "ok") /\ row' = row
  BY <1>1, <1>4, BeginReapHand, OutsidePosts DEF Deed, Books
<1>5. CASE /\ row.status = "confirmed" /\ row.op.kind = "none" /\ NotifyRepairs(w)
           /\ row' = [row EXCEPT !.op = [BeginOp("calendar_repair", w) EXCEPT !.event = row.gid]]
           /\ Become(w, [wk[w] EXCEPT !.pass = 1, !.pc = "look", !.op = row'.op, !.start = row.start])
  <2> DEFINE o == row'.op
             r == [wk[w] EXCEPT !.pass = 1, !.pc = "look", !.op = o, !.start = row.start]
  <2>1. o.kind = "calendar_repair"
    BY <1>5, Known DEF Retired, Owned, BookingRows, BeginOp, NoOp
  <2>2. Become(w, r)
    BY <1>5
  <2>3. o = row'.op
    OBVIOUS
  <2> HIDE DEF o
  <2>4. r.pc = "look" /\ r.op = o /\ r.n = wk[w].n /\ r.own = wk[w].own
    BY Known DEF Retired, Owned, WorkerStates
  <2> HIDE DEF r
  <2>5. Hand(w, r) /\ Aims(r)
    BY <2>1, <2>3, <2>4 DEF Hand, Aims, Holding, Reconciling
  <2>6. Handled(w) /\ wk'[w] = r
    BY <2>2, <2>5, HandledBy, BecomeIs DEF Retired, Owned
  <2>7. Begins(w)
    <3>1. Effects(w)
      BY NotifyEffect, OthersStand DEF Retired
    <3>2. ~Noted /\ row' # row
      BY <1>5, <2>1, <2>3 DEF Noted, Alike
    <3> QED BY <1>1, <1>5, <3>1, <3>2 DEF Effects, Takes, Completes, Clears, Creates, Replaces, Recognizes
  <2> QED BY <1>1, <2>6, <2>7, OutsidePosts DEF Deed, Books
<1> QED BY <1>2, <1>3, <1>4, <1>5 DEF NotifyRecovers, NotifyRepairs, Read, Answers
-----------------------------------------------------------------------------
LEMMA RescheduleStartDeed ==
  ASSUME Retired, NEW w \in Workers, RescheduleStart(w) \/ RescheduleRefused(w)
  PROVE  Deed(w)
<1>1. route[w] = "reschedule" /\ wk[w].pc \in {"start", "t1"} /\ row' = row /\ Outside
  BY DEF RescheduleStart, RescheduleRefused, At
<1>2. CASE \E a \in {"changed", "in_progress"} : End(w, a)
  BY <1>1, <1>2, EndHand, OutsidePosts DEF Deed, Books
<1>3. CASE RescheduleStart(w)
  <2> DEFINE i == IF wk[w].pass = 0 THEN row.rev ELSE wk[w].rev
             known == [wk[w] EXCEPT !.rev = i]
  <2>1. \/ Become(w, [wk[w] EXCEPT !.rev = i, !.pc = "reap", !.todo = EligibleReapIds, !.then = "t1"])
        \/ Become(w, [wk[w] EXCEPT !.rev = i, !.pc = "t1"])
    BY <1>3, Known DEF RescheduleStart, Retired, Owned, WorkerStates
  <2>2. CASE Become(w, [wk[w] EXCEPT !.rev = i, !.pc = "t1"])
    <3> DEFINE r == [wk[w] EXCEPT !.rev = i, !.pc = "t1"]
    <3>1. /\ r.pc = "t1" /\ r.op = wk[w].op /\ r.n = wk[w].n /\ r.own = wk[w].own
          /\ r.seen = wk[w].seen /\ r.res = wk[w].res
      BY Known DEF Retired, Owned, WorkerStates
    <3>2. Become(w, r)
      BY <2>2
    <3> HIDE DEF r
    <3> QED BY <1>1, <3>1, <3>2, PlainHand, OutsidePosts DEF Deed, Books, Plain, Places, Holding
  <2> QED BY <1>1, <2>1, <2>2, ReapsHand, OutsidePosts DEF Deed, Books
<1> QED BY <1>2, <1>3 DEF RescheduleRefused

LEMMA RescheduleTakesOverDeed ==
  ASSUME Retired, NEW w \in Workers, RescheduleTakesOver(w)
  PROVE  Deed(w)
<1>1. wk[w].pc = "t1" /\ Outside
  BY DEF RescheduleTakesOver, At
<1>2. CASE row.op.kind \in {"create", "calendar_repair"} /\ TakeOver(w, {}, "look")
  <2>1. Takes(w)
    BY <1>1, <1>2, TakenTakes
  <2> QED BY <1>1, <1>2, <2>1, TakeOverDeed
<1>3. CASE row.op.kind = "reschedule" /\ TakeOver(w, {row.op.old}, "judge")
  <2>1. Takes(w)
    BY <1>1, <1>3, TakenTakes
  <2>2. {row.op.old} \subseteq Near(row.op) /\ row.op.event = None
    BY <1>3 DEF Near, Retired, IdRules
  <2> QED BY <1>1, <1>3, <2>1, <2>2, TakeOverDeed
<1> QED BY <1>2, <1>3 DEF RescheduleTakesOver

LEMMA RescheduleT1Deed ==
  ASSUME Retired, NEW w \in Workers, RescheduleT1(w)
  PROVE  Deed(w)
<1> DEFINE o == [BeginOp("reschedule", w) EXCEPT !.start = Target[w], !.old = row.gid,
                                                 !.etag = row.etag, !.fallback = w]
           p == IF row.etag = None THEN "observe" ELSE "patch"
           r == [wk[w] EXCEPT !.op = o, !.start = row.start, !.tag = row.etag, !.tries = 0, !.pc = p]
<1>1. wk[w].pc = "t1" /\ row.op.kind = "none" /\ Outside /\ row' = [row EXCEPT !.op = o, !.reserved = Target[w]]
  BY DEF RescheduleT1, At
<1>2. Become(w, r)
  BY DEF RescheduleT1
<1>3. o.kind = "reschedule" /\ o.event = None
  BY DEF BeginOp, NoOp
<1>4. row'.op = o
  BY <1>1, Known DEF Retired, Owned, BookingRows
<1> HIDE DEF o
<1>5. p \in {"observe", "patch"}
  OBVIOUS
<1> HIDE DEF p
<1>6. /\ r.pc = p /\ r.op = o /\ r.n = wk[w].n /\ r.own = wk[w].own
      /\ r.seen = wk[w].seen /\ r.res = wk[w].res
  BY Known DEF Retired, Owned, WorkerStates
<1> HIDE DEF r
<1>7. r.seen = None /\ r.res = None
  <2>1. wk[w].op.kind = "none"
    BY <1>1, Known DEF Retired, Owned, WorkerShape, KindFits
  <2> QED BY <1>6, <2>1 DEF Retired, AllAim, Aims
<1>8. Hand(w, r) /\ Aims(r)
  BY <1>3, <1>4, <1>5, <1>6, <1>7 DEF Hand, Aims, Holding, Reconciling
<1>9. Begins(w)
  <2>1. Effects(w)
    BY RescheduleT1Effect, OthersStand DEF Retired
  <2>2. ~Noted /\ row' # row
    BY <1>1, <1>3, <1>4 DEF Noted, Alike
  <2> QED BY <1>1, <2>1, <2>2 DEF Effects, Takes, Completes, Clears, Creates, Replaces, Recognizes
<1> QED BY <1>1, <1>2, <1>8, <1>9, HandledBy, OutsidePosts DEF Deed, Books

\* A reschedule that has found its event.
LEMMA FoundHand ==
  ASSUME Retired, NEW w \in Workers, NEW res, wk[w].op.kind = "reschedule",
         res = None \/ res.ev \in Near(wk[w].op), NEW p \in {"t2", "clear"},
         Become(w, [wk[w] EXCEPT !.res = res, !.pc = p])
  PROVE  Handled(w)
<1> DEFINE r == [wk[w] EXCEPT !.res = res, !.pc = p]
<1>1. /\ r.pc = p /\ r.op = wk[w].op /\ r.n = wk[w].n /\ r.own = wk[w].own
      /\ r.seen = wk[w].seen /\ r.res = res
  BY Known DEF Retired, Owned, WorkerStates
<1>2. Become(w, r)
  OBVIOUS
<1> HIDE DEF r
<1> QED BY <1>1, <1>2, PlainHand DEF Plain, Places, Holding

LEMMA PatchingHand ==
  ASSUME Retired, NEW w \in Workers, NEW v, NEW i,
         Become(w, [wk[w] EXCEPT !.pc = "patch", !.tag = v, !.tries = i])
  PROVE  Handled(w)
<1> DEFINE r == [wk[w] EXCEPT !.pc = "patch", !.tag = v, !.tries = i]
<1>1. /\ r.pc = "patch" /\ r.op = wk[w].op /\ r.n = wk[w].n /\ r.own = wk[w].own
      /\ r.seen = wk[w].seen /\ r.res = wk[w].res
  BY Known DEF Retired, Owned, WorkerStates
<1>2. Become(w, r)
  OBVIOUS
<1> HIDE DEF r
<1> QED BY <1>1, <1>2, PlainHand DEF Plain, Places, Holding

LEMMA ObserveDeed ==
  ASSUME Retired, NEW w \in Workers, Observe(w)
  PROVE  Deed(w)
<1>1. row' = row /\ Outside
  BY DEF Observe
<1>2. CASE \E p \in {"fallback", "superseded"} : Goto(w, p)
  BY <1>1, <1>2, GotoHand, OutsidePosts DEF Deed, Books, Plain, Places, Holding
<1>3. CASE Become(w, [wk[w] EXCEPT !.pc = "patch", !.tag = cal[OpOf(w).old].ver])
  <2>1. Become(w, [wk[w] EXCEPT !.pc = "patch", !.tag = cal[OpOf(w).old].ver, !.tries = wk[w].tries])
    BY <1>3, Known DEF Retired, Owned, WorkerStates
  <2> QED BY <1>1, <2>1, PatchingHand, OutsidePosts DEF Deed, Books
<1> QED BY <1>2, <1>3 DEF Observe

LEMMA PatchDeed ==
  ASSUME Retired, NEW w \in Workers, Patch(w)
  PROVE  Deed(w)
<1>1. wk[w].pc = "patch" /\ row' = row
  BY DEF Patch, At
<1>2. wk[w].op.kind = "reschedule" /\ wk[w].op.old \in Ids
  BY <1>1, Known DEF Retired, Owned, WorkerShape, KindFits, OpShape
<1>3. PICK o \in {"applied", "stale", "gone", "refused", "timeout"} :
        /\ Ask(PatchReq(OpOf(w).old, OpOf(w).start, wk[w].tag), o)
        /\ CASE o = "applied" ->
               Become(w, [wk[w] EXCEPT !.pc = "t2",
                 !.res = [ev |-> OpOf(w).old, tag |-> cal'[OpOf(w).old].ver]])
            [] o = "timeout" -> End(w, "unknown")
            [] o = "stale" /\ wk[w].tries = 0 -> Goto(w, "reobserve")
            [] o = "gone" /\ wk[w].tries = 0 -> Goto(w, "fallback")
            [] OTHER -> Goto(w, "clear")
  BY DEF Patch
<1>4. Posts(w)
  <2> DEFINE q == PatchReq(OpOf(w).old, OpOf(w).start, wk[w].tag)
  <2>1. q.kind # "insert" /\ q.ev \in Ids
    BY <1>2 DEF PatchReq, OpOf
  <2>2. Typed /\ Ask(q, o)
    BY <1>3 DEF Retired, Owned
  <2> HIDE DEF q
  <2> QED BY <2>1, <2>2, AskPosts
<1>5. \/ \E p \in {"reobserve", "fallback", "clear"} : Goto(w, p)
      \/ End(w, "unknown")
      \/ Become(w, [wk[w] EXCEPT !.pc = "t2",
           !.res = [ev |-> OpOf(w).old, tag |-> cal'[OpOf(w).old].ver]])
  BY ONLY <1>3
<1>6. CASE \E p \in {"reobserve", "fallback", "clear"} : Goto(w, p)
  BY <1>1, <1>4, <1>6, GotoHand DEF Deed, Books, Plain, Places, Holding
<1>7. CASE End(w, "unknown")
  BY <1>1, <1>4, <1>7, EndHand DEF Deed, Books
<1>8. ASSUME NEW v, Become(w, [wk[w] EXCEPT !.pc = "t2", !.res = [ev |-> OpOf(w).old, tag |-> v]])
      PROVE  Deed(w)
  <2> DEFINE res == [ev |-> OpOf(w).old, tag |-> v]
  <2>1. res.ev \in Near(wk[w].op)
    BY DEF Near, OpOf
  <2>2. Become(w, [wk[w] EXCEPT !.res = res, !.pc = "t2"])
    BY <1>8, Known DEF Retired, Owned, WorkerStates
  <2> HIDE DEF res
  <2> QED BY <1>1, <1>2, <1>4, <2>1, <2>2, FoundHand DEF Deed, Books
<1> QED BY <1>5, <1>6, <1>7, <1>8

LEMMA ReobserveDeed ==
  ASSUME Retired, NEW w \in Workers, Reobserve(w)
  PROVE  Deed(w)
<1>1. wk[w].pc = "reobserve" /\ row' = row /\ Outside
  BY DEF Reobserve, At
<1>2. wk[w].op.kind = "reschedule"
  BY <1>1, Known DEF Retired, Owned, WorkerShape, KindFits
<1>3. CASE Goto(w, "clear")
  BY <1>1, <1>3, GotoHand, OutsidePosts DEF Deed, Books, Plain, Places, Holding
<1>4. CASE End(w, "superseded")
  BY <1>1, <1>4, EndHand, OutsidePosts DEF Deed, Books
<1>5. CASE Become(w, [wk[w] EXCEPT !.pc = "t2", !.res = Seen(OpOf(w).old)])
  <2> DEFINE res == Seen(OpOf(w).old)
  <2>1. res.ev \in Near(wk[w].op)
    BY DEF Seen, Near, OpOf
  <2>2. Become(w, [wk[w] EXCEPT !.res = res, !.pc = "t2"])
    BY <1>5, Known DEF Retired, Owned, WorkerStates
  <2> HIDE DEF res
  <2> QED BY <1>1, <1>2, <2>1, <2>2, FoundHand, OutsidePosts DEF Deed, Books
<1>6. CASE Become(w, [wk[w] EXCEPT !.pc = "patch", !.tag = cal[OpOf(w).old].ver, !.tries = 1])
  BY <1>1, <1>6, PatchingHand, OutsidePosts DEF Deed, Books
<1> QED BY <1>3, <1>4, <1>5, <1>6 DEF Reobserve

LEMMA InsertFallbackDeed ==
  ASSUME Retired, NEW w \in Workers, InsertFallback(w)
  PROVE  Deed(w)
<1>1. wk[w].pc = "fallback" /\ Outside
  BY DEF InsertFallback, At
<1>2. wk[w].op.kind = "reschedule" /\ wk[w].op.fallback \in Ids
  BY <1>1, Known DEF Retired, Owned, WorkerShape, KindFits, OpShape
<1>3. CASE Owns(w) /\ AppendInsert(w, OpOf(w).fallback)
  BY <1>1, <1>2, <1>3, AppendDeed DEF OpOf, Touched
<1>4. CASE Goto(w, "superseded") /\ row' = row
  BY <1>1, <1>4, GotoHand, OutsidePosts DEF Deed, Books, Plain, Places, Holding
<1> QED BY <1>3, <1>4 DEF InsertFallback

LEMMA JudgeDeed ==
  ASSUME Retired, NEW w \in Workers, Judge(w)
  PROVE  Deed(w)
<1>1. wk[w].pc = "judge" /\ row' = row /\ Outside
  BY DEF Judge, At
<1>2. wk[w].op.kind = "reschedule"
  BY <1>1, Known DEF Retired, Owned, WorkerShape, KindFits
<1> DEFINE o == OpOf(w)
           moved == IF MovedAway(o) THEN Seen(o.old) ELSE None
<1>3. moved = None \/ moved.ev \in Near(wk[w].op)
  BY DEF Seen, Near, OpOf
<1>4. \/ Become(w, [wk[w] EXCEPT !.res = moved, !.pc = "bump", !.todo = {o.fallback}, !.then = "judged"])
      \/ Become(w, [wk[w] EXCEPT !.res = moved, !.pc = IF moved = None THEN "clear" ELSE "t2"])
  BY DEF Judge
<1> HIDE DEF moved
<1>5. CASE Become(w, [wk[w] EXCEPT !.res = moved, !.pc = "bump", !.todo = {o.fallback}, !.then = "judged"])
  <2> DEFINE r == [wk[w] EXCEPT !.res = moved, !.pc = "bump", !.todo = {o.fallback}, !.then = "judged"]
  <2>1. /\ r.pc = "bump" /\ r.op = wk[w].op /\ r.n = wk[w].n /\ r.own = wk[w].own
        /\ r.seen = wk[w].seen /\ r.res = moved /\ r.todo = {wk[w].op.fallback} /\ r.then = "judged"
    BY Known DEF Retired, Owned, WorkerStates, OpOf
  <2>2. Become(w, r)
    BY <1>5
  <2> HIDE DEF r
  <2>3. Hand(w, r)
    BY <1>1, <2>1 DEF Hand, Reconciling, Holding
  <2>4. Aims(r)
    BY <1>2, <1>3, <2>1 DEF Aims, Retired, AllAim, Near
  <2> QED BY <1>1, <2>2, <2>3, <2>4, HandledBy, OutsidePosts DEF Deed, Books
<1>6. CASE Become(w, [wk[w] EXCEPT !.res = moved, !.pc = IF moved = None THEN "clear" ELSE "t2"])
  BY <1>1, <1>2, <1>3, <1>6, FoundHand, OutsidePosts DEF Deed, Books
<1> QED BY <1>4, <1>5, <1>6

LEMMA JudgedDeed ==
  ASSUME Retired, NEW w \in Workers, Judged(w)
  PROVE  Deed(w)
<1>1. wk[w].pc = "judged" /\ row' = row /\ Outside
  BY DEF Judged, At
<1>2. wk[w].op.kind = "reschedule"
  BY <1>1, Known DEF Retired, Owned, WorkerShape, KindFits
<1> DEFINE res == IF wk[w].seen # None THEN wk[w].seen ELSE wk[w].res
<1>3. res = None \/ res.ev \in Near(wk[w].op)
  BY <1>2 DEF Retired, AllAim, Aims
<1>4. Become(w, [wk[w] EXCEPT !.res = res, !.pc = IF res = None THEN "clear" ELSE "t2"])
  BY DEF Judged
<1> HIDE DEF res
<1> QED BY <1>1, <1>2, <1>3, <1>4, FoundHand, OutsidePosts DEF Deed, Books
-----------------------------------------------------------------------------
LEMMA CancelStartDeed ==
  ASSUME Retired, NEW w \in Workers, CancelStart(w) \/ CancelRefused(w)
  PROVE  Deed(w)
<1>1. wk[w].pc \in {"start", "cancelT1"} /\ row' = row /\ Outside
  BY DEF CancelStart, CancelRefused, At
<1>2. CASE \E a \in {"changed", "in_progress"} : End(w, a)
  BY <1>1, <1>2, EndHand, OutsidePosts DEF Deed, Books
<1>3. CASE BeginReap(w, "cancelled")
  BY <1>1, <1>3, BeginReapHand, OutsidePosts DEF Deed, Books
<1>4. ASSUME NEW i, Become(w, [wk[w] EXCEPT !.pc = "cancelT1", !.rev = i])
      PROVE  Deed(w)
  <2> DEFINE r == [wk[w] EXCEPT !.pc = "cancelT1", !.rev = i]
  <2>1. /\ r.pc = "cancelT1" /\ r.op = wk[w].op /\ r.n = wk[w].n /\ r.own = wk[w].own
        /\ r.seen = wk[w].seen /\ r.res = wk[w].res
    BY Known DEF Retired, Owned, WorkerStates
  <2>2. Become(w, r)
    BY <1>4
  <2> HIDE DEF r
  <2> QED BY <1>1, <2>1, <2>2, PlainHand, OutsidePosts DEF Deed, Books, Plain, Places, Holding
<1> QED BY <1>2, <1>3, <1>4 DEF CancelStart, CancelRefused

LEMMA CancelT1Deed ==
  ASSUME Retired, NEW w \in Workers, CancelT1(w)
  PROVE  Deed(w)
<1> DEFINE o == CancelOp(w)
           r == [wk[w] EXCEPT !.op = o, !.pc = "calendar"]
<1>1. wk[w].pc = "cancelT1" /\ row.status = "confirmed" /\ row.op.kind = "none" /\ Outside
      /\ row' = [row EXCEPT !.op = o] /\ Become(w, r)
  BY DEF CancelT1, At, CancelChanged
<1>2. o.kind = "cancel"
  BY <1>1, CancelOpIs DEF Retired
<1> HIDE DEF o
<1>3. row'.op = o
  BY <1>1, Known DEF Retired, Owned, BookingRows
<1>4. r.pc = "calendar" /\ r.op = o /\ r.n = wk[w].n /\ r.own = wk[w].own
  BY Known DEF Retired, Owned, WorkerStates
<1> HIDE DEF r
<1>5. Hand(w, r) /\ Aims(r)
  BY <1>2, <1>3, <1>4 DEF Hand, Aims, Holding, Reconciling
<1>6. Begins(w)
  <2>1. Effects(w)
    BY CancelT1Effect, OthersStand DEF Retired
  <2>2. ~Noted /\ row' # row
    BY <1>1, <1>2, <1>3 DEF Noted, Alike
  <2> QED BY <1>1, <2>1, <2>2 DEF Effects, Takes, Completes, Clears, Creates, Replaces, Recognizes
<1> QED BY <1>1, <1>5, <1>6, HandledBy, OutsidePosts DEF Deed, Books

LEMMA CancelTakesOverDeed ==
  ASSUME Retired, NEW w \in Workers, CancelTakesOver(w)
  PROVE  Deed(w)
<1>1. wk[w].pc = "cancelT1" /\ Outside
  BY DEF CancelTakesOver, At
<1>2. row.op.kind # "none"
  BY Known DEF CancelTakesOver, Retired, Owned, RowShape, OpShape, NoOp
<1> DEFINE o == row.op
           ids == IF o.old = None THEN IntendedIds(o) \cup {row.gid} ELSE IntendedIds(o)
           p == IF o.kind = "cancel" THEN "calendar" ELSE "reconcile"
<1>3. TakeOver(w, ids, p) /\ p \in {"calendar", "reconcile"}
  BY DEF CancelTakesOver
<1>4. row.op.kind = "reschedule" => ids \subseteq Near(row.op) /\ row.op.event = None
  <2>1. row.op.kind = "reschedule" => row.op.old \in Ids /\ row.op.event = None
    BY Known DEF Retired, Owned, RowShape, OpShape, IdRules
  <2>2. None \notin Ids
    BY NoneIsNoValue
  <2> QED BY <2>1, <2>2 DEF IntendedIds, Near
<1> HIDE DEF ids, p
<1>5. Takes(w)
  BY <1>1, <1>2, <1>3, TakenTakes
<1> QED BY <1>1, <1>3, <1>4, <1>5, TakeOverDeed

LEMMA ReconcileDeed ==
  ASSUME Retired, NEW w \in Workers, Reconcile(w)
  PROVE  Deed(w)
<1>1. wk[w].pc = "reconcile" /\ row' = row /\ Outside
  BY DEF Reconcile, At
<1>2. CASE Goto(w, "inherit")
  BY <1>1, <1>2, GotoHand, OutsidePosts DEF Deed, Books, Plain, Places, Holding
<1>3. ASSUME NEW p, Goto(w, p), p = "replace" \/ (p = "look" /\ wk[w].op.kind # "reschedule")
      PROVE  Deed(w)
  <2> DEFINE r == [wk[w] EXCEPT !.pc = p]
  <2>1. /\ r.pc = p /\ r.op = wk[w].op /\ r.n = wk[w].n /\ r.own = wk[w].own
        /\ r.seen = wk[w].seen /\ r.res = wk[w].res
    BY Known DEF Retired, Owned, WorkerStates
  <2>2. Become(w, r)
    BY <1>3 DEF Goto
  <2> HIDE DEF r
  <2>3. Hand(w, r) /\ Aims(r)
    BY <1>1, <1>3, <2>1 DEF Hand, Aims, Retired, AllAim, Reconciling, Holding
  <2> QED BY <1>1, <2>2, <2>3, HandledBy, OutsidePosts DEF Deed, Books
<1> QED BY <1>2, <1>3 DEF Reconcile, OpOf

LEMMA InheritDeed ==
  ASSUME Retired, NEW w \in Workers, Inherit(w)
  PROVE  Deed(w)
<1>1. wk[w].pc = "inherit" /\ row' = row /\ Outside
  BY DEF Inherit, At
<1>2. wk[w].op.kind = "reschedule" /\ route[w] = "cancel"
  BY <1>1, Known DEF Retired, Owned, WorkerShape, KindFits, RouteFits
<1>3. CASE Restart(w, wk[w].rev + 1)
  BY <1>1, <1>2, <1>3, RestartHand, OutsidePosts DEF Deed, Books
<1>4. ASSUME NEW e \in Near(wk[w].op), Become(w, [wk[w] EXCEPT !.pc = "t2", !.res = Seen(e)])
      PROVE  Deed(w)
  <2> DEFINE res == Seen(e)
  <2>1. res.ev \in Near(wk[w].op)
    BY DEF Seen
  <2>2. Become(w, [wk[w] EXCEPT !.res = res, !.pc = "t2"])
    BY <1>4, Known DEF Retired, Owned, WorkerStates
  <2> HIDE DEF res
  <2> QED BY <1>1, <1>2, <2>1, <2>2, FoundHand, OutsidePosts DEF Deed, Books
<1> QED BY <1>3, <1>4 DEF Inherit, OpOf, Near

LEMMA ReplaceDeed ==
  ASSUME Retired, NEW w \in Workers, Replace(w)
  PROVE  Deed(w)
<1>1. wk[w].pc = "replace" /\ Outside
  BY DEF Replace, At
<1>2. CASE End(w, "in_progress") /\ row' = row
  BY <1>1, <1>2, EndHand, OutsidePosts DEF Deed, Books
<1>3. CASE /\ Owns(w) /\ ~CancelChanged(w)
           /\ row' = [row EXCEPT !.op = Replacement(w), !.unfinished = Carried(w),
                        !.reserved = IF OpOf(w).kind = "reschedule" THEN None ELSE @]
           /\ Become(w, [wk[w] EXCEPT !.op = Replacement(w), !.pc = "calendar"])
  <2> DEFINE o == Replacement(w)
             r == [wk[w] EXCEPT !.op = o, !.pc = "calendar"]
  <2>1. Become(w, r)
    BY <1>3
  <2>2. o.kind = "cancel"
    BY DEF Replacement, CancelOp, BeginOp, NoOp
  <2>3. row'.op = o
    BY <1>3, Known DEF Retired, Owned, BookingRows
  <2> HIDE DEF o
  <2>4. r.pc = "calendar" /\ r.op = o /\ r.n = wk[w].n /\ r.own = wk[w].own
    BY Known DEF Retired, Owned, WorkerStates
  <2> HIDE DEF r
  <2>5. Hand(w, r) /\ Aims(r)
    BY <2>2, <2>3, <2>4 DEF Hand, Aims, Holding, Reconciling
  <2>6. Handled(w) /\ wk'[w] = r
    BY <2>1, <2>5, HandledBy, BecomeIs DEF Retired, Owned
  <2>7. Holds(w)
    BY <1>1, <2>3, <2>4, <2>6 DEF Holds
  <2>8. Replaces(w)
    BY <1>1, <1>3, <2>7 DEF Replaces, CancelChanged
  <2> QED BY <1>1, <2>6, <2>8, OutsidePosts DEF Deed, Books
<1> QED BY <1>2, <1>3 DEF Replace

LEMMA RemovingDeed ==
  ASSUME Retired, NEW w \in Workers, CancelReaps(w) \/ ClearInherited(w) \/ RemoveLook(w) \/ LiveLook(w)
  PROVE  Deed(w)
<1>1. row' = row /\ Outside
  BY DEF CancelReaps, ClearInherited, RemoveLook, LiveLook
<1>2. CASE BeginReap(w, "inherited")
  BY <1>1, <1>2, BeginReapHand, OutsidePosts DEF Deed, Books
<1>3. ASSUME NEW d, Become(w, [wk[w] EXCEPT !.pc = "removing", !.todo = d])
      PROVE  Deed(w)
  <2> DEFINE r == [wk[w] EXCEPT !.pc = "removing", !.todo = d]
  <2>1. /\ r.pc = "removing" /\ r.op = wk[w].op /\ r.n = wk[w].n /\ r.own = wk[w].own
        /\ r.seen = wk[w].seen /\ r.res = wk[w].res
    BY Known DEF Retired, Owned, WorkerStates
  <2>2. Become(w, r)
    BY <1>3
  <2> HIDE DEF r
  <2> QED BY <1>1, <2>1, <2>2, PlainHand, OutsidePosts DEF Deed, Books, Plain, Places, Holding
<1>4. ASSUME NEW p \in {"remove", "delete"}, NEW e \in Ids, NEW d, NEW v,
             Become(w, [wk[w] EXCEPT !.todo = d, !.pc = p, !.at = e, !.tag = v, !.att = cal[e].att])
      PROVE  Deed(w)
  <2> DEFINE r == [wk[w] EXCEPT !.todo = d, !.pc = p, !.at = e, !.tag = v, !.att = cal[e].att]
  <2>1. /\ r.pc = p /\ r.op = wk[w].op /\ r.n = wk[w].n /\ r.own = wk[w].own
        /\ r.seen = wk[w].seen /\ r.res = wk[w].res /\ r.att = cal[e].att
    BY Known DEF Retired, Owned, WorkerStates
  <2>2. Become(w, r)
    BY <1>4
  <2> HIDE DEF r
  <2> QED BY <1>1, <1>4, <2>1, <2>2, HoldHand, OutsidePosts DEF Deed, Books, Holding
<1>5. CASE RemoveLook(w)
  <2>1. PICK e \in wk[w].todo :
          IF Live(e)
            THEN Become(w, [wk[w] EXCEPT !.todo = @ \ {e}, !.pc = "remove", !.at = e,
                                         !.tag = cal[e].ver, !.att = cal[e].att])
            ELSE Become(w, [wk[w] EXCEPT !.todo = @ \ {e}])
    BY <1>5 DEF RemoveLook
  <2>2. e \in Ids /\ wk[w].pc = "removing"
    BY <1>5, Known, WorkerParts DEF Retired, Owned, RemoveLook, At
  <2>3. CASE Live(e)
    BY <1>4, <2>1, <2>2, <2>3
  <2>4. CASE ~Live(e)
    <3>1. Become(w, [wk[w] EXCEPT !.pc = "removing", !.todo = wk[w].todo \ {e}])
      BY <2>1, <2>2, <2>4, Known DEF Retired, Owned, WorkerStates
    <3> QED BY <1>3, <3>1
  <2> QED BY <2>3, <2>4
<1>6. CASE LiveLook(w)
  <2>1. CASE \E p \in {"t2", "superseded"} : Goto(w, p)
    BY <1>1, <2>1, GotoHand, OutsidePosts DEF Deed, Books, Plain, Places, Holding
  <2>2. CASE /\ Live(OpOf(w).old)
             /\ Become(w, [wk[w] EXCEPT !.pc = "delete", !.at = OpOf(w).old,
                                        !.tag = cal[OpOf(w).old].ver, !.att = cal[OpOf(w).old].att])
    <3>1. OpOf(w).old \in Ids
      BY <2>2, Known, OperationParts DEF Retired, Owned, Live, OpOf
    <3>2. Become(w, [wk[w] EXCEPT !.todo = wk[w].todo, !.pc = "delete", !.at = OpOf(w).old,
                                  !.tag = cal[OpOf(w).old].ver, !.att = cal[OpOf(w).old].att])
      BY <2>2, Known DEF Retired, Owned, WorkerStates
    <3> QED BY <1>4, <3>1, <3>2
  <2> QED BY <1>6, <2>1, <2>2 DEF LiveLook
<1> QED BY <1>2, <1>3, <1>5, <1>6 DEF CancelReaps, ClearInherited

LEMMA RemoveDeed ==
  ASSUME Retired, NEW w \in Workers, Remove(w)
  PROVE  Deed(w)
<1>1. wk[w].pc \in {"remove", "delete"} /\ row' = row
  BY DEF Remove, At
<1>2. wk[w].at \in Ids
  BY <1>1, Known DEF Retired, Owned, WorkerShape, HandFits
<1>3. Posts(w)
  BY <1>2, DeletePosts DEF Remove
<1>4. End(w, "unknown") \/ \E p \in {"removed", "deleted", "clear"} : Goto(w, p)
  BY DEF Remove
<1> QED BY <1>1, <1>3, <1>4, EndHand, GotoHand, HoldGoto DEF Deed, Books, Plain, Places, Holding

LEMMA RemovedDeed ==
  ASSUME Retired, NEW w \in Workers, Removed(w)
  PROVE  Deed(w)
<1>1. Erased(w) /\ Outside
  BY DEF Removed, At, Erased
<1>2. \E p \in {"removing", "t2"} : Goto(w, p)
  BY DEF Removed
<1> QED BY <1>1, <1>2, GotoHand, OutsidePosts DEF Deed, Books, Plain, Places, Holding

LEMMA StepDeed ==
  ASSUME Retired, NEW w \in Workers, Step(w)
  PROVE  Deed(w)
<1>1. CASE SharedStep(w)
  BY <1>1, InsertDeed, FinishDeed, LookDeed, BumpDeed, BumpingDeed, ReapDeed, SweepDeed,
     SweepLookDeed, RetireDeed DEF SharedStep
<1>2. CASE EndingStep(w)
  BY <1>2, T2Deed, SettleDeed, RolledBackDeed, CompensateDeed, ClearDeed, SupersededDeed, SweptDeed
     DEF EndingStep
<1>3. CASE CreateFlowStep(w)
  BY <1>3, CreateT1Deed, ReplayDeed, ReconcileT1Deed, NotifyDeed DEF CreateFlowStep, CreateReplay, At
<1>4. CASE RescheduleFlowStep(w)
  BY <1>4, RescheduleStartDeed, RescheduleTakesOverDeed, RescheduleT1Deed, ObserveDeed, PatchDeed,
     ReobserveDeed, InsertFallbackDeed, JudgeDeed, JudgedDeed DEF RescheduleFlowStep
<1>5. CASE CancelFlowStep(w)
  BY <1>5, CancelStartDeed, CancelT1Deed, CancelTakesOverDeed, ReconcileDeed, InheritDeed,
     ReplaceDeed, RemovingDeed, RemoveDeed, RemovedDeed DEF CancelFlowStep
<1> QED BY <1>1, <1>2, <1>3, <1>4, <1>5 DEF Step
-----------------------------------------------------------------------------
\* The ids and the ledgers as each effect leaves them.
LEMMA NoOpTouches ==
  /\ NoOp.event = None /\ NoOp.old = None /\ NoOp.fallback = None /\ NoOp.attempts = {}
  /\ Touched(NoOp) = {None}
BY DEF NoOp, Touched

LEMMA EnteredLedger ==
  ASSUME Retired, NEW w \in Workers, Entered(w)
  PROVE  /\ row'.gid = row.gid /\ row'.unresolved = row.unresolved /\ row'.unfinished = row.unfinished
         /\ row'.op.kind = row.op.kind /\ row'.op.event = row.op.event /\ row'.op.old = row.op.old
         /\ row'.op.fallback = row.op.fallback /\ row'.op.id = row.op.id /\ row'.op.gen = row.op.gen
         /\ \E e \in Touched(wk[w].op) :
              row'.op.attempts = row.op.attempts \cup {Attempt(<<w, wk[w].n + 1>>, e)}
BY Known DEF Entered, Retired, Owned, BookingRows, Operations

LEMMA SettledLedger ==
  ASSUME Retired, NEW w \in Workers, Settled(w)
  PROVE  /\ row'.gid = row.gid /\ row'.unresolved = row.unresolved /\ row'.unfinished = row.unfinished
         /\ row'.op.kind = row.op.kind /\ row'.op.event = row.op.event /\ row'.op.old = row.op.old
         /\ row'.op.fallback = row.op.fallback /\ row'.op.id = row.op.id /\ row'.op.gen = row.op.gen
         /\ \A x \in row'.op.attempts : \E y \in row.op.attempts :
              x.att = y.att /\ x.ev = y.ev /\ (y.att # wk[w].att => x = y)
         /\ \A y \in row.op.attempts : \E x \in row'.op.attempts :
              x.att = y.att /\ x.ev = y.ev /\ (y.att # wk[w].att => x = y)
<1> DEFINE old == row.op.attempts
           new(out) == {IF x.att = wk[w].att /\ x.out = "unresolved" THEN [x EXCEPT !.out = out] ELSE x
                          : x \in old}
<1>1. row \in BookingRows /\ row.op \in Operations /\ old \in Ledger
  BY Known, OperationParts DEF Retired, Owned
<1>2. PICK out \in {"applied", "rejected"} : row' = row \/ row' = [row EXCEPT !.op.attempts = new(out)]
  BY DEF Settled, Resolved
<1>3. \A x \in old : [x EXCEPT !.out = out].att = x.att /\ [x EXCEPT !.out = out].ev = x.ev
  BY <1>1 DEF Ledger
<1>4. /\ \A x \in new(out) : \E y \in old :
           x.att = y.att /\ x.ev = y.ev /\ (y.att # wk[w].att => x = y)
      /\ \A y \in old : \E x \in new(out) :
           x.att = y.att /\ x.ev = y.ev /\ (y.att # wk[w].att => x = y)
  <2> DEFINE is(x, y) == x.att = y.att /\ x.ev = y.ev /\ (y.att # wk[w].att => x = y)
             to(x) == IF x.att = wk[w].att /\ x.out = "unresolved" THEN [x EXCEPT !.out = out] ELSE x
  <2>1. \A y \in old : is(to(y), y)
    BY <1>3
  <2> HIDE DEF is, to
  <2>2. new(out) = {to(x) : x \in old}
    BY DEF to
  <2> HIDE DEF new
  <2>3. /\ \A x \in new(out) : \E y \in old : is(x, y)
        /\ \A y \in old : \E x \in new(out) : is(x, y)
    BY <2>1, <2>2
  <2> QED BY <2>3 DEF is
<1>5. \A y \in old : y.att = y.att /\ y.ev = y.ev /\ (y.att # wk[w].att => y = y)
  OBVIOUS
<1> HIDE DEF new
<1>6. CASE row' = row
  BY <1>5, <1>6
<1>7. CASE row' = [row EXCEPT !.op.attempts = new(out)]
  <2>1. /\ row'.gid = row.gid /\ row'.unresolved = row.unresolved /\ row'.unfinished = row.unfinished
        /\ row'.op.kind = row.op.kind /\ row'.op.event = row.op.event /\ row'.op.old = row.op.old
        /\ row'.op.fallback = row.op.fallback /\ row'.op.id = row.op.id /\ row'.op.gen = row.op.gen
        /\ row'.op.attempts = new(out)
    BY <1>1, <1>7 DEF BookingRows, Operations
  <2> QED BY <1>4, <2>1
<1> QED BY <1>2, <1>6, <1>7

LEMMA ErasedLedger ==
  ASSUME Retired, NEW w \in Workers, Erased(w)
  PROVE  /\ row'.gid = row.gid /\ row'.unfinished = row.unfinished /\ row'.op = row.op
         /\ row'.unresolved = {u \in row.unresolved : u.att # wk[w].att}
BY Known DEF Erased, RetireAttempt, Retired, Owned, BookingRows

LEMMA TakenLedger ==
  ASSUME Retired, NEW w \in Workers, Takes(w)
  PROVE  /\ row'.gid = row.gid /\ row'.unresolved = row.unresolved /\ row'.unfinished = row.unfinished
         /\ row'.op.kind = row.op.kind /\ row'.op.event = row.op.event /\ row'.op.old = row.op.old
         /\ row'.op.fallback = row.op.fallback /\ row'.op.attempts = row.op.attempts
BY Known DEF Takes, TakenOver, Retired, Owned, BookingRows, Operations

LEMMA CompletedLedger ==
  ASSUME Retired, NEW w \in Workers, Completes(w)
  PROVE  /\ row'.op = NoOp /\ row'.unfinished = None /\ row'.unresolved = Retained
         /\ row'.gid = IF wk[w].op.kind = "reschedule" THEN wk[w].res.ev ELSE row.gid
         /\ Alike(wk[w].op, row.op)
<1>1. wk[w].op.kind \in {"create", "reschedule", "cancel", "calendar_repair"} /\ Typed /\ Owned
  BY Known, OperationParts DEF Completes, WorkerShape, KindFits, Retired, Owned
<1>2. Alike(wk[w].op, row.op)
  BY <1>1, OwnerAlike DEF Completes
<1>3. row'.op = NoOp /\ row'.unfinished = None
  BY <1>1, CompletedColumns DEF Completes
<1>4. row'.unresolved = Retained /\ row'.gid = IF wk[w].op.kind = "reschedule" THEN wk[w].res.ev ELSE row.gid
  BY <1>1, EndedTyped, EndedParts
     DEF Completes, Completed, CompletedCreate, CompletedRepair, CompletedReschedule, CompletedCancel,
         OpOf, BookingRows
<1> QED BY <1>2, <1>3, <1>4

LEMMA ClearedLedger ==
  ASSUME Retired, NEW w \in Workers, Clears(w)
  PROVE  /\ row'.gid = row.gid /\ row'.unfinished = row.unfinished /\ row'.unresolved = Retained
         /\ \/ row'.op = NoOp /\ row.unfinished = None
            \/ row'.op = RestoredCreate /\ row.unfinished # None
<1>1. wk[w].op.kind \in {"calendar_repair", "reschedule", "cancel"} /\ Typed /\ Ended \in BookingRows
  BY Known, EndedTyped DEF Clears, WorkerShape, KindFits, Retired, Owned
<1>2. \/ row'.op = NoOp /\ row.unfinished = None
      \/ row.unfinished # None /\ row'.op.kind = "create"
  BY ClearedColumns DEF Clears, Retired
<1>3. /\ row'.gid = row.gid /\ row'.unfinished = row.unfinished /\ row'.unresolved = Retained
      /\ row'.op \in {NoOp, RestoredCreate}
  BY <1>1, EndedParts DEF Clears, Cleared, OpOf, BookingRows
<1>4. row.unfinished # None => row'.op = RestoredCreate
  BY <1>2, <1>3, NoOpIs
<1> QED BY <1>2, <1>3, <1>4

LEMMA ReplacedLedger ==
  ASSUME Retired, NEW w \in Workers, Replaces(w)
  PROVE  /\ row'.gid = row.gid /\ row'.unresolved = row.unresolved
         /\ row'.op.event = row.op.event /\ row'.op.fallback = row.op.fallback
         /\ row'.op.old = row.gid /\ row'.op.kind = "cancel" /\ row'.op.attempts = wk[w].op.attempts
         /\ Alike(wk[w].op, row.op)
         /\ \/ row'.unfinished = row.unfinished
            \/ /\ row'.unfinished.ev = row.op.event /\ row.op.kind = "create"
               /\ row'.unfinished.attempts = wk[w].op.attempts
<1>1. Alike(wk[w].op, row.op)
  BY ReplacedColumns DEF Retired
<1>2. /\ Replacement(w).event = wk[w].op.event /\ Replacement(w).fallback = wk[w].op.fallback
      /\ Replacement(w).old = row.gid /\ Replacement(w).kind = "cancel"
      /\ Replacement(w).attempts = wk[w].op.attempts
  BY DEF Replacement, CancelOp, BeginOp, NoOp, OpOf
<1>3. /\ row'.op = Replacement(w) /\ row'.unfinished = Carried(w)
      /\ row'.gid = row.gid /\ row'.unresolved = row.unresolved
  BY Known DEF Replaces, Retired, Owned, BookingRows
<1>4. \/ Carried(w) = row.unfinished
      \/ /\ Carried(w).ev = wk[w].op.event /\ wk[w].op.kind = "create"
         /\ Carried(w).attempts = wk[w].op.attempts
  BY DEF Carried, OpOf
<1> QED BY <1>1, <1>2, <1>3, <1>4 DEF Alike

LEMMA CreatedLedger ==
  ASSUME Retired, NEW w \in Workers, Creates(w)
  PROVE  /\ row'.gid = w /\ row'.unresolved = {} /\ row'.unfinished = None
         /\ row'.op.kind = "create" /\ row'.op.event = w /\ row'.op.old = None /\ row'.op.fallback = None
         /\ row'.op.attempts = {Attempt(<<w, 1>>, w)}
         /\ row.unresolved = {} /\ row.status = "absent"
<1>1. row.unresolved = {}
  BY Known DEF Creates, Retired, Owned, RowShape
<1> QED BY <1>1 DEF Creates, FreshRow, BeginOp, NoOp

LEMMA RetainedTouches ==
  ASSUME NEW u \in Retained
  PROVE  u \in row.unresolved \/ \E x \in row.op.attempts : u = [att |-> x.att, ev |-> x.ev]
BY DEF Retained
-----------------------------------------------------------------------------
\* Where the ids of a step come from.
Named(i) ==
  \/ i = row.gid \/ \E u \in row.unresolved : i = u.ev
  \/ i \in Touched(row.op)
  \/ row.unfinished # None /\ \E x \in row.unfinished.attempts : i = x.ev

Drift(w) ==
  /\ \/ row'.gid = row.gid
     \/ row.status = "absent" /\ row.unresolved = {}
     \/ row.status # "absent" /\ Open(row'.gid)
  /\ row'.op.fallback # None => Open(row'.op.fallback)
  /\ IdRules'
  /\ \A i \in Workers : Named(i)' => Used(i) \/ (i = w /\ (Creates(w) \/ Begins(w)))

LEMMA DriftsNot ==
  ASSUME Retired, NEW w \in Workers,
         row'.gid = row.gid, row'.unresolved \subseteq row.unresolved, row'.unfinished = row.unfinished,
         row'.op.kind = row.op.kind, row'.op.event = row.op.event, row'.op.old = row.op.old,
         row'.op.fallback = row.op.fallback,
         \A x \in row'.op.attempts : x.ev \in Touched(row.op) \cup Touched(wk[w].op)
  PROVE  Drift(w)
<1>1. IdRules'
  BY DEF Retired, IdRules, Open
<1>2. row'.op.fallback # None => Open(row'.op.fallback)
  BY DEF Retired, IdRules
<1>3. \A i \in Workers : Named(i)' => Used(i)
  BY DEF Named, Used, Touched
<1> QED BY <1>1, <1>2, <1>3 DEF Drift

LEMMA DriftStays ==
  ASSUME Retired, NEW w \in Workers, row' = row \/ Entered(w) \/ Settled(w) \/ Erased(w) \/ Takes(w)
  PROVE  Drift(w)
<1>1. \A x \in row.op.attempts : x.ev \in Touched(row.op)
  BY DEF Touched
<1>2. CASE row' = row
  BY <1>1, <1>2, DriftsNot
<1>3. CASE Entered(w)
  <2>1. PICK e \in Touched(wk[w].op) :
          row'.op.attempts = row.op.attempts \cup {Attempt(<<w, wk[w].n + 1>>, e)}
    BY <1>3, EnteredLedger
  <2>2. Attempt(<<w, wk[w].n + 1>>, e).ev = e
    BY DEF Attempt
  <2>3. \A x \in row'.op.attempts : x.ev \in Touched(row.op) \cup Touched(wk[w].op)
    BY <1>1, <2>1, <2>2
  <2> QED BY <1>3, <2>3, EnteredLedger, DriftsNot
<1>4. CASE Settled(w)
  <2>3. \A x \in row'.op.attempts : x.ev \in Touched(row.op) \cup Touched(wk[w].op)
    BY <1>1, <1>4, SettledLedger
  <2> QED BY <1>4, <2>3, SettledLedger, DriftsNot
<1>5. CASE Erased(w)
  <2>1. row'.unresolved \subseteq row.unresolved
    BY <1>5, ErasedLedger
  <2> QED BY <1>1, <1>5, <2>1, ErasedLedger, DriftsNot
<1>6. CASE Takes(w)
  BY <1>1, <1>6, TakenLedger, DriftsNot
<1> QED BY <1>2, <1>3, <1>4, <1>5, <1>6

LEMMA DriftCompletes ==
  ASSUME Retired, NEW w \in Workers, Completes(w)
  PROVE  Drift(w)
<1>1. /\ row'.op = NoOp /\ row'.unfinished = None /\ row'.unresolved = Retained
      /\ row'.gid = IF wk[w].op.kind = "reschedule" THEN wk[w].res.ev ELSE row.gid
      /\ Alike(wk[w].op, row.op)
  BY CompletedLedger
<1>2. IdRules'
  BY <1>1, NoOpTouches, NoOpIs DEF IdRules
<1>3. \/ row'.gid = row.gid
      \/ row'.gid # None /\ row'.gid = row.op.fallback /\ row.status # "absent"
  <2>1. CASE wk[w].op.kind # "reschedule"
    BY <1>1, <2>1
  <2>2. CASE wk[w].op.kind = "reschedule"
    <3>1. wk[w].res \in EventSeen /\ row.status # "absent" /\ row.op.old \in {None, row.gid}
      BY <2>2, Known, OwnerAlike DEF Completes, Retired, Owned, IdRules, WorkerShape, HandFits, KindFits, Finishable
    <3>2. wk[w].res # None /\ wk[w].res.ev \in Ids /\ None \notin Ids
      BY <3>1, NoneIsNoValue DEF EventSeen
    <3>3. wk[w].res.ev \in {row.op.old, row.op.fallback}
      BY <1>1, <2>2, <3>2 DEF Retired, AllAim, Aims, Near, Alike
    <3> QED BY <1>1, <2>2, <3>1, <3>2, <3>3
  <2> QED BY <2>1, <2>2
<1>4. \/ row'.gid = row.gid
      \/ row.status # "absent" /\ Open(row'.gid)
  BY <1>3 DEF Retired, IdRules
<1>5. ASSUME NEW i \in Workers, Named(i)' PROVE Used(i)
  <2>1. i # None
    BY NoneIsNoValue DEF Ids
  <2>2. i = row'.gid \/ \E u \in Retained : i = u.ev
    BY <1>1, <1>5, <2>1, NoOpTouches DEF Named
  <2>3. (\E u \in Retained : i = u.ev) => Used(i)
    BY RetainedTouches DEF Used, Touched
  <2> QED BY <1>3, <2>2, <2>3 DEF Used, Touched
<1> QED BY <1>1, <1>2, <1>4, <1>5, NoOpTouches DEF Drift

LEMMA DriftClears ==
  ASSUME Retired, NEW w \in Workers, Clears(w)
  PROVE  Drift(w)
<1>1. /\ row'.gid = row.gid /\ row'.unfinished = row.unfinished /\ row'.unresolved = Retained
      /\ \/ row'.op = NoOp /\ row.unfinished = None
         \/ row'.op = RestoredCreate /\ row.unfinished # None
  BY ClearedLedger
<1>2. /\ RestoredCreate.event = row.unfinished.ev /\ RestoredCreate.kind = "create"
      /\ RestoredCreate.old = None /\ RestoredCreate.fallback = None
      /\ RestoredCreate.attempts = row.unfinished.attempts \cup
                                     {x \in row.op.attempts : x.out = "unresolved"}
  BY DEF RestoredCreate, NoOp
<1>3. IdRules' /\ row'.op.fallback = None
  BY <1>1, <1>2, NoOpTouches, NoOpIs DEF IdRules, Retired
<1>4. ASSUME NEW i \in Workers, Named(i)' PROVE Used(i)
  <2>1. i # None
    BY NoneIsNoValue DEF Ids
  <2>2. (\E u \in Retained : i = u.ev) => Used(i)
    BY RetainedTouches DEF Used, Touched
  <2>3. row.unfinished # None => row.unfinished.ev = row.gid
    BY DEF Retired, IdRules
  <2>4. i \in Touched(row'.op) => Used(i)
    <3>1. CASE row'.op = NoOp
      BY <2>1, <3>1, NoOpTouches
    <3>2. CASE row'.op = RestoredCreate /\ row.unfinished # None
      BY <1>2, <2>1, <2>3, <3>2 DEF Touched, Used
    <3> QED BY <1>1, <3>1, <3>2
  <2> QED BY <1>1, <1>4, <2>2, <2>4 DEF Named, Used
<1> QED BY <1>1, <1>3, <1>4 DEF Drift

LEMMA DriftMints ==
  ASSUME Retired, NEW w \in Workers, Creates(w) \/ Begins(w)
  PROVE  Drift(w)
<1>1. Pristine(w)
  BY CreatedColumns, BegunColumns DEF Retired
<1>2. ~Used(w) /\ None \notin Workers /\ w # None
  BY <1>1, NoneIsNoValue DEF Retired, FreshIds, Ids
<1>3. CASE Creates(w)
  <2>1. IdRules'
    BY <1>3, CreatedLedger DEF IdRules
  <2>2. Touched(row'.op) = {None, w}
    BY <1>3, CreatedLedger DEF Touched, Attempt
  <2>3. \A i \in Workers : Named(i)' => i = w
    BY <1>2, <1>3, <2>2, CreatedLedger DEF Named
  <2> QED BY <1>3, <2>1, <2>3, CreatedLedger DEF Drift
<1>4. CASE Begins(w)
  <2>1. /\ Newborn(row'.op, w) /\ row'.gid = row.gid /\ row'.unresolved = row.unresolved
        /\ row'.unfinished = row.unfinished
    BY <1>4, BegunColumns DEF Retired
  <2>2. IdRules'
    BY <1>2, <2>1 DEF Newborn, IdRules, Retired, Open, Used
  <2>3. Touched(row'.op) \subseteq {None, w, row.gid}
    BY <2>1 DEF Newborn, Touched
  <2>4. \A i \in Workers : Named(i)' => Used(i) \/ i = w
    BY <1>2, <2>1, <2>3 DEF Named, Used
  <2>5. row'.op.fallback # None => Open(row'.op.fallback)
    BY <1>2, <2>1 DEF Newborn, Open, Used
  <2> QED BY <1>4, <2>1, <2>2, <2>4, <2>5 DEF Drift
<1> QED BY <1>3, <1>4

LEMMA DriftReplaces ==
  ASSUME Retired, NEW w \in Workers, Replaces(w)
  PROVE  Drift(w)
<1>1. /\ row'.gid = row.gid /\ row'.unresolved = row.unresolved
      /\ row'.op.event = row.op.event /\ row'.op.fallback = row.op.fallback
      /\ row'.op.old = row.gid /\ row'.op.kind = "cancel" /\ row'.op.attempts = wk[w].op.attempts
      /\ Alike(wk[w].op, row.op)
      /\ \/ row'.unfinished = row.unfinished
         \/ /\ row'.unfinished.ev = row.op.event /\ row.op.kind = "create"
            /\ row'.unfinished.attempts = wk[w].op.attempts
  BY ReplacedLedger
<1>2. row.op.kind = "create" => row.op.event = row.gid
  BY Known, NoneIsNoValue DEF Retired, Owned, IdRules, RowShape, OpShape
<1>3. IdRules'
  BY <1>1, <1>2 DEF IdRules, Retired, Open
<1>4. \A i \in Workers : Named(i)' => Used(i)
  <2> SUFFICES ASSUME NEW i \in Workers, Named(i)' PROVE Used(i)
    OBVIOUS
  <2>1. Touched(row'.op) \subseteq Touched(row.op) \cup Touched(wk[w].op) \cup {row.gid}
    BY <1>1 DEF Touched
  <2>2. (\E x \in wk[w].op.attempts : i = x.ev) => Used(i)
    BY DEF Touched, Used
  <2> QED BY <1>1, <2>1, <2>2 DEF Named, Used
<1> QED BY <1>1, <1>3, <1>4 DEF Drift, Retired, IdRules

LEMMA DriftStep ==
  ASSUME Retired, NEW w \in Workers, Books(w)
  PROVE  Drift(w)
BY DriftStays, DriftCompletes, DriftClears, DriftMints, DriftReplaces DEF Books

\* An id used afterwards was used before, or has just been minted.
LEMMA UsedBefore ==
  ASSUME Retired, NEW w \in Workers, Deed(w), Effect(w), NEW i \in Workers, Used(i)'
  PROVE  Used(i) \/ (i = w /\ (Creates(w) \/ Begins(w)))
<1>1. Named(i)' => Used(i) \/ (i = w /\ (Creates(w) \/ Begins(w)))
  BY DriftStep DEF Deed, Drift
<1>2. ASSUME NEW v \in Workers, i \in Touched(wk'[v].op)
      PROVE  Used(i) \/ Named(i)'
  <2>1. CASE v # w
    BY <1>2, <2>1, OthersStand DEF Used, Retired
  <2>2. CASE v = w
    <3>1. wk'[w].op \in {wk[w].op, NoOp, row'.op}
      BY DEF Deed, Handled, Hand
    <3>2. i # None
      BY NoneIsNoValue DEF Ids
    <3> QED BY <1>2, <2>2, <3>1, <3>2, NoOpTouches DEF Used, Named
  <2> QED BY <2>1, <2>2
<1>3. Named(i)' \/ \E v \in Workers : i \in Touched(wk'[v].op)
  BY DEF Used, Named
<1> QED BY <1>1, <1>2, <1>3

LEMMA RetiredStep ==
  ASSUME Retired, NEW w \in Workers, Step(w)
  PROVE  Retired'
<1>1. Effect(w) /\ Deed(w) /\ Drift(w) /\ UNCHANGED given
  BY StepEffect, StepDeed, DriftStep DEF Retired, Step, Deed
<1>2. Owned'
  BY OwnedStep DEF Retired
<1>3. AllAim'
  BY <1>1, OthersStand DEF AllAim, Retired, Deed, Handled, Aims
<1>4. FreshIds'
  <2> SUFFICES ASSUME NEW v \in Workers, Pristine(v)', Used(v)' PROVE FALSE
    BY DEF FreshIds
  <2>1. Pristine(v) /\ (v = w => ~Creates(w) /\ ~Begins(w))
    BY <1>1, PristineBefore DEF Retired
  <2>2. ~Used(v)
    BY <2>1 DEF Retired, FreshIds
  <2> QED BY <1>1, <2>1, <2>2, UsedBefore
<1> QED BY <1>1, <1>2, <1>3, <1>4 DEF Retired, Drift

\* Nothing but staleness changes in the row, and no call moves.
LEMMA RetiredRests ==
  ASSUME Retired, Typed', Noted, row'.unresolved = row.unresolved,
         row'.op.attempts = row.op.attempts, wk' = wk, UNCHANGED given
  PROVE  Retired'
<1>1. Owned'
  BY OwnedRests DEF Retired
<1>2. AllAim' /\ IdRules'
  BY DEF AllAim, IdRules, Open, Retired, Noted, Alike
<1>3. FreshIds'
  BY DEF FreshIds, Pristine, Used, Touched, Retired, Noted, Alike, given
<1> QED BY <1>1, <1>2, <1>3 DEF Retired

\* Time, Google and the host leave the ledgers alone.
LEMMA WorldLeavesLedgers ==
  ASSUME Typed, TimePasses \/ LateExecutes \/ HostDeletes \/ UNCHANGED vars
  PROVE  /\ Noted /\ row'.unresolved = row.unresolved /\ row'.op.attempts = row.op.attempts
         /\ wk' = wk /\ (TimePasses \/ row' = row)
<1>1. CASE TimePasses
  BY <1>1 DEF TimePasses, Noted, Alike, Typed, TypeOK, BookingRows, Operations
<1>2. CASE LateExecutes \/ HostDeletes \/ UNCHANGED vars
  BY <1>2, NotedUnchanged DEF LateExecutes, HostDeletes, vars
<1> QED BY <1>1, <1>2

LEMMA RetiredSteps == Retired /\ [Next]_vars => Retired'
<1>1. ASSUME Retired, NEW w \in Workers, Step(w) PROVE Retired'
  BY <1>1, RetiredStep
<1>2. ASSUME Retired, (TimePasses \/ LateExecutes \/ HostDeletes \/ UNCHANGED vars) /\ UNCHANGED given
      PROVE  Retired'
  <2>1. Typed /\ Typed'
    BY <1>2, StepsTyped DEF Retired, Owned, Next
  <2> QED BY <1>2, <2>1, WorldLeavesLedgers, RetiredRests
<1> QED BY <1>1, <1>2 DEF Next, vars

LEMMA RetiredAtFirst == Init => Retired
<1> SUFFICES ASSUME Init PROVE Retired
  OBVIOUS
<1>1. Owned /\ row.op = NoOp /\ row.unfinished = None
  BY OwnedAtFirst, FirstRow
<1>2. \A w \in Workers : wk[w] = NewWorker
  BY DEF Init
<1>3. /\ NewWorker.op = NoOp /\ NewWorker.seen = None /\ NewWorker.res = None
  BY DEF NewWorker
<1>4. AllAim
  BY <1>2, <1>3, NoOpIs DEF AllAim, Aims
<1>5. IdRules
  BY <1>1, NoOpTouches, NoOpIs DEF IdRules
<1>6. FreshIds
  <2>1. PICK h \in {"none", "made", "failed"} : History(h)
    BY ScenariosAreWellFormed DEF Init
  <2>2. row = NoRow \/ row = MadeRow \/ row = FailedRow
          \/ row = [FailedRow EXCEPT !.unresolved = {[att |-> <<Origin, 1>>, ev |-> Origin]}]
    BY <2>1 DEF History
  <2>3. row.gid \in {None, Origin} /\ \A u \in row.unresolved : u.ev = Origin
    <3>1. NoRow.gid = None /\ NoRow.unresolved = {}
      BY DEF NoRow
    <3>2. MadeRow.gid = Origin /\ MadeRow.unresolved = {}
      BY DEF NoRow, MadeRow
    <3>3. FailedRow.gid = Origin /\ FailedRow.unresolved = {}
      BY DEF NoRow, MadeRow, FailedRow
    <3>4. ASSUME NEW u, row = [FailedRow EXCEPT !.unresolved = u]
          PROVE  row.gid = FailedRow.gid /\ row.unresolved = u
      BY <3>4 DEF NoRow, MadeRow, FailedRow
    <3> QED BY <2>2, <3>1, <3>2, <3>3, <3>4
  <2>4. \A w \in Workers : w # Origin /\ w # None
    BY OriginIsNoWorker, NoneIsNoValue DEF Ids
  <2> QED BY <1>1, <1>2, <1>3, <2>3, <2>4, NoOpTouches DEF FreshIds, Used
<1> QED BY <1>1, <1>4, <1>5, <1>6 DEF Retired

LEMMA RetiredAlways == Spec => []Retired
BY RetiredAtFirst, RetiredSteps, PTL DEF Spec

LEMMA StaysRetired ==
  ASSUME Retired, Retired', NEW w \in Workers, Step(w), NEW e \in EligibleReapIds
  PROVE  e # LiveId' /\ e \notin IntendedIds(row.op)'
<1>1. Effect(w) /\ Drift(w) /\ Owned
  BY StepEffect, StepDeed, DriftStep DEF Retired, Deed
<1>2. e # LiveId /\ (\E u \in row.unresolved : e = u.ev) /\ e \in Ids
  BY EligibleTyped DEF EligibleReapIds, Retired, Owned
<1>3. e # None /\ row.status \in {"confirmed", "cancelled"} /\ ~Open(e)
  BY <1>2, NoneIsNoValue, Known, RowParts DEF Retired, Owned, RowShape, Open
<1>4. row'.op.fallback # e
  BY <1>1, <1>3 DEF Drift
<1>5. row'.op.event \in {None, row'.gid} /\ row'.op.old \in {None, row'.gid}
  BY DEF Retired, IdRules
<1>6. CASE row.status = "cancelled"
  <2>1. row'.status = "cancelled"
    BY <1>1, <1>6, SettledLasts
  <2>2. row'.op = NoOp
    BY <2>1, Known DEF Retired, Owned, RowRules, Typed, Shape, RowShape, OpShape
  <2> QED BY <1>3, <2>1, <2>2, NoOpTouches DEF LiveId, IntendedIds
<1>7. CASE row.status = "confirmed"
  <2>1. row'.gid # e
    BY <1>1, <1>2, <1>3, <1>7 DEF Drift, LiveId
  <2> QED BY <1>3, <1>4, <1>5, <2>1 DEF LiveId, IntendedIds
<1> QED BY <1>3, <1>6, <1>7

\* Retired is absorbing (C6.3a): however late, no completion of another call's move, no
\* takeover, replacement, restoration or retry makes an id that a reap may delete the
\* booking's event again, or an id an operation means to use.
THEOREM RetiredStays == Spec => RetiredStaysRetired
<1>1. Retired /\ Retired' /\ [Next]_vars =>
        [\A e \in EligibleReapIds : e # LiveId' /\ e \notin IntendedIds(row.op)']_vars
  <2>1. ASSUME Retired, Retired', NEW w \in Workers, Step(w), NEW e \in EligibleReapIds
        PROVE  e # LiveId' /\ e \notin IntendedIds(row.op)'
    BY <2>1, StaysRetired
  <2>2. ASSUME Retired, TimePasses \/ LateExecutes \/ HostDeletes, NEW e \in EligibleReapIds
        PROVE  e # LiveId' /\ e \notin IntendedIds(row.op)'
    <3>1. Noted
      BY <2>2, WorldLeavesLedgers DEF Retired, Owned
    <3>2. e # LiveId /\ (\E u \in row.unresolved : e = u.ev) /\ e # None
      BY <2>2, EligibleTyped, NoneIsNoValue DEF EligibleReapIds, Retired, Owned
    <3>3. row.op.event # e /\ row.op.old # e
      <4>1. CASE row.status = "confirmed"
        BY <2>2, <3>2, <4>1 DEF Retired, IdRules, LiveId
      <4>2. CASE row.status # "confirmed"
        <5>1. row.op = NoOp
          BY <2>2, <4>2, Known, RowParts DEF Retired, Owned, RowRules, Typed, Shape, RowShape, OpShape, TypeOK
        <5> QED BY <3>2, <5>1, NoOpTouches
      <4> QED BY <4>1, <4>2
    <3>4. row.op.fallback # e
      BY <2>2, <3>2 DEF Retired, IdRules, Open
    <3> QED BY <3>1, <3>2, <3>3, <3>4 DEF Noted, Alike, LiveId, IntendedIds
  <2> QED BY <2>1, <2>2 DEF Next
<1> QED BY <1>1, RetiredAlways, PTL DEF Spec, RetiredStaysRetired
-----------------------------------------------------------------------------
\* The attempts of a step: numbers grow, and what was spent stays spent.
LEMMA OnlyCallers ==
  ASSUME Retired, "T1" \notin world.lostCommits, NEW w \in Workers, Effect(w), UNCHANGED given
  PROVE  /\ \A v \in Workers : v # w => wk'[v] = wk[v]
         /\ \A v \in Workers : wk[v].pc # "lost" /\ wk'[v].pc # "lost" /\ wk[v].n \in Nat
         /\ wk[w].pc # "done" /\ w \in Ids
<1>1. SingleOwner'
  BY SingleOwnerStep DEF Retired
<1>2. \A v \in Workers : wk[v].pc # "lost" /\ wk'[v].pc # "lost"
  BY <1>1 DEF SingleOwner, Retired, Owned, given
<1>3. wk[w].pc # "done"
  BY OthersStand
     DEF Retired, Effects, GoesOn, Leaves, Loses, Takes, Completes, Clears, Creates, Begins, Replaces,
         Recognizes, Holds
<1> QED BY <1>2, <1>3, OthersStand, Known, WorkerParts DEF Retired, Owned, Ids

LEMMA NumbersGrow ==
  ASSUME Retired, Recorded, "T1" \notin world.lostCommits, NEW w \in Workers, Effect(w), Deed(w),
         UNCHANGED given
  PROVE  /\ wk'[w].pc \notin {"done", "insert"} => wk'[w].n = wk[w].n
         /\ wk'[w].pc = "insert" =>
              /\ wk'[w].n > wk[w].n /\ wk'[w].n \in Nat
              /\ wk'[w].att = <<w, wk'[w].n>> /\ wk[w].pc # "insert"
              /\ \E x \in row'.op.attempts : x.att = <<w, wk'[w].n>> /\ x.out = "unresolved"
<1>1. wk[w].n \in Nat /\ wk[w].pc # "lost"
  BY OnlyCallers
<1>2. Hand(w, wk'[w])
  BY DEF Deed, Handled
<1>3. wk[w].pc = "start" /\ route[w] = "create" => wk[w].n = 0
  BY DEF Recorded, Numbered
<1> QED BY <1>1, <1>2, <1>3 DEF Hand

LEMMA IssuedLasts ==
  ASSUME Retired, Recorded, "T1" \notin world.lostCommits, NEW w \in Workers, Effect(w), Deed(w),
         UNCHANGED given, NEW a, Issued(a)
  PROVE  Issued(a)'
<1> SUFFICES ASSUME NEW v \in Workers, a \in {v} \X Nat PROVE wk'[v].pc = "done" \/ a[2] <= wk'[v].n
  BY DEF Issued
<1>1. wk[v].pc = "done" \/ a[2] <= wk[v].n
  BY DEF Issued
<1>2. a[2] \in Nat
  OBVIOUS
<1>3. CASE v # w
  BY <1>1, <1>3, OnlyCallers
<1>4. CASE v = w
  BY <1>1, <1>2, <1>4, OnlyCallers, NumbersGrow
<1> QED BY <1>3, <1>4

\* What Google may execute afterwards it could execute before, or is the call's next attempt.
LEMMA PendingBefore ==
  ASSUME Retired, Recorded, "T1" \notin world.lostCommits, NEW w \in Workers, Effect(w), Deed(w),
         UNCHANGED given, NEW a, Pending(a)'
  PROVE  Pending(a) \/ (wk'[w].pc = "insert" /\ a = <<w, wk'[w].n>> /\ ~Issued(a))
<1>1. CASE \E r \in late' : r.kind = "insert" /\ r.att = a
  BY <1>1 DEF Deed, Posts, Pending, At
<1>2. CASE \E v \in Workers : wk'[v].pc = "insert" /\ wk'[v].att = a
  <2>1. PICK v \in Workers : wk'[v].pc = "insert" /\ wk'[v].att = a
    BY <1>2
  <2>2. CASE v # w
    BY <2>1, <2>2, OnlyCallers DEF Pending, At
  <2>3. CASE v = w
    <3>1. a = <<w, wk'[w].n>> /\ wk'[w].n > wk[w].n /\ wk'[w].n \in Nat
      BY <2>1, <2>3, NumbersGrow
    <3>2. a \in {w} \X Nat /\ a[2] = wk'[w].n /\ wk[w].n \in Nat /\ wk[w].pc # "done"
      BY <3>1, OnlyCallers
    <3>3. ~Issued(a)
      BY <3>1, <3>2 DEF Issued
    <3> QED BY <2>1, <2>3, <3>1, <3>3
  <2> QED BY <2>2, <2>3
<1> QED BY <1>1, <1>2 DEF Pending, At

LEMMA SpentLasts ==
  ASSUME Retired, Recorded, "T1" \notin world.lostCommits, NEW w \in Workers, Effect(w), Deed(w),
         UNCHANGED given, NEW a, Spent(a)
  PROVE  Spent(a)'
BY IssuedLasts, PendingBefore DEF Spent

\* An attempt of a call that is neither sending it nor done is not pending.
LEMMA OwnSpent ==
  ASSUME Retired, Recorded, NEW w \in Workers, wk[w].pc \notin {"done", "insert"},
         NEW k \in Nat, k <= wk[w].n
  PROVE  Spent(<<w, k>>)
<1>1. Issued(<<w, k>>)
  BY DEF Issued
<1>2. ASSUME NEW r \in late, r.kind = "insert", r.att = <<w, k>> PROVE FALSE
  <2>1. r.att \in {w} \X Nat
    BY <1>2
  <2> QED BY <1>2, <2>1 DEF Recorded, LateAreOver
<1>3. \A v \in Workers : At(v, "insert") => wk[v].att # <<w, k>>
  BY DEF Recorded, Numbered, At
<1> QED BY <1>1, <1>2, <1>3 DEF Spent, Pending

LEMMA NumberedStep ==
  ASSUME Retired, Recorded, "T1" \notin world.lostCommits, NEW w \in Workers, Effect(w), Deed(w),
         UNCHANGED given
  PROVE  Numbered'
<1>1. Hand(w, wk'[w]) /\ wk[w].n \in Nat /\ wk[w].pc \notin {"done", "lost"}
  BY OnlyCallers DEF Deed, Handled
<1>2. wk'[w].pc # "done" => wk'[w].n >= wk[w].n /\ wk'[w].n \in Nat
  BY <1>1, NumbersGrow
<1>3. \/ wk'[w].pc \in {"insert", "finish"}
      \/ wk'[w].pc = "look" /\ wk'[w].op.kind = "reschedule"
      => wk'[w].att = <<w, wk'[w].n>>
  BY <1>1, NumbersGrow DEF Hand, Recorded, Numbered
<1>4. ASSUME wk'[w].own # None, wk'[w].pc # "done"
      PROVE  wk'[w].own.att \in {w} \X Nat /\ wk'[w].own.att[2] <= wk'[w].n
  <2>1. CASE wk[w].own # None /\ wk'[w].own.att = wk[w].own.att
    BY <1>1, <1>2, <1>4, <2>1 DEF Recorded, Numbered
  <2>2. CASE wk'[w].own.att = <<w, wk'[w].n>>
    BY <1>2, <1>4, <2>2
  <2>3. CASE /\ wk[w].pc = "insert" \/ (wk[w].pc = "look" /\ wk[w].op.kind = "reschedule")
             /\ wk'[w].own.att = wk[w].att
    <3>1. wk'[w].own.att = <<w, wk[w].n>>
      BY <2>3 DEF Recorded, Numbered
    <3> QED BY <1>1, <1>2, <1>4, <3>1
  <2> QED BY <1>1, <1>4, <2>1, <2>2, <2>3 DEF Hand
<1>5. route[w] = "create" => wk'[w].pc # "start"
  BY <1>1 DEF Hand
<1>6. \A v \in Workers : v # w => wk'[v] = wk[v]
  BY OnlyCallers
<1>7. route' = route
  BY DEF given
<1> QED BY <1>3, <1>4, <1>5, <1>6, <1>7 DEF Recorded, Numbered

LEMMA LateAreOverStep ==
  ASSUME Retired, Recorded, "T1" \notin world.lostCommits, NEW w \in Workers, Effect(w), Deed(w),
         UNCHANGED given
  PROVE  LateAreOver'
<1> SUFFICES ASSUME NEW r \in late', r.kind = "insert"
             PROVE  /\ r.att \in Attempts
                    /\ \A v \in Workers : r.att \in {v} \X Nat => wk'[v].pc = "done"
                    /\ \A s \in late' : s.kind = "insert" /\ s.att = r.att => s = r
  BY DEF LateAreOver, Attempts, Ids
<1>1. /\ \A v \in Workers : v # w => wk'[v] = wk[v]
      /\ wk[w].n \in Nat /\ wk[w].pc # "done" /\ w \in Ids
  BY OnlyCallers
<1>2. \A s \in late : s.kind = "insert" =>
        /\ s.att \in Attempts
        /\ \A v \in Workers : s.att \in {v} \X Nat => wk[v].pc = "done"
  BY DEF Recorded, LateAreOver
<1>3. ASSUME NEW s \in late' \ late, s.kind = "insert"
      PROVE  wk[w].pc = "insert" /\ wk'[w].pc = "done" /\ s.att = <<w, wk[w].n>>
  BY <1>3 DEF Deed, Posts, Recorded, Numbered
<1>4. CASE r \in late
  <2>1. \A v \in Workers : r.att \in {v} \X Nat => v # w /\ wk[v].pc = "done"
    BY <1>1, <1>2, <1>4
  <2>2. ASSUME NEW s \in late', s.kind = "insert", s.att = r.att PROVE s = r
    <3>1. s \in late
      BY <1>1, <1>3, <2>1, <2>2
    <3> QED BY <1>4, <2>2, <3>1 DEF Recorded, LateAreOver
  <2> QED BY <1>1, <1>2, <1>4, <2>1, <2>2
<1>5. CASE r \notin late
  <2>1. wk'[w].pc = "done" /\ r.att = <<w, wk[w].n>>
    BY <1>3, <1>5
  <2>2. ASSUME NEW s \in late', s.kind = "insert", s.att = r.att PROVE s = r
    <3>1. s.att \in {w} \X Nat /\ wk[w].pc # "done"
      BY <1>1, <2>1, <2>2
    <3>2. s \notin late
      BY <1>2, <2>2, <3>1
    <3> QED BY <1>5, <2>2, <3>2 DEF Deed, Posts
  <2> QED BY <1>1, <2>1, <2>2 DEF Attempts
<1> QED BY <1>4, <1>5

LEMMA HeldAreSpentStep ==
  ASSUME Retired, Recorded, "T1" \notin world.lostCommits, NEW w \in Workers, Effect(w), Deed(w),
         UNCHANGED given, Numbered', LateAreOver'
  PROVE  HeldAreSpent'
<1>1. /\ \A v \in Workers : v # w => wk'[v] = wk[v]
      /\ wk[w].n \in Nat /\ wk[w].pc # "done"
  BY OnlyCallers
<1>2. Hand(w, wk'[w])
  BY DEF Deed, Handled
<1>3. \A e \in Ids : Spent(cal[e].att)
  BY DEF Recorded, HeldAreSpent
<1>4. ASSUME NEW e \in Ids, NEW a, a = cal'[e].att PROVE Spent(a)'
  <2>1. CASE a = cal[e].att
    BY <1>3, <2>1, SpentLasts
  <2>2. CASE a # cal[e].att
    <3>1. wk[w].pc = "insert" /\ wk'[w].pc = "finish" /\ a = <<w, wk[w].n>>
      BY <1>4, <2>2 DEF Deed, Posts, Recorded, Numbered
    <3>2. wk'[w].n = wk[w].n
      BY <3>1, NumbersGrow
    <3>3. Issued(a)'
      BY <1>1, <3>1, <3>2 DEF Issued
    <3>4. ASSUME NEW r \in late', r.kind = "insert", r.att = a PROVE FALSE
      <4>1. r.att \in {w} \X Nat
        BY <1>1, <3>1, <3>4
      <4> QED BY <3>1, <3>4, <4>1 DEF LateAreOver
    <3>5. \A v \in Workers : wk'[v].pc = "insert" => wk'[v].att # a
      BY <3>1 DEF Numbered
    <3> QED BY <3>3, <3>4, <3>5 DEF Spent, Pending, At
  <2> QED BY <2>1, <2>2
<1>5. ASSUME NEW v \in Workers, wk'[v].pc \in Holding, NEW a, a = wk'[v].att PROVE Spent(a)
  <2>1. CASE v # w
    BY <1>1, <1>5, <2>1 DEF Recorded, HeldAreSpent
  <2>2. CASE v = w
    <3>1. CASE wk[w].pc \in Holding /\ wk'[w].att = wk[w].att
      BY <1>5, <2>2, <3>1 DEF Recorded, HeldAreSpent
    <3>2. CASE \E e \in Ids : wk'[w].att = cal[e].att
      BY <1>3, <1>5, <2>2, <3>2
    <3>3. CASE wk[w].pc = "superseded" /\ wk[w].own # None /\ wk'[w].att = wk[w].own.att
      <4>1. wk[w].own.att \in {w} \X Nat /\ wk[w].own.att[2] <= wk[w].n
        BY <3>3 DEF Recorded, Numbered
      <4>2. PICK k \in Nat : wk[w].own.att = <<w, k>> /\ k <= wk[w].n
        BY <4>1
      <4> QED BY <1>5, <2>2, <3>3, <4>2, OwnSpent
    <3> QED BY <1>2, <1>5, <2>2, <3>1, <3>2, <3>3 DEF Hand
  <2> QED BY <2>1, <2>2
<1>6. ASSUME NEW v \in Workers, wk'[v].pc \in Holding, NEW a, a = wk'[v].att PROVE Spent(a)'
  BY <1>5, <1>6, SpentLasts
<1> QED BY <1>4, <1>6 DEF HeldAreSpent, Spent, Issued, Pending, At

LEMMA StandsLasts ==
  ASSUME Retired, Recorded, "T1" \notin world.lostCommits, NEW w \in Workers, Effect(w), Deed(w),
         UNCHANGED given, NEW x, Stands(x)
  PROVE  Stands(x)'
BY IssuedLasts, PendingBefore DEF Stands

\* The attempt a call has just entered.
LEMMA EnteredStands ==
  ASSUME Retired, Recorded, "T1" \notin world.lostCommits, NEW w \in Workers, Effect(w), Deed(w),
         UNCHANGED given, wk'[w].pc = "insert", NEW x, x.att = <<w, wk'[w].n>>, x.out = "unresolved"
  PROVE  Stands(x)'
<1>1. ASSUME NEW v \in Workers, x.att \in {v} \X Nat PROVE x.att[2] <= wk'[v].n
  BY <1>1, NumbersGrow
<1> QED BY <1>1 DEF Stands, Issued

LEMMA RowEntriesStand ==
  ASSUME Retired, Recorded, "T1" \notin world.lostCommits, NEW w \in Workers, Effect(w), Deed(w),
         UNCHANGED given, NEW x \in row'.op.attempts
  PROVE  Stands(x)'
<1>1. \A y \in row.op.attempts : Stands(y)'
  BY StandsLasts DEF Recorded, EntriesStand
<1>2. \A y \in wk[w].op.attempts : Stands(y)'
  BY StandsLasts DEF Recorded, EntriesStand
<1>3. row.unfinished # None => \A y \in row.unfinished.attempts : Stands(y)'
  BY StandsLasts DEF Recorded, EntriesStand
<1>4. CASE row' = row \/ Erased(w) \/ Takes(w)
  BY <1>1, <1>4, ErasedLedger, TakenLedger
<1>5. CASE Entered(w)
  <2>1. PICK e \in Touched(wk[w].op) :
          row'.op.attempts = row.op.attempts \cup {Attempt(<<w, wk[w].n + 1>>, e)}
    BY <1>5, EnteredLedger
  <2>2. wk'[w].pc = "insert" /\ wk[w].pc # "insert"
    BY <1>5 DEF Entered
  <2>3. wk'[w].n = wk[w].n + 1
    <3>1. Hand(w, wk'[w]) /\ wk[w].n \in Nat /\ wk[w].pc # "lost"
      BY OnlyCallers DEF Deed, Handled
    <3>2. route[w] = "create" /\ wk[w].pc = "start" => wk[w].n = 0
      BY DEF Recorded, Numbered
    <3> QED BY <2>2, <3>1, <3>2 DEF Hand
  <2>4. CASE x = Attempt(<<w, wk[w].n + 1>>, e)
    <3>1. x.att = <<w, wk'[w].n>> /\ x.out = "unresolved"
      BY <2>3, <2>4 DEF Attempt
    <3> QED BY <2>2, <3>1, EnteredStands
  <2> QED BY <1>1, <2>1, <2>4
<1>6. CASE Settled(w)
  <2>1. PICK y \in row.op.attempts : x.att = y.att /\ (y.att # wk[w].att => x = y)
    BY <1>6, SettledLedger
  <2>2. CASE y.att # wk[w].att
    BY <1>1, <2>1, <2>2
  <2>3. CASE y.att = wk[w].att
    <3>1. wk[w].pc = "finish" /\ wk[w].att = <<w, wk[w].n>> /\ wk[w].n \in Nat
      BY <1>6, OnlyCallers DEF Settled, Recorded, Numbered
    <3>2. Spent(x.att)
      BY <2>1, <2>3, <3>1, OwnSpent
    <3>3. Spent(x.att)'
      BY <3>2, SpentLasts
    <3> QED BY <3>3 DEF Spent, Stands
  <2> QED BY <2>2, <2>3
<1>7. CASE Completes(w) \/ Begins(w)
  BY <1>7, CompletedLedger, BegunColumns, NoOpTouches DEF Newborn, Retired
<1>8. CASE Clears(w)
  <2>1. RestoredCreate.attempts = row.unfinished.attempts \cup
                                     {y \in row.op.attempts : y.out = "unresolved"}
    BY DEF RestoredCreate, NoOp
  <2> QED BY <1>1, <1>3, <1>8, <2>1, ClearedLedger, NoOpTouches
<1>9. CASE Replaces(w)
  BY <1>2, <1>9, ReplacedLedger
<1>10. CASE Creates(w) /\ wk'[w].pc \in {"insert", "lost"}
  <2>1. x = Attempt(<<w, 1>>, w) /\ wk'[w].pc = "insert"
    BY <1>10, CreatedLedger, OnlyCallers
  <2>2. \E y \in row'.op.attempts : y.att = <<w, wk'[w].n>> /\ y.out = "unresolved"
    BY <2>1, NumbersGrow
  <2>3. x.att = <<w, wk'[w].n>> /\ x.out = "unresolved"
    BY <1>10, <2>1, <2>2, CreatedLedger
  <2> QED BY <2>1, <2>3, EnteredStands
<1> QED BY <1>4, <1>5, <1>6, <1>7, <1>8, <1>9, <1>10 DEF Deed, Books

LEMMA EntriesStandStep ==
  ASSUME Retired, Recorded, "T1" \notin world.lostCommits, NEW w \in Workers, Effect(w), Deed(w),
         UNCHANGED given
  PROVE  EntriesStand'
<1>1. \A x \in row'.op.attempts : Stands(x)'
  BY RowEntriesStand
<1>2. ASSUME NEW v \in Workers, NEW x \in wk'[v].op.attempts PROVE Stands(x)'
  <2>1. wk'[v].op \in {wk[v].op, NoOp, row'.op}
    BY OnlyCallers DEF Deed, Handled, Hand
  <2> QED BY <1>1, <1>2, <2>1, NoOpTouches, StandsLasts DEF Recorded, EntriesStand
<1>3. ASSUME row'.unfinished # None, NEW x \in row'.unfinished.attempts PROVE Stands(x)'
  <2>1. \/ row'.unfinished = row.unfinished \/ row'.unfinished = None
        \/ row'.unfinished.attempts = wk[w].op.attempts
    BY EnteredLedger, SettledLedger, ErasedLedger, TakenLedger, CompletedLedger, ClearedLedger,
       CreatedLedger, BegunColumns, ReplacedLedger DEF Deed, Books, Retired
  <2> QED BY <1>3, <2>1, StandsLasts DEF Recorded, EntriesStand
<1> QED BY <1>1, <1>2, <1>3 DEF EntriesStand

\* A call that still owns the operation of another call's ledger, or is left with none.
LEMMA OthersCovered ==
  ASSUME Retired, Recorded, "T1" \notin world.lostCommits, NEW w \in Workers, Effect(w), Deed(w),
         UNCHANGED given, NEW v \in Workers, v # w, Reconciling(wk[v]), Owns(v)'
  PROVE  Covers(wk[v].op.attempts, row'.op.attempts)
<1>1. wk'[v] = wk[v] /\ Owned /\ OneOwner
  BY OnlyCallers DEF Retired, Owned, SingleOwner
<1>2. wk[v].op.kind # "none" /\ wk[v].op.id # None
  BY Known DEF Reconciling, Retired, Owned, WorkerShape, KindFits, Finishable, OpShape
<1>3. row'.op.id = wk[v].op.id /\ row'.op.gen = wk[v].op.gen
  BY <1>1 DEF Owns, OpOf
<1>4. Owns(v) => Covers(wk[v].op.attempts, row.op.attempts)
  BY DEF Recorded, LedgersCovered
<1>5. CASE row' = row \/ Erased(w)
  BY <1>3, <1>4, <1>5, ErasedLedger DEF Owns, OpOf
<1>6. CASE Entered(w)
  BY <1>1, <1>2, <1>3, <1>6, EnteredLedger DEF Entered, Owns, OpOf, OneOwner
<1>7. CASE Settled(w)
  <2>1. Owns(v)
    BY <1>3, <1>7, SettledLedger DEF Owns, OpOf
  <2> QED BY <1>4, <1>7, <2>1, SettledLedger DEF Covers
<1>8. CASE Takes(w) \/ Creates(w) \/ Replaces(w)
  BY <1>1, <1>2, <1>3, <1>8, NewHolderAlone
<1>9. CASE Completes(w) \/ Begins(w)
  BY <1>9, CompletedLedger, BegunColumns, NoOpTouches DEF Newborn, Retired, Covers
<1>10. CASE Clears(w)
  <2>1. CASE row'.op = NoOp
    BY <2>1, NoOpTouches DEF Covers
  <2>2. CASE row'.op # NoOp
    <3>1. /\ row.unfinished # None /\ row.op.kind = "cancel" /\ row'.op.id = row.unfinished.id
          /\ row'.op.gen > row.unfinished.gen
      BY <1>1, <1>10, <2>2, ClearedColumns DEF Clears
    <3>2. row.op.id # row.unfinished.id
      BY <1>1, <3>1 DEF Owned, AllMinted, Minted
    <3>3. wk[v].op.gen <= row.unfinished.gen
      BY <1>1, <1>2, <1>3, <3>1, <3>2 DEF Owned, Behind
    <3>4. wk[v].op.gen \in Nat /\ row.unfinished.gen \in Nat
      BY <1>1, <3>1, Known, OperationParts, WorkerParts, RowParts DEF Owned, Creations
    <3> QED BY <1>3, <3>1, <3>3, <3>4
  <2> QED BY <2>1, <2>2
<1> QED BY <1>5, <1>6, <1>7, <1>8, <1>9, <1>10 DEF Deed, Books

LEMMA LedgersCoveredStep ==
  ASSUME Retired, Recorded, "T1" \notin world.lostCommits, NEW w \in Workers, Effect(w), Deed(w),
         UNCHANGED given
  PROVE  LedgersCovered'
<1>1. row.unfinished # None => Covers(row.op.attempts, row.unfinished.attempts)
  BY DEF Recorded, LedgersCovered
<1>2. ASSUME row'.unfinished # None PROVE Covers(row'.op.attempts, row'.unfinished.attempts)
  <2>1. CASE row' = row \/ Entered(w) \/ Erased(w) \/ Takes(w)
    BY <1>1, <1>2, <2>1, EnteredLedger, ErasedLedger, TakenLedger DEF Covers
  <2>2. CASE Settled(w)
    BY <1>1, <1>2, <2>2, SettledLedger DEF Covers
  <2>3. CASE Completes(w) \/ Creates(w)
    BY <1>2, <2>3, CompletedLedger, CreatedLedger
  <2>4. CASE Begins(w)
    BY <1>2, <2>4, BegunColumns DEF Retired, Owned, RowRules
  <2>5. CASE Clears(w)
    <3>1. RestoredCreate.attempts = row.unfinished.attempts \cup
                                       {y \in row.op.attempts : y.out = "unresolved"}
      BY DEF RestoredCreate, NoOp
    <3> QED BY <1>2, <2>5, <3>1, ClearedLedger DEF Covers
  <2>6. CASE Replaces(w)
    <3>1. Covers(wk[w].op.attempts, row.op.attempts)
      BY <2>6 DEF Replaces, Reconciling, Recorded, LedgersCovered
    <3> QED BY <1>1, <1>2, <2>6, <3>1, ReplacedLedger DEF Covers
  <2> QED BY <2>1, <2>2, <2>3, <2>4, <2>5, <2>6 DEF Deed, Books
<1>3. ASSUME NEW v \in Workers, Reconciling(wk'[v]), Owns(v)'
      PROVE  Covers(wk'[v].op.attempts, row'.op.attempts)
  <2>1. CASE v # w
    BY <1>3, <2>1, OnlyCallers, OthersCovered
  <2>2. CASE v = w
    <3>1. CASE wk'[w].op = row'.op
      BY <2>2, <3>1 DEF Covers
    <3>2. CASE Reconciling(wk[w]) /\ wk'[w].op = wk[w].op
      <4>1. CASE row' = row
        BY <1>3, <2>2, <3>2, <4>1 DEF Recorded, LedgersCovered, Owns, OpOf
      <4>2. CASE Entered(w)
        BY <1>3, <2>2, <4>2 DEF Entered, Reconciling
      <4>3. CASE Replaces(w)
        BY <2>2, <3>1, <4>3 DEF Replaces, Holds
      <4> QED BY <3>2, <4>1, <4>2, <4>3
              DEF Deed, Books, Settled, Erased, Takes, Completes, Clears, Begins, Creates, Reconciling
    <3> QED BY <1>3, <2>2, <3>1, <3>2 DEF Deed, Handled, Hand
  <2> QED BY <2>1, <2>2
<1> QED BY <1>2, <1>3 DEF LedgersCovered

\* An insert on record that Google may still execute stays on record.
LEMMA RecordLasts ==
  ASSUME Retired, Recorded, "T1" \notin world.lostCommits, NEW w \in Workers, Effect(w), Deed(w),
         UNCHANGED given, NEW a, Pending(a), OnRecord(a)
  PROVE  OnRecord(a)'
<1>1. \A y \in row.op.attempts : y.att = a => y.out = "unresolved"
  BY DEF Recorded, EntriesStand, Stands
<1>2. \A y \in wk[w].op.attempts : y.att = a => y.out = "unresolved"
  BY DEF Recorded, EntriesStand, Stands
<1>3. row.unfinished # None => Covers(row.op.attempts, row.unfinished.attempts)
  BY DEF Recorded, LedgersCovered
<1>4. (\E y \in row.op.attempts : y.att = a) \/ (\E u \in row.unresolved : u.att = a)
  BY <1>3 DEF OnRecord, Covers
<1>5. CASE row' = row
  BY <1>5 DEF OnRecord
<1>6. CASE Entered(w) \/ Takes(w)
  BY <1>1, <1>4, <1>6, EnteredLedger, TakenLedger DEF OnRecord
<1>7. CASE Settled(w)
  <2>1. a # wk[w].att
    <3>1. wk[w].pc = "finish" /\ wk[w].att = <<w, wk[w].n>> /\ wk[w].n \in Nat
      BY <1>7, OnlyCallers DEF Settled, Recorded, Numbered
    <3>2. Spent(<<w, wk[w].n>>)
      BY <3>1, OwnSpent
    <3> QED BY <3>1, <3>2 DEF Spent
  <2>2. ASSUME NEW y \in row.op.attempts, y.att = a PROVE y \in row'.op.attempts
    BY <1>7, <2>1, <2>2, SettledLedger
  <2> QED BY <1>1, <1>4, <1>7, <2>2, SettledLedger DEF OnRecord
<1>8. CASE Erased(w)
  <2>1. a # wk[w].att
    BY <1>8 DEF Erased, Holding, Recorded, HeldAreSpent, Spent
  <2> QED BY <1>1, <1>4, <1>8, <2>1, ErasedLedger DEF OnRecord
<1>9. CASE Completes(w) \/ Clears(w)
  <2>1. row'.unresolved = Retained
    BY <1>9, CompletedLedger, ClearedLedger
  <2>2. \E u \in Retained : u.att = a
    <3>1. CASE \E y \in row.op.attempts : y.att = a
      <4>1. PICK y \in row.op.attempts : y.att = a /\ y.out = "unresolved"
        BY <1>1, <3>1
      <4>2. [att |-> y.att, ev |-> y.ev] \in Retained
        BY <4>1 DEF Retained
      <4> QED BY <4>1, <4>2
    <3>2. CASE \E u \in row.unresolved : u.att = a
      BY <3>2 DEF Retained
    <3> QED BY <1>4, <3>1, <3>2
  <2> QED BY <2>1, <2>2 DEF OnRecord
<1>10. CASE Creates(w)
  BY <1>4, <1>10, CreatedColumns, CreatedLedger, NoOpTouches DEF Retired
<1>11. CASE Begins(w)
  <2>1. row.op.attempts = {}
    BY <1>11, BegunColumns, Known, NoOpTouches DEF Retired, Owned, Typed, Shape, RowShape, OpShape
  <2> QED BY <1>4, <1>11, <2>1, BegunColumns DEF OnRecord, Retired
<1>12. CASE Replaces(w)
  <2>1. Covers(wk[w].op.attempts, row.op.attempts)
    BY <1>12 DEF Replaces, Reconciling, Recorded, LedgersCovered
  <2>2. row'.op.attempts = wk[w].op.attempts /\ row'.unresolved = row.unresolved
    BY <1>12, ReplacedLedger
  <2> QED BY <1>2, <1>4, <2>1, <2>2 DEF OnRecord, Covers
<1> QED BY <1>5, <1>6, <1>7, <1>8, <1>9, <1>10, <1>11, <1>12 DEF Deed, Books

LEMMA OnRecordStep ==
  ASSUME Retired, Recorded, "T1" \notin world.lostCommits, NEW w \in Workers, Effect(w), Deed(w),
         UNCHANGED given
  PROVE  InsertsOnRecord'
<1>1. ASSUME NEW a, Pending(a)' PROVE OnRecord(a)'
  <2>1. CASE Pending(a)
    <3>1. OnRecord(a)
      BY <2>1 DEF Pending, Recorded, InsertsOnRecord
    <3> QED BY <2>1, <3>1, RecordLasts
  <2>2. CASE wk'[w].pc = "insert" /\ a = <<w, wk'[w].n>>
    BY <2>2, NumbersGrow DEF OnRecord
  <2> QED BY <1>1, <2>1, <2>2, PendingBefore
<1> QED BY <1>1 DEF InsertsOnRecord, Pending, OnRecord, At

LEMMA RecordedStep ==
  ASSUME Retired, Recorded, "T1" \notin world.lostCommits, NEW w \in Workers, Step(w)
  PROVE  Recorded'
<1>1. Effect(w) /\ Deed(w) /\ UNCHANGED given
  BY StepEffect, StepDeed DEF Retired, Step
<1> QED BY <1>1, NumberedStep, LateAreOverStep, HeldAreSpentStep, EntriesStandStep,
           LedgersCoveredStep, OnRecordStep DEF Recorded

\* Time, Google and the host: an insert that executes after all is Google's, not pending.
LEMMA RecordedRests ==
  ASSUME Retired, Recorded, Noted, row'.unresolved = row.unresolved,
         row'.op.attempts = row.op.attempts, wk' = wk, late' \subseteq late, UNCHANGED given,
         \A e \in Ids : Spent(cal[e].att)'
  PROVE  Recorded'
<1>1. /\ row'.unfinished = row.unfinished
      /\ row'.op.id = row.op.id /\ row'.op.gen = row.op.gen
  BY DEF Noted, Alike
<1>2. ASSUME NEW a PROVE (Pending(a)' => Pending(a)) /\ (Issued(a) => Issued(a)')
  BY DEF Pending, Issued, At
<1>3. ASSUME NEW a, Spent(a) PROVE Spent(a)'
  BY <1>2, <1>3 DEF Spent
<1>4. ASSUME NEW x, Stands(x) PROVE Stands(x)'
  BY <1>2, <1>4 DEF Stands
<1>5. Numbered' /\ LateAreOver'
  BY DEF Recorded, Numbered, LateAreOver, given
<1>6. HeldAreSpent'
  <2>1. ASSUME NEW v \in Workers, wk'[v].pc \in Holding, NEW a, a = wk'[v].att PROVE Spent(a)'
    BY <1>3, <2>1 DEF Recorded, HeldAreSpent
  <2> QED BY <2>1 DEF HeldAreSpent, Spent, Issued, Pending, At
<1>7. EntriesStand'
  BY <1>1, <1>4 DEF Recorded, EntriesStand
<1>8. LedgersCovered'
  BY <1>1 DEF Recorded, LedgersCovered, Owns, OpOf, Covers
<1>9. InsertsOnRecord'
  BY <1>1 DEF Recorded, InsertsOnRecord, OnRecord, At
<1> QED BY <1>5, <1>6, <1>7, <1>8, <1>9 DEF Recorded

LEMMA SpentRests ==
  ASSUME Retired, Recorded, TimePasses \/ LateExecutes \/ HostDeletes \/ UNCHANGED vars
  PROVE  late' \subseteq late /\ \A e \in Ids : Spent(cal[e].att)'
<1>1. wk' = wk
  BY WorldLeavesLedgers DEF Retired, Owned
<1>2. \A e \in Ids : Spent(cal[e].att)
  BY DEF Recorded, HeldAreSpent
<1>3. CASE TimePasses \/ UNCHANGED vars
  BY <1>1, <1>2, <1>3 DEF TimePasses, vars, Spent, Issued, Pending, At
<1>4. CASE LateExecutes
  <2>1. PICK r \in late : cal' = Executed(r) /\ late' = late \ {r}
    BY <1>4 DEF LateExecutes
  <2>2. ASSUME NEW a, Spent(a) PROVE Spent(a)'
    BY <1>1, <2>1, <2>2 DEF Spent, Issued, Pending, At
  <2>3. ASSUME r.kind = "insert", NEW a, a = r.att PROVE Spent(a)'
    <3>1. /\ a \in Attempts /\ \A v \in Workers : a \in {v} \X Nat => wk[v].pc = "done"
          /\ \A s \in late : s.kind = "insert" /\ s.att = a => s = r
      BY <2>3 DEF Recorded, LateAreOver
    <3>2. ASSUME NEW v \in Workers, wk[v].pc = "insert" PROVE wk[v].att \in {v} \X Nat
      <4>1. wk[v].n \in Nat
        BY Known, WorkerParts DEF Retired, Owned
      <4>2. wk[v].att = <<v, wk[v].n>>
        BY <3>2 DEF Recorded, Numbered
      <4> QED BY <4>1, <4>2
    <3> QED BY <1>1, <2>1, <3>1, <3>2 DEF Spent, Issued, Pending, At
  <2>4. ASSUME NEW e \in Ids
        PROVE  cal'[e].att = cal[e].att \/ (r.kind = "insert" /\ cal'[e].att = r.att)
    BY <2>1, <2>4, Known DEF Executed, Retired, Owned, Typed, TypeOK, Events, CalendarRequests
  <2>5. ASSUME NEW e \in Ids, NEW a, a = cal'[e].att PROVE Spent(a)'
    BY <1>2, <2>2, <2>3, <2>4, <2>5
  <2> QED BY <2>1, <2>5 DEF Spent, Issued, Pending, At
<1>5. CASE HostDeletes
  <2>1. PICK e \in Ids : cal' = Executed(DeleteReq(e, cal[e].ver))
    BY <1>5 DEF HostDeletes
  <2>2. \A i \in Ids : cal'[i].att = cal[i].att
    BY <2>1 DEF Executed, DeleteReq, Retired, Owned, Typed, TypeOK, Events
  <2> QED BY <1>1, <1>2, <1>5, <2>2 DEF HostDeletes, Spent, Issued, Pending, At
<1> QED BY <1>3, <1>4, <1>5

LEMMA RecordedAtFirst == Init => Recorded
<1> SUFFICES ASSUME Init PROVE Recorded
  OBVIOUS
<1>1. row.op = NoOp /\ row.unfinished = None /\ Retired
  BY FirstRow, RetiredAtFirst
<1>2. \A w \in Workers : wk[w].pc = "start" /\ wk[w].n = 0 /\ wk[w].own = None /\ wk[w].op = NoOp
  BY DEF Init, NewWorker
<1> DEFINE first == <<Origin, 1>>
<1>3. /\ first \in Attempts /\ \A w \in Workers : first \notin {w} \X Nat
      /\ None \notin Attempts /\ \A w \in Workers : None \notin {w} \X Nat
  BY OriginIsNoWorker, NoneIsNoValue DEF Ids, Attempts
<1>4. /\ late \subseteq {OriginInsert}
      /\ \A e \in Ids : cal[e].att \in {None} \cup (IF late = {} THEN {first} ELSE {})
      /\ late # {} => \E u \in row.unresolved : u.att = first
  <2>1. PICK h \in {"none", "made", "failed"} : History(h)
    BY ScenariosAreWellFormed DEF Init
  <2>2. CASE h \in {"none", "made"}
    BY <2>1, <2>2 DEF History, NoEvent
  <2>3. CASE h = "failed"
    <3>1. \A u : [FailedRow EXCEPT !.unresolved = u].unresolved = u
      BY DEF FailedRow, MadeRow, NoRow
    <3> DEFINE u == [att |-> <<Origin, 1>>, ev |-> Origin]
    <3>2. \/ late = {}
          \/ late = {OriginInsert} /\ row = [FailedRow EXCEPT !.unresolved = {u}]
      BY <2>1, <2>3 DEF History
    <3>3. \A e \in Ids : cal[e].att = None
      BY <2>1, <2>3 DEF History, NoEvent
    <3>4. u.att = first
      OBVIOUS
    <3> HIDE DEF u, first
    <3> QED BY <3>1, <3>2, <3>3, <3>4
  <2> QED BY <2>1, <2>2, <2>3
<1>5. OriginInsert.att = first /\ OriginInsert.kind = "insert"
  BY DEF OriginInsert, InsertReq
<1> HIDE DEF first
<1>6. Numbered /\ LateAreOver
  BY <1>2, <1>3, <1>4, <1>5 DEF Numbered, LateAreOver
<1>7. HeldAreSpent
  <2>1. \A w \in Workers : wk[w].pc \notin Holding /\ ~At(w, "insert")
    BY <1>2 DEF Holding, At
  <2>2. ASSUME NEW e \in Ids PROVE Spent(cal[e].att)
    BY <1>3, <1>4, <1>5, <2>1 DEF Spent, Issued, Pending
  <2> QED BY <2>1, <2>2 DEF HeldAreSpent
<1>8. EntriesStand /\ LedgersCovered
  BY <1>1, <1>2, NoOpTouches DEF EntriesStand, LedgersCovered, Reconciling
<1>9. InsertsOnRecord
  BY <1>2, <1>4, <1>5 DEF InsertsOnRecord, OnRecord, At
<1> QED BY <1>6, <1>7, <1>8, <1>9 DEF Recorded

LEMMA RecordedSteps ==
  Retired /\ KeptOnRecord /\ [Next]_vars => KeptOnRecord'
<1> SUFFICES ASSUME Retired, "T1" \notin world.lostCommits, Recorded, [Next]_vars
             PROVE  Recorded'
  BY DEF KeptOnRecord, Next, Step, vars, given
<1>1. ASSUME NEW w \in Workers, Step(w) PROVE Recorded'
  BY <1>1, RecordedStep
<1>2. ASSUME (TimePasses \/ LateExecutes \/ HostDeletes \/ UNCHANGED vars) /\ UNCHANGED given
      PROVE  Recorded'
  BY <1>2, WorldLeavesLedgers, SpentRests, RecordedRests DEF Retired, Owned
<1> QED BY <1>1, <1>2 DEF Next, vars

\* A crash loses no insert (C6.3b): whatever Google may still execute, because its call is
\* about to send it or gave up on it, is on record as unresolved.  The attempt is durable
\* before the request, and every update that clears, replaces or restores an operation
\* keeps what is unresolved.  A create whose T1 lost its response may put two calls behind
\* one generation, each appending where the other replaces, so none is lost here.
THEOREM InsertsKept == Spec => []("T1" \notin world.lostCommits => InsertsOnRecord)
<1>1. Init => KeptOnRecord
  BY RecordedAtFirst DEF KeptOnRecord
<1>2. KeptOnRecord => ("T1" \notin world.lostCommits => InsertsOnRecord)
  BY DEF KeptOnRecord, Recorded
<1> QED BY <1>1, <1>2, RetiredAlways, RecordedSteps, PTL DEF Spec
=============================================================================
