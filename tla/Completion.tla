----------------------------- MODULE Completion -----------------------------
(***************************************************************************)
(* How an operation ends: the completing and clearing transactions of the  *)
(* four kinds (T2, T2'), the settlement of a COMMIT whose response was     *)
(* lost (settle.ts), what a worker does when its operation is no longer    *)
(* its own (superseded.ts), and where the call goes from there.            *)
(***************************************************************************)
EXTENDS CalendarSteps

Larger(a, b) == IF a > b THEN a ELSE b

\* Mutant: every inherited operation starts the call over.
RestartAlways(w, rev) ==
  Become(w, [NewWorker EXCEPT !.pass = wk[w].pass + 1, !.rev = rev, !.n = wk[w].n])

\* A call that completed an operation it inherited starts over, once.
Restart(w, rev) ==
  IF wk[w].pass > 0 THEN End(w, "in_progress")
  ELSE Become(w, [NewWorker EXCEPT !.pass = 1, !.rev = rev, !.n = wk[w].n])

\* An inherited create or repair is done (C6.4a): the call that met it goes on.
Continue(w) ==
  CASE route[w] = "create" -> End(w, "created")
    [] route[w] = "notify" -> IF wk[w].pass = 0 THEN Restart(w, 0) ELSE End(w, "ok")
    [] OTHER -> Restart(w, wk[w].rev)

\* The completing transaction committed.
Done(w) ==
  CASE OpOf(w).kind \in {"create", "calendar_repair"} -> Continue(w)
    [] OpOf(w).kind = "cancel" -> End(w, "cancelled")
    [] OpOf(w).kind = "reschedule" /\ route[w] = "cancel" -> Restart(w, wk[w].rev + 1)
    [] OTHER -> End(w, IF OpOf(w).start = Target[w] THEN "moved" ELSE "changed")
-----------------------------------------------------------------------------
\* What each completing update writes; every one nulls pending_op and retains the
\* unresolved attempts.
Ended == [row EXCEPT !.op = NoOp, !.unresolved = Retained]

CompletedCreate(w, outcome) ==
  [Ended EXCEPT !.action = "confirm", !.cal = outcome, !.unfinished = None,
                !.etag = IF outcome = "created" THEN wk[w].res.tag ELSE @]

CompletedRepair(w) == [Ended EXCEPT !.cal = "created", !.etag = wk[w].res.tag]

\* Mutant: a completed move keeps its reservation.
CompletedKeepingTime(w) ==
  [Ended EXCEPT !.start = OpOf(w).start, !.gid = wk[w].res.ev, !.etag = wk[w].res.tag,
                !.cal = "created", !.rev = @ + 1, !.action = "reschedule"]

CompletedReschedule(w) ==
  [Ended EXCEPT !.start = OpOf(w).start, !.gid = wk[w].res.ev, !.etag = wk[w].res.tag,
                !.cal = "created", !.rev = @ + 1, !.action = "reschedule", !.reserved = None]

CompletedCancel ==
  [Ended EXCEPT !.status = "cancelled", !.cal = "deleted", !.rev = @ + 1, !.action = "cancel",
                !.unfinished = None, !.reserved = None]

Completed(w) ==
  CASE OpOf(w).kind = "create" -> CompletedCreate(w, IF At(w, "t2") THEN "created" ELSE "failed")
    [] OpOf(w).kind = "calendar_repair" -> CompletedRepair(w)
    [] OpOf(w).kind = "reschedule" -> CompletedReschedule(w)
    [] OpOf(w).kind = "cancel" -> CompletedCancel

\* Superseded, and where the flow has nothing left to reconcile.
NotOwner(w) ==
  IF OpOf(w).kind = "reschedule" /\ OpOf(w).id # w
    THEN IF route[w] = "cancel" THEN Restart(w, wk[w].rev + 1) ELSE End(w, "in_progress")
    ELSE Become(w, [wk[w] EXCEPT !.pc = "superseded", !.got = IF At(w, "t2") THEN "applied" ELSE @])

\* T2, and T2' of a create.  The commit may fail, or succeed without an answer.
T2(w) ==
  /\ At(w, "t2") \/ At(w, "t2fail")
  /\ \/ /\ ~Owns(w)
        /\ NotOwner(w)
        /\ UNCHANGED row
     \/ /\ Owns(w)
        /\ row' = Completed(w)
        /\ Done(w)
     \/ /\ "T2" \in world.lostCommits /\ Owns(w)
        /\ row' = Completed(w)
        /\ Become(w, [wk[w] EXCEPT !.pc = "settle", !.wrote = TRUE])
     \/ /\ "T2" \in world.lostCommits
        /\ \E p \in {"settle", "rolledBack"} : Goto(w, p)
        /\ UNCHANGED row
  /\ Outside

\* Mutant: a move expects the revision after the one it wrote.
DidCommitLate(w) ==
  CASE OpOf(w).kind = "create" -> row.action # None /\ row.op.id # OpOf(w).id
    [] OpOf(w).kind = "calendar_repair" -> row.cal = "created" /\ row.op.id # OpOf(w).id
    [] OpOf(w).kind = "reschedule" -> row.start = OpOf(w).start /\ row.rev > wk[w].rev + 1
    [] OpOf(w).kind = "cancel" -> row.status = "cancelled"

\* didCommit, each kind's own reading of the row after the lock is reacquired.
DidCommit(w) ==
  CASE OpOf(w).kind = "create" -> row.action # None /\ row.op.id # OpOf(w).id
    [] OpOf(w).kind = "calendar_repair" -> row.cal = "created" /\ row.op.id # OpOf(w).id
    [] OpOf(w).kind = "reschedule" -> row.start = OpOf(w).start /\ row.rev > wk[w].rev
    [] OpOf(w).kind = "cancel" -> row.status = "cancelled"

Settle(w) ==
  /\ At(w, "settle")
  /\ IF DidCommit(w) THEN Done(w) ELSE Goto(w, "rolledBack")
  /\ Outside /\ UNCHANGED row

\* Only a reschedule undoes what it did: it patches its event back or deletes its
\* fallback, after one more ownership check and under the etag it was given.
RolledBack(w) ==
  /\ At(w, "rolledBack")
  /\ IF /\ OpOf(w).kind = "reschedule" /\ OpOf(w).id = w /\ Owns(w)
        /\ wk[w].own # None \/ wk[w].res.ev = OpOf(w).old
       THEN Goto(w, "compensate")
       ELSE End(w, "failed")
  /\ Outside /\ UNCHANGED row

Compensate(w) ==
  /\ At(w, "compensate")
  /\ \E o \in {"applied", "stale", "gone", "refused", "timeout"} :
       Ask(IF wk[w].own # None THEN DeleteReq(wk[w].own.ev, wk[w].own.tag)
           ELSE PatchReq(OpOf(w).old, wk[w].start, wk[w].res.tag), o)
  /\ End(w, "failed")
  /\ UNCHANGED row
-----------------------------------------------------------------------------
\* The clearing transactions: abandonReschedule, clearRepair, cancelT2Prime.

\* C6.7: the unfinished create a cancel carried is an operation again, under a
\* generation its first worker cannot hold and already stale.
RestoredCreate ==
  [NoOp EXCEPT !.kind = "create", !.id = row.unfinished.id, !.stale = TRUE,
               !.gen = Larger(row.unfinished.gen, row.op.gen) + 1, !.event = row.unfinished.ev,
               !.attempts = row.unfinished.attempts \cup
                              {x \in row.op.attempts : x.out = "unresolved"}]

\* Mutant: a failed cancel forgets the creation it carried.
ClearedBare(w) == [Ended EXCEPT !.reserved = None]

Cleared(w) ==
  CASE OpOf(w).kind = "calendar_repair" -> Ended
    [] OpOf(w).kind = "reschedule" -> [Ended EXCEPT !.reserved = None]
    [] OpOf(w).kind = "cancel" /\ row.unfinished = None -> [Ended EXCEPT !.reserved = None]
    [] OpOf(w).kind = "cancel" /\ row.unfinished # None -> [Ended EXCEPT !.op = RestoredCreate]

AfterClear(w) ==
  IF OpOf(w).kind = "calendar_repair" THEN Continue(w)
  ELSE IF OpOf(w).kind = "reschedule" /\ OpOf(w).id # w THEN Restart(w, wk[w].rev)
  ELSE End(w, "failed")

Clear(w) ==
  /\ At(w, "clear")
  /\ \/ row' = (IF Owns(w) THEN Cleared(w) ELSE row) /\ AfterClear(w)
     \/ "T2" \in world.lostCommits /\ UNCHANGED row /\ End(w, "failed")
  /\ Outside
-----------------------------------------------------------------------------
\* reconcileSuperseded: one locked read decides the answer and, apart from it,
\* whether the worker's own event may be cleaned up.

CleanupEligible(w) ==
  /\ wk[w].own # None
  /\ wk[w].own.ev # LiveId
  /\ wk[w].own.ev \notin IntendedIds(row.op)
  /\ \E u \in row.unresolved : u.att = wk[w].own.att

\* Mutant: any create whose operation has left the row is taken for finished.
ReachedByOp(w) ==
  CASE OpOf(w).kind = "create" -> row.op.id # OpOf(w).id
    [] OpOf(w).kind = "calendar_repair" -> row.cal = "created"
    [] OpOf(w).kind = "reschedule" ->
         row.status = "confirmed" /\ row.rev > 1 /\ row.start = OpOf(w).start
    [] OpOf(w).kind = "cancel" -> row.status = "cancelled"

Reached(w) ==
  CASE OpOf(w).kind = "create" -> row.action # None /\ row.op.id # OpOf(w).id
    [] OpOf(w).kind = "calendar_repair" -> row.cal = "created"
    [] OpOf(w).kind = "reschedule" ->
         row.status = "confirmed" /\ row.rev > 1 /\ row.start = OpOf(w).start
    [] OpOf(w).kind = "cancel" -> row.status = "cancelled"

\* A create that is not finalized is taken over or replaced: never a terminal answer.
CreateStillOpen(w) == row.op.id = OpOf(w).id \/ row.unfinished # None \/ row.op.kind # "none"

SupersededAnswer(w) ==
  CASE Reached(w) /\ OpOf(w).kind = "reschedule" -> "moved"
    [] Reached(w) /\ OpOf(w).kind = "cancel" -> "cancelled"
    [] Reached(w) /\ OpOf(w).kind \in {"create", "calendar_repair"} -> "go"
    [] ~Reached(w) /\ OpOf(w).kind = "create" /\ CreateStillOpen(w) -> "in_progress"
    [] ~Reached(w) /\ OpOf(w).kind = "calendar_repair" -> "failed"
    [] OTHER -> "superseded"

\* A flow resumes where it was, or the call answers.
GoOn(w, next) ==
  CASE next = "go" -> Continue(w)
    [] next \in {"t1", "inherited"} -> Goto(w, next)
    [] OTHER -> End(w, next)

\* A definite 2xx may delete the event it made; a definite refusal made none.
Superseded(w) ==
  /\ At(w, "superseded")
  /\ LET own == wk[w].own
         next == [wk[w] EXCEPT !.todo = {}, !.then = SupersededAnswer(w), !.att = own.att]
     IN CASE CleanupEligible(w) /\ wk[w].got = "applied" /\ own.tag # None ->
               Become(w, [next EXCEPT !.pc = "sweep", !.at = own.ev, !.tag = own.tag, !.tries = 0])
          [] CleanupEligible(w) /\ wk[w].got # "applied" -> Become(w, [next EXCEPT !.pc = "retire"])
          [] OTHER -> GoOn(w, SupersededAnswer(w))
  /\ Outside /\ UNCHANGED row

Swept(w) ==
  /\ At(w, "reap") /\ wk[w].todo = {}
  /\ GoOn(w, wk[w].then)
  /\ Outside /\ UNCHANGED row

EndingStep(w) ==
  \/ T2(w) \/ Settle(w) \/ RolledBack(w) \/ Compensate(w) \/ Clear(w)
  \/ Superseded(w) \/ Swept(w)
=============================================================================
