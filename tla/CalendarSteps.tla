---------------------------- MODULE CalendarSteps ----------------------------
(***************************************************************************)
(* The calendar steps the flows share: the attributed insert (create.ts,   *)
(* repair.ts, reschedule.ts), the version bump of a takeover (ops.ts) and  *)
(* the deletion of retired events (reap.ts, superseded.ts).  Each request  *)
(* to Google is one step; what the worker does with the answer is another. *)
(***************************************************************************)
EXTENDS Booking

\* An insert carries its operation's own start: a move's, or the row's when it began.
InsertStart(w) == IF OpOf(w).kind = "reschedule" THEN OpOf(w).start ELSE wk[w].start

\* A create names its first attempt as its own insert even when the retry applied.
OwnInsert(w, v) ==
  [ev |-> wk[w].at, tag |-> v,
   att |-> IF OpOf(w).kind = "create" THEN wk[w].own.att ELSE wk[w].att]

Insert(w) ==
  /\ At(w, "insert")
  /\ \E o \in {"applied", "conflict", "refused", "timeout"} :
       /\ Ask(InsertReq(wk[w].at, InsertStart(w), wk[w].att), o)
       /\ IF o = "timeout" THEN End(w, "unknown")
          ELSE Become(w, [wk[w] EXCEPT
                 !.pc = "finish", !.got = o,
                 !.own = IF o = "applied" THEN OwnInsert(w, cal'[wk[w].at].ver) ELSE @])
  /\ UNCHANGED row

\* finishAttempt: a worker settles the attempt its own response decided, even when
\* its operation has been taken over.
Finish(w) ==
  /\ At(w, "finish")
  /\ row' = Resolved(w, IF wk[w].got = "applied" THEN "applied" ELSE "rejected")
  /\ IF wk[w].got = "applied"
       THEN Become(w, [wk[w] EXCEPT !.pc = "t2", !.res = [ev |-> wk[w].at, tag |-> wk[w].own.tag]])
       ELSE Goto(w, IF wk[w].got = "conflict" THEN "look"
                    ELSE IF OpOf(w).kind = "create" THEN "t2fail" ELSE "clear")
  /\ Outside

\* events.get of the id a create or repair intends, or after an insert's 409.
Look(w) ==
  /\ At(w, "look")
  /\ LET e == IF OpOf(w).kind = "reschedule" THEN OpOf(w).fallback ELSE OpOf(w).event
         inserts == IF OpOf(w).kind = "create" THEN 2 ELSE 1
     IN \/ /\ Live(e)
           /\ Become(w, [wk[w] EXCEPT
                !.pc = "t2", !.res = Seen(e),
                !.own = IF OpOf(w).kind = "reschedule"
                          THEN [ev |-> e, att |-> wk[w].att, tag |-> cal[e].ver] ELSE @])
           /\ UNCHANGED row
        \/ /\ ~Live(e) /\ OpOf(w).kind # "reschedule" /\ wk[w].tries < inserts
           /\ IF Owns(w) THEN AppendInsert(w, e)
              ELSE End(w, IF wk[w].tries = 0 THEN "in_progress" ELSE "unknown") /\ UNCHANGED row
        \/ /\ ~Live(e) /\ (OpOf(w).kind = "reschedule" \/ wk[w].tries >= inserts)
           /\ IF OpOf(w).kind = "create" THEN End(w, "unknown") ELSE Goto(w, "clear")
           /\ UNCHANGED row
  /\ Outside
-----------------------------------------------------------------------------
\* bumpVersion over the ids in todo: observe, re-check ownership, bump.
Bump(w) ==
  /\ At(w, "bump")
  /\ \/ wk[w].todo = {} /\ Goto(w, wk[w].then)
     \/ \E e \in wk[w].todo :
          \/ /\ ~Live(e)
             /\ Become(w, [wk[w] EXCEPT !.todo = @ \ {e}, !.seen = None])
          \/ /\ Live(e) /\ Owns(w)
             /\ Become(w, [wk[w] EXCEPT !.pc = "bumping", !.at = e, !.tag = cal[e].ver,
                                        !.todo = @ \ {e}])
          \/ Live(e) /\ ~Owns(w) /\ End(w, "superseded")
  /\ Outside /\ UNCHANGED row

\* A 412 is as good as a bump: the etag is one the predecessor cannot hold.
Bumping(w) ==
  /\ At(w, "bumping")
  /\ \E o \in {"applied", "stale", "gone", "refused", "timeout"} :
       /\ Ask(BumpReq(wk[w].at, wk[w].tag), o)
       /\ IF o \in {"refused", "timeout"} THEN End(w, "unknown")
          ELSE Become(w, [wk[w] EXCEPT
                 !.pc = "bump",
                 !.seen = IF cal'[wk[w].at].live
                            THEN [ev |-> wk[w].at, tag |-> cal'[wk[w].at].ver] ELSE None])
  /\ UNCHANGED row
-----------------------------------------------------------------------------
\* reapRetiredIds: the batch is chosen under the lock, then inspected outside it.
\* A superseded worker's cleanup of its own event is the same sweep of one event.
BeginReap(w, next) ==
  Become(w, [wk[w] EXCEPT !.pc = "reap", !.todo = EligibleReapIds, !.then = next])

Reap(w) ==
  /\ At(w, "reap")
  /\ \E e \in wk[w].todo :
       IF Live(e)
         THEN Become(w, [wk[w] EXCEPT !.pc = "sweep", !.at = e, !.tag = cal[e].ver,
                                      !.att = cal[e].att, !.tries = 0, !.todo = @ \ {e}])
         ELSE Become(w, [wk[w] EXCEPT !.todo = @ \ {e}])
  /\ Outside /\ UNCHANGED row

Sweep(w) ==
  /\ At(w, "sweep")
  /\ \E o \in {"applied", "stale", "gone", "refused", "timeout"} :
       /\ Ask(DeleteReq(wk[w].at, wk[w].tag), o)
       /\ Goto(w, IF o \in {"applied", "gone"} THEN "retire"
                  ELSE IF o = "stale" /\ wk[w].tries = 0 THEN "sweepLook" ELSE "reap")
  /\ UNCHANGED row

\* 412: the same attempt's event under a new etag is deleted once more; an event of
\* another attempt, or none, proves the observed one is gone.
SweepLook(w) ==
  /\ At(w, "sweepLook")
  /\ IF Live(wk[w].at) /\ cal[wk[w].at].att = wk[w].att
       THEN Become(w, [wk[w] EXCEPT !.pc = "sweep", !.tag = cal[wk[w].at].ver, !.tries = 1])
       ELSE Goto(w, "retire")
  /\ Outside /\ UNCHANGED row

Retire(w) ==
  /\ At(w, "retire")
  /\ RetireAttempt(wk[w].att)
  /\ Goto(w, "reap")
  /\ Outside

SharedStep(w) ==
  \/ Insert(w) \/ Finish(w) \/ Look(w) \/ Bump(w) \/ Bumping(w)
  \/ Reap(w) \/ Sweep(w) \/ SweepLook(w) \/ Retire(w)
=============================================================================
