--------------------------- MODULE RescheduleFlow ---------------------------
(***************************************************************************)
(* The reschedule route (reschedule.ts): a move reserves its destination   *)
(* and patches the booking's event under the etag it holds, or inserts a   *)
(* replacement under a durable fallback id when the event is gone.  A call *)
(* that meets a stale operation completes or abandons it first.            *)
(*                                                                         *)
(* The two locked inspections before and after the external read R0 are    *)
(* one step: R0 writes nothing, and the second inspection decides alone.   *)
(***************************************************************************)
EXTENDS Completion

\* The caller's expectedRevision is the one its page showed, on the first pass.
RescheduleStart(w) ==
  /\ route[w] = "reschedule" /\ At(w, "start") /\ row.status # "absent"
  /\ LET known == IF wk[w].pass = 0 THEN [wk[w] EXCEPT !.rev = row.rev] ELSE wk[w]
     IN IF EligibleReapIds # {}
          THEN Become(w, [known EXCEPT !.pc = "reap", !.todo = EligibleReapIds, !.then = "t1"])
          ELSE Become(w, [known EXCEPT !.pc = "t1"])
  /\ Outside /\ UNCHANGED row

RescheduleChanged(w) == row.status # "confirmed" \/ row.rev # wk[w].rev

RescheduleRefused(w) ==
  /\ route[w] = "reschedule" /\ At(w, "t1")
  /\ \/ RescheduleChanged(w) /\ End(w, "changed")
     \/ /\ ~RescheduleChanged(w)
        /\ row.op.kind = "cancel" \/ (row.op.kind # "none" /\ ~row.op.stale)
        /\ End(w, "in_progress")
  /\ Outside /\ UNCHANGED row

\* reconcileStale: a create or repair is completed; a reschedule's event is bumped first.
RescheduleTakesOver(w) ==
  /\ route[w] = "reschedule" /\ At(w, "t1") /\ ~RescheduleChanged(w)
  /\ row.op.stale
  /\ \/ row.op.kind \in {"create", "calendar_repair"} /\ TakeOver(w, {}, "look")
     \/ row.op.kind = "reschedule" /\ TakeOver(w, {row.op.old}, "judge")
  /\ Outside

\* Mutant: the destination is not reserved while the event moves.
T1Unreserved(w) ==
  /\ route[w] = "reschedule" /\ At(w, "t1") /\ ~RescheduleChanged(w)
  /\ row.op.kind = "none"
  /\ LET o == [BeginOp("reschedule", w) EXCEPT !.start = Target[w], !.old = row.gid,
                                               !.etag = row.etag, !.fallback = w]
     IN /\ row' = [row EXCEPT !.op = o]
        /\ Become(w, [wk[w] EXCEPT !.op = o, !.start = row.start, !.tag = row.etag, !.tries = 0,
                                   !.pc = IF row.etag = None THEN "observe" ELSE "patch"])
  /\ Outside

RescheduleT1(w) ==
  /\ route[w] = "reschedule" /\ At(w, "t1") /\ ~RescheduleChanged(w)
  /\ row.op.kind = "none"
  /\ LET o == [BeginOp("reschedule", w) EXCEPT !.start = Target[w], !.old = row.gid,
                                               !.etag = row.etag, !.fallback = w]
     IN /\ row' = [row EXCEPT !.op = o, !.reserved = Target[w]]
        /\ Become(w, [wk[w] EXCEPT !.op = o, !.start = row.start, !.tag = row.etag, !.tries = 0,
                                   !.pc = IF row.etag = None THEN "observe" ELSE "patch"])
  /\ Outside
-----------------------------------------------------------------------------
\* No etag on the row: the id is observed before anything is mutated.
Observe(w) ==
  /\ At(w, "observe")
  /\ \/ ~Live(OpOf(w).old) /\ Goto(w, "fallback")
     \/ /\ Live(OpOf(w).old) /\ Owns(w)
        /\ Become(w, [wk[w] EXCEPT !.pc = "patch", !.tag = cal[OpOf(w).old].ver])
     \/ Live(OpOf(w).old) /\ ~Owns(w) /\ Goto(w, "superseded")
  /\ Outside /\ UNCHANGED row

\* The conditional patch; its one retry treats any definite refusal as failure.
Patch(w) ==
  /\ At(w, "patch")
  /\ \E o \in {"applied", "stale", "gone", "refused", "timeout"} :
       /\ Ask(PatchReq(OpOf(w).old, OpOf(w).start, wk[w].tag), o)
       /\ CASE o = "applied" ->
                 Become(w, [wk[w] EXCEPT !.pc = "t2",
                   !.res = [ev |-> OpOf(w).old, tag |-> cal'[OpOf(w).old].ver]])
            [] o = "timeout" -> End(w, "unknown")
            [] o = "stale" /\ wk[w].tries = 0 -> Goto(w, "reobserve")
            [] o = "gone" /\ wk[w].tries = 0 -> Goto(w, "fallback")
            [] OTHER -> Goto(w, "clear")
  /\ UNCHANGED row

\* reconcilePrecondition: 412 is never a blind retry.
Reobserve(w) ==
  /\ At(w, "reobserve")
  /\ LET e == OpOf(w).old
     IN CASE Live(e) /\ cal[e].start = OpOf(w).start ->
               Become(w, [wk[w] EXCEPT !.pc = "t2", !.res = Seen(e)])
          [] Live(e) /\ cal[e].start # OpOf(w).start /\ cal[e].start = wk[w].start ->
               IF Owns(w)
                 THEN Become(w, [wk[w] EXCEPT !.pc = "patch", !.tag = cal[e].ver, !.tries = 1])
                 ELSE End(w, "superseded")
          [] OTHER -> Goto(w, "clear")
  /\ Outside /\ UNCHANGED row

InsertFallback(w) ==
  /\ At(w, "fallback")
  /\ IF Owns(w) THEN AppendInsert(w, OpOf(w).fallback) ELSE Goto(w, "superseded") /\ UNCHANGED row
  /\ Outside
-----------------------------------------------------------------------------
\* What a taken-over reschedule achieved, as Google shows it.
MovedAway(o) == Live(o.old) /\ cal[o.old].start = o.start

Judge(w) ==
  /\ At(w, "judge")
  /\ LET o == OpOf(w)
         moved == IF MovedAway(o) THEN Seen(o.old) ELSE None
     IN Become(w, IF Live(o.fallback)
                    THEN [wk[w] EXCEPT !.res = moved, !.pc = "bump", !.todo = {o.fallback},
                                               !.then = "judged"]
                    ELSE [wk[w] EXCEPT !.res = moved, !.pc = IF moved = None THEN "clear" ELSE "t2"])
  /\ Outside /\ UNCHANGED row

\* The fallback was bumped too, and wins unless it has gone.
Judged(w) ==
  /\ At(w, "judged")
  /\ LET res == IF wk[w].seen # None THEN wk[w].seen ELSE wk[w].res
     IN Become(w, [wk[w] EXCEPT !.res = res, !.pc = IF res = None THEN "clear" ELSE "t2"])
  /\ Outside /\ UNCHANGED row

RescheduleFlowStep(w) ==
  \/ RescheduleStart(w) \/ RescheduleRefused(w) \/ RescheduleTakesOver(w) \/ RescheduleT1(w)
  \/ Observe(w) \/ Patch(w) \/ Reobserve(w) \/ InsertFallback(w) \/ Judge(w) \/ Judged(w)
=============================================================================
