----------------------------- MODULE CancelFlow -----------------------------
(***************************************************************************)
(* The cancel route (cancel.ts).  A cancel deletes the booking's event and *)
(* then, in T2, the booking; if Google refuses the delete the booking      *)
(* stays (T2').  It takes over any stale operation: a finished one is      *)
(* completed first, a create whose event is absent is carried through the  *)
(* cancel and restored if the cancel fails.                                *)
(***************************************************************************)
EXTENDS Completion

CancelStart(w) ==
  /\ route[w] = "cancel" /\ At(w, "start") /\ row.status # "absent"
  /\ IF row.status = "cancelled"
       THEN BeginReap(w, "cancelled")
       ELSE Become(w, [wk[w] EXCEPT !.pc = "cancelT1",
                                    !.rev = IF wk[w].pass = 0 THEN row.rev ELSE @])
  /\ Outside /\ UNCHANGED row

CancelChanged(w) == row.status # "confirmed" \/ row.rev # wk[w].rev

\* Mutant: a cancel waits for the owner of the open operation.
CancelWaits(w) ==
  /\ At(w, "cancelT1") /\ CancelChanged(w) /\ End(w, "changed")
  /\ Outside /\ UNCHANGED row

CancelRefused(w) ==
  /\ At(w, "cancelT1")
  /\ \/ CancelChanged(w) /\ End(w, "changed")
     \/ ~CancelChanged(w) /\ row.op.kind # "none" /\ ~row.op.stale /\ End(w, "in_progress")
  /\ Outside /\ UNCHANGED row

CancelOp(w) ==
  [BeginOp("cancel", w) EXCEPT !.old = row.gid, !.etag = row.etag]

CancelT1(w) ==
  /\ At(w, "cancelT1") /\ ~CancelChanged(w) /\ row.op.kind = "none"
  /\ row' = [row EXCEPT !.op = CancelOp(w)]
  /\ Become(w, [wk[w] EXCEPT !.op = CancelOp(w), !.pc = "calendar"])
  /\ Outside

\* Every event the predecessor may hold an etag of is bumped before anything else.
CancelTakesOver(w) ==
  /\ At(w, "cancelT1") /\ ~CancelChanged(w) /\ row.op.stale
  /\ LET o == row.op
     IN TakeOver(w, IF o.old = None THEN IntendedIds(o) \cup {row.gid} ELSE IntendedIds(o),
                 IF o.kind = "cancel" THEN "calendar" ELSE "reconcile")
  /\ Outside
-----------------------------------------------------------------------------
\* reconcileInherited: what the taken-over operation achieved decides whether it is
\* completed or replaced.
Achieved(o) ==
  IF o.kind = "reschedule"
    THEN Live(o.fallback) \/ (Live(o.old) /\ cal[o.old].start = o.start)
    ELSE Live(o.event)

Reconcile(w) ==
  /\ At(w, "reconcile")
  /\ Goto(w, IF ~Achieved(OpOf(w)) THEN "replace"
             ELSE IF OpOf(w).kind = "reschedule" THEN "inherit" ELSE "look")
  /\ Outside /\ UNCHANGED row

\* completeInheritedReschedule observes again; finding nothing, it returns.
Inherit(w) ==
  /\ At(w, "inherit")
  /\ LET o == OpOf(w)
         found == IF Live(o.old) /\ cal[o.old].start = o.start THEN Seen(o.old)
                  ELSE IF Live(o.fallback) THEN Seen(o.fallback) ELSE None
     IN IF found = None THEN Restart(w, wk[w].rev + 1)
        ELSE Become(w, [wk[w] EXCEPT !.pc = "t2", !.res = found])
  /\ Outside /\ UNCHANGED row

\* Mutant: the replaced operation's attempts are dropped with it.
ReplacementBare(w) ==
  [CancelOp(w) EXCEPT !.event = OpOf(w).event, !.fallback = OpOf(w).fallback]

\* The cancel's operation keeps the intended ids and attempts of the one it replaces,
\* as they were at the takeover; an unfinished create is carried beside it.
Replacement(w) ==
  [CancelOp(w) EXCEPT !.event = OpOf(w).event, !.fallback = OpOf(w).fallback,
                      !.attempts = OpOf(w).attempts]

Carried(w) ==
  IF OpOf(w).kind = "create" /\ row.action = None
    THEN [id |-> OpOf(w).id, gen |-> OpOf(w).gen, ev |-> OpOf(w).event,
          attempts |-> OpOf(w).attempts]
    ELSE row.unfinished

Replace(w) ==
  /\ At(w, "replace")
  /\ IF Owns(w) /\ ~CancelChanged(w)
       THEN /\ row' = [row EXCEPT !.op = Replacement(w), !.unfinished = Carried(w),
                         !.reserved = IF OpOf(w).kind = "reschedule" THEN None ELSE @]
            /\ Become(w, [wk[w] EXCEPT !.op = Replacement(w), !.pc = "calendar"])
       ELSE End(w, "in_progress") /\ UNCHANGED row
  /\ Outside
-----------------------------------------------------------------------------
\* runCancelCalendarStep: retired events are reaped, then the events the cancel
\* inherited are removed, then the live one.
CancelReaps(w) ==
  /\ At(w, "calendar") /\ EligibleReapIds # {}
  /\ BeginReap(w, "inherited")
  /\ Outside /\ UNCHANGED row

ClearInherited(w) ==
  /\ At(w, "inherited") \/ (At(w, "calendar") /\ EligibleReapIds = {})
  /\ Become(w, [wk[w] EXCEPT !.pc = "removing",
                             !.todo = {OpOf(w).event, OpOf(w).fallback} \ {None, OpOf(w).old}])
  /\ Outside /\ UNCHANGED row

RemoveLook(w) ==
  /\ At(w, "removing")
  /\ \E e \in wk[w].todo :
       IF Live(e)
         THEN Become(w, [wk[w] EXCEPT !.todo = @ \ {e}, !.pc = "remove", !.at = e,
                                      !.tag = cal[e].ver, !.att = cal[e].att])
         ELSE Become(w, [wk[w] EXCEPT !.todo = @ \ {e}])
  /\ Outside /\ UNCHANGED row

\* The live event is deleted only by the operation's owner.
LiveLook(w) ==
  /\ At(w, "removing") /\ wk[w].todo = {}
  /\ LET e == OpOf(w).old
     IN \/ ~Live(e) /\ Goto(w, "t2")
        \/ Live(e) /\ ~Owns(w) /\ Goto(w, "superseded")
        \/ /\ Live(e) /\ Owns(w)
           /\ Become(w, [wk[w] EXCEPT !.pc = "delete", !.at = e, !.tag = cal[e].ver,
                                      !.att = cal[e].att])
  /\ Outside /\ UNCHANGED row

\* Only a definite outcome lets the cancel go on; a 412 on the live event is one
\* more refusal, on an inherited event it proves nothing.
Remove(w) ==
  /\ At(w, "remove") \/ At(w, "delete")
  /\ \E o \in {"applied", "stale", "gone", "refused", "timeout"} :
       /\ Ask(DeleteReq(wk[w].at, wk[w].tag), o)
       /\ CASE o \in {"applied", "gone"} ->
                 Goto(w, IF At(w, "remove") THEN "removed" ELSE "deleted")
            [] o = "refused" \/ (o = "stale" /\ At(w, "delete")) -> Goto(w, "clear")
            [] o = "timeout" \/ (o = "stale" /\ At(w, "remove")) -> End(w, "unknown")
  /\ UNCHANGED row

\* The deleted event's attempt, if an entry names it, is retired.
Removed(w) ==
  /\ At(w, "removed") \/ At(w, "deleted")
  /\ RetireAttempt(wk[w].att)
  /\ Goto(w, IF At(w, "removed") THEN "removing" ELSE "t2")
  /\ Outside

CancelFlowStep(w) ==
  \/ CancelStart(w) \/ CancelRefused(w) \/ CancelT1(w) \/ CancelTakesOver(w)
  \/ Reconcile(w) \/ Inherit(w) \/ Replace(w)
  \/ CancelReaps(w) \/ ClearInherited(w) \/ RemoveLook(w) \/ LiveLook(w)
  \/ Remove(w) \/ Removed(w)
=============================================================================
