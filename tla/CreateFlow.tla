----------------------------- MODULE CreateFlow -----------------------------
(***************************************************************************)
(* The create route and its replays under one key (create.ts), and the     *)
(* calls that finish or repair a creation: notify (route-order.ts N-1, N-2 *)
(* and repair.ts) and the reads that reap (readBooking in service.ts).     *)
(*                                                                         *)
(* Fences, keys and occupancy are HostBookings' subject: here a create     *)
(* whose key has no row inserts it.                                        *)
(***************************************************************************)
EXTENDS Completion

FreshRow(w) ==
  [status |-> "confirmed", start |-> T0, rev |-> 1, action |-> None, gid |-> w, etag |-> None,
   cal |-> "pending", reserved |-> None, unfinished |-> None, unresolved |-> {},
   op |-> [BeginOp("create", w) EXCEPT !.event = w, !.attempts = {Attempt(<<w, 1>>, w)}]]

\* T1's insert holds the operation and its first attempt.
Created(w, o) ==
  [wk[w] EXCEPT !.pc = "insert", !.op = o, !.start = T0, !.at = w, !.att = <<w, 1>>, !.n = 1,
                !.tries = 1, !.own = [ev |-> w, att |-> <<w, 1>>, tag |-> None]]

CreateT1(w) ==
  /\ route[w] = "create" /\ At(w, "start") /\ row.status = "absent"
  /\ \/ row' = FreshRow(w) /\ Become(w, Created(w, row'.op))
     \/ "T1" \in world.lostCommits /\ row' \in {row, FreshRow(w)} /\ Goto(w, "lost")
  /\ Outside

\* C9: a key whose row exists, at L0, under T1's lock or after a lost T1.
Replay(w) ==
  /\ row.status # "absent"
  /\ \/ /\ row.op.kind = "create" /\ row.op.stale
        /\ TakeOver(w, {}, "look")
     \/ /\ row.op.kind = "create" /\ ~row.op.stale
        /\ End(w, "in_progress")
        /\ UNCHANGED row
     \/ /\ row.op.kind # "create"
        /\ End(w, IF row.action # None THEN "created" ELSE "in_progress")
        /\ UNCHANGED row

CreateReplay(w) ==
  /\ route[w] = "create" /\ At(w, "start")
  /\ Replay(w)
  /\ Outside

\* reconcileT1 knows its own row by opId, whatever generation the operation has now.
ReconcileT1(w) ==
  /\ At(w, "lost")
  /\ \/ row.status = "absent" /\ End(w, "failed") /\ UNCHANGED row
     \/ /\ row.op.kind = "create" /\ row.op.id = w
        /\ Become(w, Created(w, row.op))
        /\ UNCHANGED row
     \/ ~(row.op.kind = "create" /\ row.op.id = w) /\ Replay(w)
  /\ Outside
-----------------------------------------------------------------------------
\* N-1: a stale create or repair is taken over and completed; any other open
\* operation is left to the lifecycle routes.
NotifyRecovers(w) ==
  /\ route[w] = "notify" /\ At(w, "start") /\ wk[w].pass = 0 /\ row.op.kind # "none"
  /\ IF row.op.kind \in {"create", "calendar_repair"} /\ row.op.stale
       THEN TakeOver(w, {}, "look")
       ELSE End(w, "in_progress") /\ UNCHANGED row
  /\ Outside

\* N-2: a failed calendar is repaired, a cancelled row's retired events are reaped.
NotifyRepairs(w) ==
  /\ route[w] = "notify" /\ At(w, "start")
  /\ row.status # "absent" /\ (wk[w].pass = 1 \/ row.op.kind = "none")
  /\ \/ /\ row.status = "confirmed" /\ row.cal = "failed" /\ row.op.kind = "none"
        /\ row' = [row EXCEPT !.op = [BeginOp("calendar_repair", w) EXCEPT !.event = row.gid]]
        /\ Become(w, [wk[w] EXCEPT !.pass = 1, !.pc = "look", !.op = row'.op, !.start = row.start])
     \/ /\ row.status = "cancelled" /\ EligibleReapIds # {}
        /\ BeginReap(w, "ok")
        /\ UNCHANGED row
     \/ /\ ~(row.status = "confirmed" /\ row.cal = "failed" /\ row.op.kind = "none")
        /\ ~(row.status = "cancelled" /\ EligibleReapIds # {})
        /\ End(w, "ok")
        /\ UNCHANGED row
  /\ Outside

Read(w) ==
  /\ route[w] = "read" /\ At(w, "start") /\ row.status # "absent"
  /\ IF EligibleReapIds # {} THEN BeginReap(w, "ok") ELSE End(w, "ok")
  /\ Outside /\ UNCHANGED row

CreateFlowStep(w) ==
  \/ CreateT1(w) \/ CreateReplay(w) \/ ReconcileT1(w)
  \/ NotifyRecovers(w) \/ NotifyRepairs(w) \/ Read(w)
=============================================================================
