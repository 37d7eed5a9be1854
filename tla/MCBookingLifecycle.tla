------------------------- MODULE MCBookingLifecycle -------------------------
(* Scenarios: two or three calls on one booking created for time 0.  Moves  *)
(* ask for times 1 and 2, so that two of them never agree by chance.        *)
EXTENDS BookingLifecycle, TLC

CONSTANTS wa, wb, wc

World(faults, lost, reuse, n) ==
  [faults |-> faults, lostCommits |-> lost, reuseLands |-> reuse, hostEdits |-> n]
Both == {"refused", "timeout"}
Commits == {"T1", "T2"}
Quiet == World(Both, {}, FALSE, 0)    \* nothing but Google's refusals and timeouts
Slow == World({"timeout"}, {}, FALSE, 0)
Faulty == World(Both, Commits, FALSE, 1)
Calm == World({}, {}, FALSE, 0)
OnlyCommits == World({}, Commits, FALSE, 0)

Scene(h, w, calls) == [history |-> h, world |-> w, calls |-> calls]
Finished(w, calls) == {Scene("made", w, calls), Scene("failed", w, calls)}

MoveAndCancel == (wb :> "reschedule") @@ (wc :> "cancel")
MoveAndMove == (wb :> "reschedule") @@ (wc :> "reschedule")
OneMove == (wb :> "reschedule") @@ (wc :> "idle")

Replayed(w) == {Scene("none", w, (wa :> "create") @@ (wb :> "create") @@ (wc :> "cancel"))}
Moves == {Scene("none", Quiet, (wa :> "create") @@ MoveAndCancel)}
         \cup Replayed(World(Both, {"T2"}, FALSE, 0))
         \cup Finished(Slow, (wa :> "notify") @@ MoveAndCancel)
         \cup Finished(Faulty, (wa :> "notify") @@ OneMove)
         \cup Finished(Faulty, (wa :> "read") @@ MoveAndMove)
Interrupted == Finished(Faulty, (wa :> "idle") @@ MoveAndCancel)
               \cup Replayed(World({"timeout"}, {"T1"}, TRUE, 0))
StrandedFallback == {Scene("failed", Calm, MoveAndMove)}
SettleFailed == {Scene("made", OnlyCommits, MoveAndMove)}
TwoOwners == {Scene("none", OnlyCommits, (wa :> "create") @@ (wb :> "notify"))}

MCTarget == [w \in Workers |-> IF w = wb THEN 1 ELSE 2]
=============================================================================
