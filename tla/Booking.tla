------------------------------- MODULE Booking -------------------------------
(***************************************************************************)
(* One booking, the Google Calendar events made for it, and the calls that *)
(* work on both.  This module holds the state, the conditional updates of  *)
(* the row (rows.ts, ops.ts, pg-store.ts) and what Google does with a      *)
(* request.  CalendarSteps, Completion and the flows build on it.          *)
(*                                                                         *)
(* A worker is one call of a lifecycle route.  What it mints (an opId, an  *)
(* intended event id) is named by the worker itself; an attemptId is       *)
(* <<worker, n>>.  Origin is the call, long gone, that made the booking    *)
(* when the history starts with one.  A worker that never steps again has  *)
(* crashed, or a read of Google failed and it answered 503: neither writes *)
(* anything.                                                               *)
(*                                                                         *)
(* Only insert attempts are kept in the ledger: no code reads the outcome  *)
(* of a patch, bump or delete attempt, whose writing is an ownership check.*)
(***************************************************************************)
EXTENDS Integers, FiniteSets

CONSTANTS
  Workers,     \* the calls
  Target,      \* the start a reschedule asks for
  Origin,      \* the finished call that created the booking in "made" and "failed"
  T0,          \* the start the booking is created with
  None,        \* SQL NULL
  Scenarios    \* how the history may start ("none", "made" or "failed"), with what calls
               \* and in what world

VARIABLES
  row,    \* the bookings row
  cal,    \* event id -> the event under it
  late,   \* requests that timed out and that Google may still execute
  world,  \* what may go wrong, the same for the whole behaviour: faults, which Google
          \* outcomes occur (subset of {"refused", "timeout"}); lostCommits, which
          \* COMMITs may fail or lose their response, a create's first ("T1"), an ending
          \* transaction ("T2"), both or neither; reuseLands, whether Google accepts an
          \* insert under a deleted event's id; hostEdits, how many times the host deletes
          \* a Marlo event by hand
  route,  \* worker -> what call it is: create, reschedule, cancel, notify or read
  wk,     \* worker -> how far it has got and what it remembers
  edits   \* host deletions so far

given == <<world, route>>
vars == <<row, cal, late, given, wk, edits>>

Ids == Workers \cup {Origin}
Starts == {T0} \cup {Target[w] : w \in Workers}
Attempts == Ids \X Nat

\* What the columns and a worker's memory hold.
Ledger == SUBSET [att : Attempts, ev : Ids, out : {"unresolved", "applied", "rejected"}]
Creations == [id : Ids, gen : Nat, ev : Ids, attempts : Ledger]      \* unfinished_creation
EventSeen == [ev : Ids, tag : Nat \cup {None}]                       \* what a GET or a 2xx shows
OwnInserts == [ev : Ids, att : Attempts, tag : Nat \cup {None}]
Actions == {"confirm", "reschedule", "cancel"}
Routes == {"create", "reschedule", "cancel", "notify", "read", "idle"}
Worlds == [faults : SUBSET {"refused", "timeout"}, lostCommits : SUBSET {"T1", "T2"},
           reuseLands : BOOLEAN, hostEdits : Nat]
Answers == {"created", "moved", "changed", "cancelled", "ok", "failed", "in_progress", "unknown",
            "superseded"}
Nexts == Answers \cup {"look", "judge", "judged", "calendar", "reconcile", "t1", "inherited", "go"}

ASSUME OriginIsNoWorker == Origin \notin Workers
ASSUME StartsAreTimes == Starts \subseteq Int
ASSUME NoneIsNoValue ==
  None \notin Ids \cup Starts \cup Nat \cup Attempts \cup Creations \cup EventSeen \cup OwnInserts
               \cup Actions \cup Nexts
ASSUME ScenariosAreWellFormed ==
  Scenarios \subseteq [history : {"none", "made", "failed"}, world : Worlds,
                       calls : [Workers -> Routes]]
-----------------------------------------------------------------------------
\* The row.

NoOp == [kind |-> "none", id |-> None, gen |-> 0, stale |-> FALSE, start |-> None, event |-> None,
         old |-> None, etag |-> None, fallback |-> None, attempts |-> {}]

BeginOp(kind, id) == [NoOp EXCEPT !.kind = kind, !.id = id, !.gen = 1]

Attempt(a, e) == [att |-> a, ev |-> e, out |-> "unresolved"]

\* Mutant: clearing the operation forgets the attempts it still held.
RetainedNothing == row.unresolved

\* C6.3b clearing rule: what an update that clears the operation keeps of its attempts.
Retained ==
  row.unresolved \cup
    {[att |-> a.att, ev |-> a.ev] : a \in {x \in row.op.attempts : x.out = "unresolved"}}

LiveId == IF row.status = "confirmed" THEN row.gid ELSE None

IntendedIds(o) == {o.event, o.fallback, o.old} \ {None}

EligibleReapIds == {u.ev : u \in row.unresolved} \ {LiveId}

\* Two minutes pass since the operation's owner last touched it.
TimePasses ==
  /\ row.op.kind # "none" /\ ~row.op.stale
  /\ row' = [row EXCEPT !.op.stale = TRUE]
  /\ UNCHANGED <<cal, late, wk, edits>>

\* Mutant: a takeover keeps the generation.
TakenOverSilently == [row.op EXCEPT !.stale = FALSE]

TakenOver == [row.op EXCEPT !.gen = @ + 1, !.stale = FALSE]
-----------------------------------------------------------------------------
\* The workers.

NewWorker ==
  [pc |-> "start", op |-> NoOp, rev |-> 0, pass |-> 0, start |-> None, n |-> 0,
   at |-> None, tag |-> None, att |-> None, got |-> None,    \* the request in hand
   seen |-> None, tries |-> 0, todo |-> {}, then |-> None,   \* and what follows it
   res |-> None,                                             \* the event T2 records
   own |-> None,                                             \* the insert it issued itself
   wrote |-> FALSE, answer |-> None]

Become(w, r) == wk' = [wk EXCEPT ![w] = r]
Goto(w, p) == Become(w, [wk[w] EXCEPT !.pc = p])
End(w, a) == Become(w, [NewWorker EXCEPT !.pc = "done", !.answer = a, !.wrote = wk[w].wrote])

At(w, p) == wk[w].pc = p
OpOf(w) == wk[w].op

\* Mutant: any open operation of the kind passes for the worker's own.
OwnsByKind(w) == row.op.kind = OpOf(w).kind

\* The condition of every owned update: pending_op names my opId and my gen.
Owns(w) == row.op.id = OpOf(w).id /\ row.op.gen = OpOf(w).gen

\* appendAttempt for an insert: durable, and conditioned on ownership.
AppendInsert(w, e) ==
  LET a == <<w, wk[w].n + 1>>
      mine == IF OpOf(w).kind = "create" /\ wk[w].own = None
                THEN [ev |-> e, att |-> a, tag |-> None] ELSE wk[w].own
  IN /\ row' = [row EXCEPT !.op.attempts = @ \cup {Attempt(a, e)}]
     /\ Become(w, [wk[w] EXCEPT !.pc = "insert", !.at = e, !.att = a, !.n = @ + 1,
                                !.tries = @ + 1, !.own = mine])

\* resolveAttempt matches the opId and, deliberately, no generation.
Resolved(w, outcome) ==
  IF row.op.id # OpOf(w).id THEN row
  ELSE [row EXCEPT !.op.attempts =
          {IF x.att = wk[w].att /\ x.out = "unresolved" THEN [x EXCEPT !.out = outcome] ELSE x
             : x \in @}]

RetireAttempt(a) == row' = [row EXCEPT !.unresolved = {u \in @ : u.att # a}]

\* Takeover of the stale operation on the row; the worker continues at p, or bumps
\* the events in ids first.
TakeOver(w, ids, p) ==
  /\ row' = [row EXCEPT !.op = TakenOver]
  /\ Become(w, [wk[w] EXCEPT !.op = TakenOver, !.start = row.start, !.todo = ids, !.then = p,
                             !.pc = IF ids = {} THEN p ELSE "bump", !.tries = 0, !.own = None])
-----------------------------------------------------------------------------
\* Google Calendar, as the adapters see it.  ver is the etag: every change of
\* an event, its deletion included, gives it one it never had.

Live(e) == e # None /\ cal[e].live
Seen(e) == [ev |-> e, tag |-> cal[e].ver]

InsertReq(e, s, a) == [kind |-> "insert", ev |-> e, start |-> s, att |-> a, match |-> None]
PatchReq(e, s, v) == [kind |-> "patch", ev |-> e, start |-> s, att |-> None, match |-> v]
BumpReq(e, v) == PatchReq(e, None, v)     \* a patch that only records opId:gen
DeleteReq(e, v) == [kind |-> "delete", ev |-> e, start |-> None, att |-> None, match |-> v]

Verdict(r) ==
  IF r.kind = "insert"
    THEN IF cal[r.ev].live \/ (cal[r.ev].ver > 0 /\ ~world.reuseLands) THEN "conflict" ELSE "applied"
    ELSE IF ~cal[r.ev].live THEN "gone" ELSE IF cal[r.ev].ver # r.match THEN "stale" ELSE "applied"

Executed(r) ==
  IF Verdict(r) # "applied" THEN cal
  ELSE [cal EXCEPT ![r.ev] =
          [live  |-> r.kind # "delete",
           ver   |-> cal[r.ev].ver + 1,
           start |-> IF r.start = None THEN cal[r.ev].start ELSE r.start,
           att   |-> IF r.kind = "insert" THEN r.att ELSE cal[r.ev].att]]

\* Google's answer o to a request: its verdict, a 4xx that proves the request did
\* nothing, or an outcome that proves nothing (429, 5xx, timeout).
Ask(r, o) ==
  \/ /\ o = Verdict(r)
     /\ cal' = Executed(r)
     /\ UNCHANGED <<late, edits>>
  \/ /\ o = "refused" /\ "refused" \in world.faults
     /\ UNCHANGED <<cal, late, edits>>
  \/ /\ o = "timeout" /\ "timeout" \in world.faults
     /\ late' = late \cup {r}
     /\ UNCHANGED <<cal, edits>>

\* A request its worker gave up on executes after all.
LateExecutes ==
  \E r \in late :
    /\ cal' = Executed(r)
    /\ late' = late \ {r}
    /\ UNCHANGED <<row, wk, edits>>

HostDeletes ==
  /\ edits < world.hostEdits
  /\ \E e \in Ids : Live(e) /\ cal' = Executed(DeleteReq(e, cal[e].ver))
  /\ edits' = edits + 1
  /\ UNCHANGED <<row, late, wk>>

Outside == UNCHANGED <<cal, late, edits>>   \* a step that does not reach Google
=============================================================================
