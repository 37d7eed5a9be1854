---------------------------- MODULE HostBookings ----------------------------
(***************************************************************************)
(* The bookings of one host, at the grain of the transactions that run     *)
(* under the per-host advisory lock (lib/booking/pg-store.ts).  A create   *)
(* request is looked up (L0), reads the host's external calendar (R0) with *)
(* no lock held, and decides under the lock (T1); moves reserve their      *)
(* destination in their own T1; cancels release what they abandon.         *)
(*                                                                         *)
(* A transaction is one action, because the lock serializes them.  The     *)
(* calendar calls between transactions are BookingLifecycle's subject:     *)
(* here they are the freedom to run the next transaction at any later time *)
(* or never.  Updates conditioned on an operation's opId and gen change    *)
(* nothing when the condition fails, so only the owner's update appears.   *)
(* calendar_repair touches neither interval nor key and is left out.       *)
(***************************************************************************)
EXTENDS Integers, FiniteSets

CONSTANTS
  Requests,   \* create requests; a request that inserts a row names it
  Keys,       \* idempotency keys, of one owner
  Prints,     \* create fingerprints: event type, start and invitee
  Windows,    \* intervals a booking may hold
  WindowOf,   \* the window a fingerprint's start and event type determine
  None        \* SQL NULL

ASSUME WindowsAreIntervals == Windows \subseteq [start : Int, end : Int]
ASSUME WindowOfType == WindowOf \in [Prints -> Windows]
ASSUME NoneIsNoWindow == None \notin Windows

VARIABLES
  status,     \* bookings: one row per request that inserts one
  window,     \* bookings.start, bookings.end
  reserved,   \* bookings.reserved_start, reserved_end
  op,         \* pending_op.kind
  to,         \* a reschedule's newStart, newEnd
  finalized,  \* the bookings whose create_response is set
  carried,    \* those whose pending cancel or create carries an unfinished creation
  fences,     \* create_rejections: the (key, fingerprint) pairs refused for good
  key, print, \* what each create request carries, and so the row it inserts
  stage,      \* how far each request has got
  decided,    \* requests the gate or R0 refused before the lock was taken
  target,     \* the booking whose calendar step the request runs
  answer      \* what the request answered

columns == <<status, window, reserved, op, to, finalized, carried>>
request == <<key, print, stage, decided, target, answer>>
vars == <<columns, fences, request>>

TypeOK ==
  /\ status \in [Requests -> {"absent", "confirmed", "cancelled"}]
  /\ window \in [Requests -> Windows]
  /\ reserved \in [Requests -> Windows \cup {None}]
  /\ op \in [Requests -> {"none", "create", "reschedule", "cancel"}]
  /\ to \in [Requests -> Windows \cup {None}]
  /\ finalized \subseteq Requests
  /\ carried \subseteq Requests
  /\ fences \subseteq Keys \X Prints
  /\ key \in [Requests -> Keys]
  /\ print \in [Requests -> Prints]
  /\ stage \in [Requests -> {"new", "r0", "t1", "lost", "calendar", "done"}]
  /\ decided \subseteq Requests
  /\ target \in [Requests -> Requests]
  /\ answer \in [Requests -> {"none", "created", "rejected", "key_reused", "retry"}]

Init ==
  /\ status = [b \in Requests |-> "absent"]
  /\ key \in [Requests -> Keys]
  /\ print \in [Requests -> Prints]
  /\ window = [b \in Requests |-> WindowOf[print[b]]]
  /\ reserved = [b \in Requests |-> None]
  /\ op = [b \in Requests |-> "none"]
  /\ to = [b \in Requests |-> None]
  /\ finalized = {} /\ carried = {} /\ fences = {} /\ decided = {}
  /\ stage = [r \in Requests |-> "new"]
  /\ target = [r \in Requests |-> r]
  /\ answer = [r \in Requests |-> "none"]
-----------------------------------------------------------------------------
Overlaps(a, b) == a.start < b.end /\ b.start < a.end

\* What OCCUPANCY_SQL returns rows for: confirmed intervals and reservations.
Holds(b, w) ==
  \/ status[b] = "confirmed" /\ Overlaps(window[b], w)
  \/ reserved[b] # None /\ Overlaps(reserved[b], w)

Occupied(w, others) == \E b \in others : Holds(b, w)

HasKey(b, k) == status[b] # "absent" /\ key[b] = k
KeyKnown(k) == \E b \in Requests : HasKey(b, k)
Fenced(r) == <<key[r], print[r]>> \in fences

Answer(r, a) ==
  /\ answer' = [answer EXCEPT ![r] = a]
  /\ stage' = [stage EXCEPT ![r] = "done"]
  /\ UNCHANGED <<key, print, decided, target>>

Goto(r, s) == stage' = [stage EXCEPT ![r] = s] /\ UNCHANGED <<key, print, answer>>
-----------------------------------------------------------------------------
\* C9: the answer of a request whose key already names booking b.
ReplayOrResume(r, b) ==
  \/ /\ print[b] # print[r]
     /\ Answer(r, "key_reused")
  \/ /\ print[b] = print[r]
     /\ op[b] = "create"
     /\ \/ Answer(r, "retry")                     \* owned elsewhere: in progress
        \/ /\ Goto(r, "calendar")                 \* stale: taken over, resumed
           /\ target' = [target EXCEPT ![r] = b]
           /\ UNCHANGED decided
  \/ /\ print[b] = print[r]
     /\ op[b] # "create"
     /\ Answer(r, IF b \in finalized THEN "created" ELSE "retry")

\* The fence, then the key.  Used by L0 and again, under T1's own lock.
AlreadyAnswered(r) ==
  \/ Fenced(r) /\ Answer(r, "rejected")
  \/ ~Fenced(r) /\ \E b \in Requests : HasKey(b, key[r]) /\ ReplayOrResume(r, b)

\* What gateNewSubmission or R0 decides before the lock; T1 obeys it.
Decide(r) ==
  /\ decided' \in {decided, decided \cup {r}}
  /\ UNCHANGED target

L0(r) ==
  /\ stage[r] = "new"
  /\ \/ AlreadyAnswered(r)
     \/ /\ ~Fenced(r) /\ ~KeyKnown(key[r])
        /\ Decide(r)
        /\ Goto(r, IF r \in decided' THEN "t1" ELSE "r0")
  /\ UNCHANGED <<columns, fences>>

\* The external read: busy, free, or availability_unknown, which ends the call.
R0(r) ==
  /\ stage[r] = "r0"
  /\ \/ Decide(r) /\ Goto(r, "t1")
     \/ Answer(r, "retry")
  /\ UNCHANGED <<columns, fences>>

\* Mutants: T1 trusts L0's lookup of the fence, or of the key, or R0's read.
UndecidedUnfenced(r) == ~KeyKnown(key[r])
UndecidedUnkeyed(r) == ~Fenced(r)
RefusedByReadOnly(r) == r \in decided

\* What T1 writes once neither a fence nor the key answers: a fence or a row.
Undecided(r) == ~Fenced(r) /\ ~KeyKnown(key[r])
Refused(r) == r \in decided \/ Occupied(WindowOf[print[r]], Requests)

\* Mutant: the fence is written without the lock's second lookup.
FenceBlindly(r) ==
  /\ Refused(r)
  /\ fences' = fences \cup {<<key[r], print[r]>>}
  /\ UNCHANGED columns

FenceRejection(r) ==
  /\ Undecided(r) /\ Refused(r)
  /\ fences' = fences \cup {<<key[r], print[r]>>}
  /\ UNCHANGED columns

InsertRow(b) ==
  /\ status[b] = "absent"
  /\ status' = [status EXCEPT ![b] = "confirmed"]
  /\ op' = [op EXCEPT ![b] = "create"]
  /\ window' = [window EXCEPT ![b] = WindowOf[print[b]]]
  /\ UNCHANGED <<reserved, to, finalized, carried>>

InsertBooking(r) ==
  /\ Undecided(r) /\ ~Refused(r)
  /\ InsertRow(r)
  /\ UNCHANGED fences

T1(r) ==
  /\ stage[r] = "t1"
  /\ \/ AlreadyAnswered(r) /\ UNCHANGED <<columns, fences>>
     \/ FenceRejection(r) /\ Answer(r, "rejected")
     \/ InsertBooking(r) /\ Goto(r, "calendar") /\ UNCHANGED <<decided, target>>

\* The COMMIT response is lost: T1 may have committed or rolled back.
T1Unknown(r) ==
  /\ stage[r] = "t1"
  /\ FenceRejection(r) \/ InsertBooking(r) \/ UNCHANGED <<columns, fences>>
  /\ Goto(r, "lost")
  /\ UNCHANGED <<decided, target>>

T1Fails(r) ==
  /\ stage[r] = "t1"
  /\ Answer(r, "retry")
  /\ UNCHANGED <<columns, fences>>

\* C6.5: on a fresh connection, the row first and only then the fence.
Committed(r) == HasKey(r, key[r]) /\ op[r] = "create"

ReconcileT1(r) ==
  /\ stage[r] = "lost"
  /\ \/ Committed(r) /\ Goto(r, "calendar") /\ UNCHANGED <<decided, target>>
     \/ ~Committed(r) /\ \E b \in Requests : HasKey(b, key[r]) /\ ReplayOrResume(r, b)
     \/ ~KeyKnown(key[r]) /\ Answer(r, IF Fenced(r) THEN "rejected" ELSE "retry")
     \/ Answer(r, "retry")                        \* the lock is not reacquired
  /\ UNCHANGED <<columns, fences>>

\* The end of a create's calendar step: 201 once T2 finalized it, else 409 or 503.
AnswerCreate(r) ==
  /\ stage[r] = "calendar"
  /\ \/ /\ target[r] \in finalized
        /\ op[target[r]] # "create"
        /\ Answer(r, "created")
     \/ Answer(r, "retry")
  /\ UNCHANGED <<columns, fences>>
-----------------------------------------------------------------------------
\* The transactions that complete, abandon or replace a booking's open operation.

\* T2 and T2': both finalize the creation.
CompleteCreate(b) ==
  /\ op[b] = "create"
  /\ op' = [op EXCEPT ![b] = "none"]
  /\ finalized' = finalized \cup {b}
  /\ carried' = carried \ {b}
  /\ UNCHANGED <<status, window, reserved, to>>

\* Reschedule T1 re-checks occupancy but its own, and reserves the destination.
BeginReschedule(b, w) ==
  /\ status[b] = "confirmed" /\ op[b] = "none"
  /\ ~Occupied(w, Requests \ {b})
  /\ op' = [op EXCEPT ![b] = "reschedule"]
  /\ to' = [to EXCEPT ![b] = w]
  /\ reserved' = [reserved EXCEPT ![b] = w]
  /\ UNCHANGED <<status, window, finalized, carried>>

ClearReschedule(b) ==
  /\ to' = [to EXCEPT ![b] = None]
  /\ reserved' = [reserved EXCEPT ![b] = None]

\* Mutant: the completing update forgets its condition on the open operation.
CompleteUnowned(b) ==
  /\ op' = [op EXCEPT ![b] = "none"]
  /\ window' = [window EXCEPT ![b] = to[b]]
  /\ finalized' = finalized \cup {b}
  /\ ClearReschedule(b)
  /\ UNCHANGED <<status, carried>>

CompleteReschedule(b) ==
  /\ op[b] = "reschedule"
  /\ op' = [op EXCEPT ![b] = "none"]
  /\ window' = [window EXCEPT ![b] = to[b]]
  /\ finalized' = finalized \cup {b}
  /\ ClearReschedule(b)
  /\ UNCHANGED <<status, carried>>

AbandonReschedule(b) ==
  /\ op[b] = "reschedule"
  /\ op' = [op EXCEPT ![b] = "none"]
  /\ ClearReschedule(b)
  /\ UNCHANGED <<status, window, finalized, carried>>

BeginCancel(b) ==
  /\ status[b] = "confirmed" /\ op[b] = "none"
  /\ op' = [op EXCEPT ![b] = "cancel"]
  /\ UNCHANGED <<status, window, reserved, to, finalized, carried>>

\* Mutant: the replaced move's reservation is not released.
ReplaceKeepingTime(b) ==
  /\ op[b] \in {"create", "reschedule"}
  /\ op' = [op EXCEPT ![b] = "cancel"]
  /\ to' = [to EXCEPT ![b] = None]
  /\ carried' = IF op[b] = "create" /\ b \notin finalized THEN carried \cup {b} ELSE carried
  /\ UNCHANGED <<status, window, reserved, finalized>>

\* A cancel replaces the stale operation it took over and whose event is absent.
ReplaceByCancel(b) ==
  /\ op[b] \in {"create", "reschedule"}
  /\ op' = [op EXCEPT ![b] = "cancel"]
  /\ IF op[b] = "create"
       THEN /\ carried' = IF b \in finalized THEN carried ELSE carried \cup {b}
            /\ UNCHANGED <<to, reserved>>
       ELSE ClearReschedule(b) /\ UNCHANGED carried
  /\ UNCHANGED <<status, window, finalized>>

CompleteCancel(b) ==
  /\ op[b] = "cancel"
  /\ op' = [op EXCEPT ![b] = "none"]
  /\ status' = [status EXCEPT ![b] = "cancelled"]
  /\ reserved' = [reserved EXCEPT ![b] = None]
  /\ finalized' = finalized \cup {b}
  /\ carried' = carried \ {b}
  /\ UNCHANGED <<window, to>>

\* Cancel T2': the booking stays; an unfinished create it carries is restored.
CancelFails(b) ==
  /\ op[b] = "cancel"
  /\ op' = [op EXCEPT ![b] = IF b \in carried THEN "create" ELSE "none"]
  /\ reserved' = IF b \in carried THEN reserved ELSE [reserved EXCEPT ![b] = None]
  /\ UNCHANGED <<status, window, to, finalized, carried>>

RowUpdate(b) ==
  \/ CompleteCreate(b) \/ CompleteReschedule(b) \/ AbandonReschedule(b)
  \/ BeginCancel(b) \/ ReplaceByCancel(b) \/ CompleteCancel(b) \/ CancelFails(b)
  \/ \E w \in Windows : BeginReschedule(b, w)

RowStep(b) == RowUpdate(b) /\ UNCHANGED <<fences, request>>

CreateStep(r) ==
  L0(r) \/ R0(r) \/ T1(r) \/ T1Unknown(r) \/ T1Fails(r) \/ ReconcileT1(r) \/ AnswerCreate(r)

Next == \E r \in Requests : CreateStep(r) \/ RowStep(r)

Spec == Init /\ [][Next]_vars

\* The rows alone, absent or finished at first: what BookingLifecycle's steps may do.
RowsInit ==
  /\ \A b \in Requests :
       /\ status[b] \in {"absent", "confirmed"}
       /\ op[b] = "none" /\ reserved[b] = None /\ to[b] = None
  /\ finalized = {b \in Requests : status[b] = "confirmed"} /\ carried = {}

RowsSpec == RowsInit /\ [][\E b \in Requests : InsertRow(b) \/ RowUpdate(b)]_columns
-----------------------------------------------------------------------------
Held(b) == ({reserved[b]} \ {None})
           \cup (IF status[b] = "confirmed" THEN {window[b]} ELSE {})

\* No two bookings of the host hold overlapping time, counting the destination a
\* reschedule has reserved while its calendar event is still being moved: the
\* locked occupancy re-checks of create T1 (create.ts:224) and reschedule T1
\* (reschedule.ts:211) against every completion that runs between them.
NoDoubleBooking ==
  \A b, c \in Requests : b # c =>
    \A v \in Held(b), w \in Held(c) : ~Overlaps(v, w)

\* A rejection is terminal: once a key and payload are fenced, no request with
\* them, however long it was paused before its own T1, can insert a booking
\* (create.ts:353, REV8-01).
FencedNeverBooked ==
  \A b \in Requests : status[b] # "absent" => <<key[b], print[b]>> \notin fences

\* An idempotency key names at most one booking, although L0 looks it up long
\* before T1 inserts and the COMMIT response may be lost (create.ts:145-252).
OneBookingPerKey ==
  \A b, c \in Requests :
    status[b] # "absent" /\ status[c] # "absent" /\ key[b] = key[c] => b = c

\* Two requests with one key and payload never get contradictory terminal
\* answers: if one is told 201, no other is ever told 409 slot_unavailable.
AnswersAgree ==
  \A r, s \in Requests :
    /\ key[r] = key[s] /\ print[r] = print[s]
    /\ answer[r] = "created"
    => answer[s] # "rejected"

\* A 201 is never given for a booking whose creation is not finalized, nor for
\* one another payload created under the key (create.ts:731-789, REV14-01).
CreatedIsFinalized ==
  \A r \in Requests : answer[r] = "created" =>
    \E b \in finalized : HasKey(b, key[r]) /\ print[b] = print[r]

\* A destination is reserved exactly while a reschedule that can still complete
\* or release it is open: none is left behind by a cancel (LIVE-REVIEW-07).
ReservationHasOwner ==
  \A b \in Requests : (reserved[b] # None) <=> (op[b] = "reschedule")

\* CF-2 and CF-3 (rows.ts:254-262): a creation that is not finalized always has an
\* operation that can finish it, and only such a creation is carried by a cancel.
UnfinishedHasOwner ==
  \A b \in Requests :
    /\ status[b] = "confirmed" /\ op[b] = "none" => b \in finalized
    /\ b \in carried => b \notin finalized /\ op[b] \in {"create", "cancel"}
    /\ op[b] = "reschedule" => b \in finalized

\* What a caller was told stays true and is never contradicted.
AnswersHold == CreatedIsFinalized /\ AnswersAgree

\* Whatever waits for a handler has one: a held destination and an unfinished creation.
WorkHasOwner == ReservationHasOwner /\ UnfinishedHasOwner
=============================================================================
