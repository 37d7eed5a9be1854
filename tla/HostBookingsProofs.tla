------------------------- MODULE HostBookingsProofs -------------------------
(***************************************************************************)
(* The safety of HostBookings for every number of requests, keys, payloads *)
(* and every set of windows.                                               *)
(*                                                                         *)
(* NoDoubleBooking is not inductive alone: completing a reschedule makes   *)
(* the operation's destination the booking's interval, which is safe only  *)
(* because that destination is the one still reserved (MoveIsReserved),    *)
(* and inserting a row must not overwrite one (OpenOpIsConfirmed).         *)
(* What requests are told rests on what no step undoes: Monotone.          *)
(***************************************************************************)
EXTENDS HostBookings, TLAPS

USE WindowsAreIntervals, WindowOfType, NoneIsNoWindow

MoveIsReserved == \A b \in Requests : op[b] = "reschedule" => to[b] = reserved[b]

OpenOpIsConfirmed == \A b \in Requests : status[b] # "confirmed" => op[b] = "none"

\* The part of the inductive invariant each row satisfies by itself.
Shape == TypeOK /\ ReservationHasOwner /\ MoveIsReserved /\ OpenOpIsConfirmed

-----------------------------------------------------------------------------
\* A create request's step inserts its row, or adds its fence, or writes nothing.
LEMMA CreateWrites ==
  ASSUME NEW r \in Requests, CreateStep(r)
  PROVE  /\ UNCHANGED <<key, print>>
         /\ UNCHANGED <<columns, fences>> \/ FenceRejection(r) \/ InsertBooking(r)
<1>1. ASSUME NEW a, Answer(r, a) PROVE UNCHANGED <<key, print>>
  BY <1>1 DEF Answer
<1>2. ASSUME NEW s, Goto(r, s) PROVE UNCHANGED <<key, print>>
  BY <1>2 DEF Goto
<1>3. ASSUME NEW b \in Requests, ReplayOrResume(r, b) PROVE UNCHANGED <<key, print>>
  BY <1>1, <1>2, <1>3 DEF ReplayOrResume
<1>4. ASSUME AlreadyAnswered(r) PROVE UNCHANGED <<key, print>>
  BY <1>1, <1>3, <1>4 DEF AlreadyAnswered
<1>5. UNCHANGED <<key, print>>
  BY <1>1, <1>2, <1>3, <1>4
     DEF CreateStep, L0, R0, T1, T1Unknown, T1Fails, ReconcileT1, AnswerCreate
<1>6. QED
  BY <1>5 DEF CreateStep, L0, R0, T1, T1Unknown, T1Fails, ReconcileT1, AnswerCreate

\* A request's step moves no other request.
LEMMA RequestLocal ==
  ASSUME NEW q \in Requests, NEW r \in Requests, q # r, CreateStep(q), TypeOK
  PROVE  answer'[r] = answer[r] /\ stage'[r] = stage[r] /\ target'[r] = target[r]
<1> DEFINE Same == answer'[r] = answer[r] /\ stage'[r] = stage[r] /\ target'[r] = target[r]
<1>1. ASSUME NEW a, Answer(q, a) PROVE Same
  BY <1>1 DEF Answer, TypeOK
<1>2. ASSUME NEW s, Goto(q, s), target'[r] = target[r] PROVE Same
  BY <1>2 DEF Goto, TypeOK
<1>3. ASSUME NEW b \in Requests, ReplayOrResume(q, b) PROVE Same
  <2>1. CASE Goto(q, "calendar") /\ target' = [target EXCEPT ![q] = b]
    BY <1>2, <2>1 DEF TypeOK
  <2>2. QED
    BY <1>1, <1>3, <2>1 DEF ReplayOrResume
<1>4. ASSUME AlreadyAnswered(q) PROVE Same
  BY <1>1, <1>3, <1>4 DEF AlreadyAnswered
<1> HIDE DEF Same
<1>5. Same
  BY <1>1, <1>2, <1>3, <1>4
     DEF CreateStep, L0, R0, T1, T1Unknown, T1Fails, ReconcileT1, AnswerCreate, Decide
<1>6. QED
  BY <1>5 DEF Same

\* A request's own progress stays in its type.
LEMMA RequestTyped ==
  ASSUME NEW r \in Requests, CreateStep(r), TypeOK
  PROVE  /\ stage' \in [Requests -> {"new", "r0", "t1", "lost", "calendar", "done"}]
         /\ answer' \in [Requests -> {"none", "created", "rejected", "key_reused", "retry"}]
         /\ decided' \subseteq Requests
         /\ target' \in [Requests -> Requests]
<1> DEFINE Typed ==
      /\ stage' \in [Requests -> {"new", "r0", "t1", "lost", "calendar", "done"}]
      /\ answer' \in [Requests -> {"none", "created", "rejected", "key_reused", "retry"}]
      /\ decided' \subseteq Requests
      /\ target' \in [Requests -> Requests]
<1>1. ASSUME NEW a \in {"created", "rejected", "key_reused", "retry"}, Answer(r, a)
      PROVE  Typed
  BY <1>1 DEF TypeOK, Answer
<1>2. ASSUME NEW s \in {"r0", "t1", "lost", "calendar"}, Goto(r, s),
             decided' \subseteq Requests, target' \in [Requests -> Requests]
      PROVE  Typed
  BY <1>2 DEF TypeOK, Goto
<1>3. ASSUME NEW s \in {"r0", "t1", "lost", "calendar"}, Goto(r, s), UNCHANGED <<decided, target>>
      PROVE  Typed
  BY <1>2, <1>3 DEF TypeOK
<1>4. ASSUME NEW s \in {"r0", "t1"}, Goto(r, s), Decide(r)
      PROVE  Typed
  BY <1>2, <1>4 DEF TypeOK, Decide
<1>5. ASSUME NEW b \in Requests, ReplayOrResume(r, b) PROVE Typed
  <2>1. CASE Goto(r, "calendar") /\ target' = [target EXCEPT ![r] = b] /\ UNCHANGED decided
    BY <1>2, <2>1 DEF TypeOK
  <2>2. QED
    BY <1>1, <1>5, <2>1 DEF ReplayOrResume
<1>6. ASSUME AlreadyAnswered(r) PROVE Typed
  BY <1>1, <1>5, <1>6 DEF AlreadyAnswered
<1> HIDE DEF Typed
<1>7. ASSUME L0(r) PROVE Typed
  BY <1>4, <1>6, <1>7 DEF L0
<1>8. ASSUME R0(r) PROVE Typed
  BY <1>1, <1>4, <1>8 DEF R0
<1>9. ASSUME T1(r) PROVE Typed
  BY <1>1, <1>3, <1>6, <1>9 DEF T1
<1>10. ASSUME T1Unknown(r) \/ T1Fails(r) PROVE Typed
  BY <1>1, <1>3, <1>10 DEF T1Unknown, T1Fails
<1>11. ASSUME ReconcileT1(r) \/ AnswerCreate(r) PROVE Typed
  BY <1>1, <1>3, <1>5, <1>11 DEF ReconcileT1, AnswerCreate
<1>12. Typed
  BY <1>7, <1>8, <1>9, <1>10, <1>11 DEF CreateStep
<1>13. QED
  BY <1>12 DEF Typed

\* Every handler keeps the types, and each row's reservation with its operation.
LEMMA ShapeStep == ASSUME Shape, [Next]_vars PROVE Shape'
<1> USE DEF Shape, TypeOK, ReservationHasOwner, MoveIsReserved, OpenOpIsConfirmed
<1>1. ASSUME NEW r \in Requests, CreateStep(r) PROVE Shape'
  <2>1. UNCHANGED <<key, print>>
    BY <1>1, CreateWrites
  <2>2. CASE UNCHANGED <<columns, fences>>
    BY <1>1, <2>1, <2>2, RequestTyped DEF columns
  <2>3. CASE FenceRejection(r)
    <3>1. fences' \subseteq Keys \X Prints
      BY <2>3 DEF FenceRejection
    <3>2. QED
      BY <1>1, <2>1, <2>3, <3>1, RequestTyped DEF FenceRejection, columns
  <2>4. CASE InsertBooking(r)
    <3>1. status[r] = "absent"
      BY <2>4 DEF InsertBooking, InsertRow, Undecided, KeyKnown, HasKey
    <3>2. op[r] = "none" /\ reserved[r] = None
      BY <3>1
    <3>3. WindowOf[print[r]] \in Windows
      OBVIOUS
    <3>4. TypeOK'
      BY <1>1, <2>1, <2>4, <3>3, RequestTyped DEF InsertBooking, InsertRow
    <3>5. QED
      BY <2>4, <3>2, <3>4 DEF InsertBooking, InsertRow
  <2>5. QED
    BY <1>1, <2>2, <2>3, <2>4, CreateWrites
<1>2. ASSUME NEW b \in Requests, RowStep(b) PROVE Shape'
  <2>1. UNCHANGED <<fences, request>>
    BY <1>2 DEF RowStep, RowUpdate
  <2> USE <2>1 DEF request
  <2>2. CASE CompleteCreate(b)
    BY <2>2 DEF CompleteCreate
  <2>3. CASE CompleteReschedule(b)
    <3>1. to[b] \in Windows
      BY <2>3 DEF CompleteReschedule
    <3>2. QED
      BY <2>3, <3>1 DEF CompleteReschedule, ClearReschedule
  <2>4. CASE AbandonReschedule(b)
    BY <2>4 DEF AbandonReschedule, ClearReschedule
  <2>5. CASE BeginCancel(b)
    BY <2>5 DEF BeginCancel
  <2>6. CASE ReplaceByCancel(b)
    <3>1. CASE op[b] = "create"
      <4>1. carried' \in {carried, carried \cup {b}} /\ UNCHANGED <<to, reserved>>
        BY <2>6, <3>1 DEF ReplaceByCancel
      <4>2. QED
        BY <2>6, <3>1, <4>1 DEF ReplaceByCancel
    <3>2. CASE op[b] = "reschedule"
      <4>1. ClearReschedule(b) /\ UNCHANGED carried
        BY <2>6, <3>2 DEF ReplaceByCancel
      <4>2. QED
        BY <2>6, <3>2, <4>1 DEF ReplaceByCancel, ClearReschedule
    <3>3. QED
      BY <2>6, <3>1, <3>2 DEF ReplaceByCancel
  <2>7. CASE CompleteCancel(b)
    BY <2>7 DEF CompleteCancel
  <2>8. CASE CancelFails(b)
    BY <2>8 DEF CancelFails
  <2>9. ASSUME NEW w \in Windows, BeginReschedule(b, w) PROVE Shape'
    BY <2>9 DEF BeginReschedule
  <2>10. QED
    BY <1>2, <2>2, <2>3, <2>4, <2>5, <2>6, <2>7, <2>8, <2>9 DEF RowStep, RowUpdate
<1>3. CASE UNCHANGED vars
  BY <1>3 DEF vars, columns, request
<1>4. QED
  BY <1>1, <1>2, <1>3 DEF Next

LEMMA ShapeInit == Init => Shape
  BY DEF Init, Shape, TypeOK, ReservationHasOwner, MoveIsReserved, OpenOpIsConfirmed

\* Every variable stays in its type, on every path of every handler.
THEOREM Typing == Spec => []TypeOK
<1>1. Spec => []Shape
  BY ShapeInit, ShapeStep, PTL DEF Spec
<1>2. QED
  BY <1>1, PTL DEF Shape

\* A destination is reserved exactly while its reschedule is open.
THEOREM ReservationsOwned == Spec => []ReservationHasOwner
<1>1. Spec => []Shape
  BY ShapeInit, ShapeStep, PTL DEF Spec
<1>2. QED
  BY <1>1, PTL DEF Shape

-----------------------------------------------------------------------------
\* Bookings stay disjoint when one of them gives time up.
LEMMA HeldShrinks ==
  ASSUME NoDoubleBooking, NEW x \in Requests, Held(x)' \subseteq Held(x),
         \A c \in Requests \ {x} : Held(c)' = Held(c)
  PROVE  NoDoubleBooking'
<1>1. \A c \in Requests : Held(c)' \subseteq Held(c)
  OBVIOUS
<1> SUFFICES ASSUME NEW b \in Requests, NEW c \in Requests, b # c,
                    NEW v \in Held(b)', NEW w \in Held(c)'
             PROVE  ~Overlaps(v, w)
  BY DEF NoDoubleBooking, Overlaps
<1>2. v \in Held(b) /\ w \in Held(c)
  BY <1>1
<1>3. QED
  BY <1>2 DEF NoDoubleBooking

\* Bookings stay disjoint when one of them takes time the locked check found free.
LEMMA HeldGrows ==
  ASSUME NoDoubleBooking, TypeOK, NEW x \in Requests, NEW f \in Windows,
         Held(x)' \subseteq Held(x) \cup {f}, ~Occupied(f, Requests \ {x}),
         \A c \in Requests \ {x} : Held(c)' = Held(c)
  PROVE  NoDoubleBooking'
<1>1. ASSUME NEW c \in Requests \ {x}, NEW v \in Held(c) PROVE ~Overlaps(v, f) /\ ~Overlaps(f, v)
  BY <1>1 DEF Occupied, Holds, Held, Overlaps
<1> SUFFICES ASSUME NEW b \in Requests, NEW c \in Requests, b # c,
                    NEW v \in Held(b)', NEW w \in Held(c)'
             PROVE  ~Overlaps(v, w)
  BY DEF NoDoubleBooking, Overlaps
<1>2. CASE b # x /\ c # x
  BY <1>2 DEF NoDoubleBooking
<1>3. CASE b = x
  <2>1. w \in Held(c) /\ (v \in Held(b) \/ v = f)
    BY <1>3
  <2>2. QED
    BY <1>1, <1>3, <2>1 DEF NoDoubleBooking
<1>4. CASE c = x
  <2>1. v \in Held(b) /\ (w \in Held(c) \/ w = f)
    BY <1>4
  <2>2. QED
    BY <1>1, <1>4, <2>1 DEF NoDoubleBooking
<1>5. QED
  BY <1>2, <1>3, <1>4

\* The host is never double-booked, whatever requests, moves, cancels and lost
\* COMMITs interleave (create.ts:224, reschedule.ts:211).
THEOREM DoubleBookingImpossible == Spec => []NoDoubleBooking
<1>1. Init => Shape /\ NoDoubleBooking
  BY ShapeInit DEF Init, NoDoubleBooking, Held
<1>2. Shape /\ NoDoubleBooking /\ [Next]_vars => Shape' /\ NoDoubleBooking'
  <2> SUFFICES ASSUME Shape, NoDoubleBooking, [Next]_vars PROVE NoDoubleBooking'
    BY ShapeStep
  <2>1. TypeOK
    BY DEF Shape
  <2>2. ASSUME UNCHANGED <<status, window, reserved>> PROVE NoDoubleBooking'
    BY <2>2 DEF NoDoubleBooking, Held, Overlaps
  <2>3. ASSUME NEW r \in Requests, CreateStep(r) PROVE NoDoubleBooking'
    <3>1. CASE InsertBooking(r)
      <4>1. /\ status' = [status EXCEPT ![r] = "confirmed"]
            /\ window' = [window EXCEPT ![r] = WindowOf[print[r]]]
            /\ UNCHANGED reserved
        BY <3>1 DEF InsertBooking, InsertRow
      <4>2. Held(r)' \subseteq Held(r) \cup {WindowOf[print[r]]}
        BY <2>1, <4>1 DEF TypeOK, Held
      <4>3. ~Occupied(WindowOf[print[r]], Requests \ {r})
        BY <3>1 DEF InsertBooking, InsertRow, Refused, Occupied
      <4>4. \A c \in Requests \ {r} : Held(c)' = Held(c)
        BY <2>1, <4>1 DEF TypeOK, Held
      <4>5. WindowOf[print[r]] \in Windows
        BY <2>1 DEF TypeOK
      <4>6. QED
        BY <2>1, <4>2, <4>3, <4>4, <4>5, HeldGrows
    <3>2. CASE ~InsertBooking(r)
      BY <2>2, <2>3, <3>2, CreateWrites DEF FenceRejection, columns
    <3>3. QED
      BY <3>1, <3>2
  <2>4. ASSUME NEW b \in Requests, RowStep(b) PROVE NoDoubleBooking'
    <3>1. ASSUME NEW w \in Windows, BeginReschedule(b, w) PROVE NoDoubleBooking'
      <4>1. UNCHANGED <<status, window>> /\ reserved' = [reserved EXCEPT ![b] = w]
        BY <3>1 DEF BeginReschedule
      <4>2. Held(b)' \subseteq Held(b) \cup {w} /\ \A c \in Requests \ {b} : Held(c)' = Held(c)
        BY <2>1, <4>1 DEF TypeOK, Held
      <4>3. QED
        BY <2>1, <3>1, <4>2, HeldGrows DEF BeginReschedule
    <3>2. CASE CompleteReschedule(b)
      <4>1. to[b] = reserved[b] /\ reserved[b] # None
        BY <3>2 DEF CompleteReschedule, Shape, MoveIsReserved, ReservationHasOwner
      <4>2. /\ UNCHANGED status
            /\ window' = [window EXCEPT ![b] = reserved[b]]
            /\ reserved' = [reserved EXCEPT ![b] = None]
        BY <3>2, <4>1 DEF CompleteReschedule, ClearReschedule
      <4>3. Held(b)' \subseteq Held(b) /\ \A c \in Requests \ {b} : Held(c)' = Held(c)
        BY <2>1, <4>1, <4>2 DEF TypeOK, Held
      <4>4. QED
        BY <4>3, HeldShrinks
    <3>3. CASE \/ AbandonReschedule(b) \/ CompleteCancel(b)
               \/ CancelFails(b) \/ ReplaceByCancel(b)
      <4>1. /\ UNCHANGED window
            /\ status' \in {status, [status EXCEPT ![b] = "cancelled"]}
            /\ reserved' \in {reserved, [reserved EXCEPT ![b] = None]}
        BY <3>3 DEF AbandonReschedule, CompleteCancel, CancelFails, ReplaceByCancel, ClearReschedule
      <4>2. Held(b)' \subseteq Held(b) /\ \A c \in Requests \ {b} : Held(c)' = Held(c)
        BY <2>1, <4>1 DEF TypeOK, Held
      <4>3. QED
        BY <4>2, HeldShrinks
    <3>4. CASE CompleteCreate(b) \/ BeginCancel(b)
      BY <2>2, <3>4 DEF CompleteCreate, BeginCancel
    <3>5. QED
      BY <2>4, <3>1, <3>2, <3>3, <3>4 DEF RowStep, RowUpdate
  <2>5. CASE UNCHANGED vars
    BY <2>2, <2>5 DEF vars, columns
  <2>6. QED
    BY <2>3, <2>4, <2>5 DEF Next
<1>3. QED
  BY <1>1, <1>2, PTL DEF Spec

-----------------------------------------------------------------------------
\* What no step undoes: rows, fences and finalizations stay, payloads are fixed.
Lasting(b) ==
  /\ status[b] # "absent" => status'[b] # "absent"
  /\ b \in finalized => b \in finalized'

LEMMA Monotone ==
  ASSUME Shape, [Next]_vars
  PROVE  /\ UNCHANGED <<key, print>>
         /\ fences \subseteq fences'
         /\ \A b \in Requests : Lasting(b)
<1> USE DEF Lasting
<1>1. ASSUME NEW r \in Requests, CreateStep(r)
      PROVE  fences \subseteq fences' /\ \A b \in Requests : Lasting(b)
  BY <1>1, CreateWrites DEF FenceRejection, InsertBooking, InsertRow, columns, Shape, TypeOK
<1>2. ASSUME NEW b \in Requests, RowStep(b)
      PROVE  /\ UNCHANGED <<key, print, fences>>
             /\ \A c \in Requests : Lasting(c)
  <2>1. status' = status \/ status' = [status EXCEPT ![b] = "cancelled"]
    BY <1>2 DEF RowStep, RowUpdate, CompleteCreate, CompleteReschedule, AbandonReschedule, BeginCancel,
                ReplaceByCancel, CompleteCancel, CancelFails, BeginReschedule
  <2>2. finalized' = finalized \/ finalized' = finalized \cup {b}
    BY <1>2 DEF RowStep, RowUpdate, CompleteCreate, CompleteReschedule, AbandonReschedule, BeginCancel,
                ReplaceByCancel, CompleteCancel, CancelFails, BeginReschedule
  <2>3. QED
    BY <1>2, <2>1, <2>2 DEF RowStep, RowUpdate, request, Shape, TypeOK
<1>3. CASE UNCHANGED vars
  BY <1>3 DEF vars, columns, request
<1>4. QED
  BY <1>1, <1>2, <1>3, CreateWrites DEF Next

\* Only InsertBooking makes a row, and it makes one.
LEMMA OnlyInsertInserts ==
  ASSUME Shape, [Next]_vars, NEW b \in Requests, status[b] = "absent", status'[b] # "absent"
  PROVE  InsertBooking(b) /\ \A c \in Requests \ {b} : status'[c] = status[c]
<1>1. op[b] = "none"
  BY DEF Shape, OpenOpIsConfirmed
<1>2. ASSUME NEW c \in Requests, RowStep(c) PROVE FALSE
  <2>1. status' = status \/ (op[c] = "cancel" /\ status' = [status EXCEPT ![c] = "cancelled"])
    BY <1>2 DEF RowStep, RowUpdate, CompleteCreate, CompleteReschedule, AbandonReschedule, BeginCancel,
                ReplaceByCancel, CompleteCancel, CancelFails, BeginReschedule
  <2>2. QED
    BY <1>1, <2>1 DEF Shape, TypeOK
<1>3. ASSUME NEW r \in Requests, CreateStep(r)
      PROVE  InsertBooking(b) /\ \A c \in Requests \ {b} : status'[c] = status[c]
  <2>1. InsertBooking(r)
    BY <1>3, CreateWrites DEF FenceRejection, columns
  <2>2. r = b
    BY <2>1 DEF InsertBooking, InsertRow, Shape, TypeOK
  <2>3. QED
    BY <2>1, <2>2 DEF InsertBooking, InsertRow, Shape, TypeOK
<1>4. QED
  BY <1>2, <1>3 DEF Next, vars, columns

\* One key names at most one booking.
THEOREM KeysUnique == Spec => []OneBookingPerKey
<1>1. Init => Shape /\ OneBookingPerKey
  BY ShapeInit DEF Init, OneBookingPerKey
<1>2. Shape /\ OneBookingPerKey /\ [Next]_vars => Shape' /\ OneBookingPerKey'
  <2> SUFFICES ASSUME Shape, OneBookingPerKey, [Next]_vars,
                      NEW b \in Requests, NEW c \in Requests,
                      status'[b] # "absent", status'[c] # "absent", key[b] = key[c]
               PROVE  b = c
    BY ShapeStep, Monotone DEF OneBookingPerKey
  <2>1. CASE status[b] # "absent" /\ status[c] # "absent"
    BY <2>1 DEF OneBookingPerKey
  <2>2. ASSUME NEW d \in Requests, NEW e \in Requests, d # e, key[d] = key[e],
               status[d] = "absent", status'[d] # "absent", status'[e] # "absent"
        PROVE  FALSE
    <3>1. InsertBooking(d) /\ status[e] # "absent"
      BY <2>2, OnlyInsertInserts
    <3>2. QED
      BY <2>2, <3>1 DEF InsertBooking, InsertRow, Undecided, KeyKnown, HasKey
  <2>3. QED
    BY <2>1, <2>2
<1>3. QED
  BY <1>1, <1>2, PTL DEF Spec

\* A fenced key and payload never has a booking, before or after the fence.
LEMMA FenceStep ==
  ASSUME Shape, FencedNeverBooked, [Next]_vars PROVE FencedNeverBooked'
<1> SUFFICES ASSUME NEW b \in Requests, status'[b] # "absent", <<key[b], print[b]>> \in fences'
             PROVE  FALSE
  BY Monotone DEF FencedNeverBooked
<1>1. CASE <<key[b], print[b]>> \in fences
  <2>1. InsertBooking(b)
    BY <1>1, OnlyInsertInserts DEF FencedNeverBooked
  <2>2. QED
    BY <1>1, <2>1 DEF InsertBooking, InsertRow, Undecided, Fenced
<1>2. CASE <<key[b], print[b]>> \notin fences
  <2>1. PICK r \in Requests : FenceRejection(r) /\ fences' = fences \cup {<<key[r], print[r]>>}
    BY <1>2, CreateWrites
       DEF Next, vars, RowStep, RowUpdate, InsertBooking, InsertRow, FenceRejection
  <2>2. key[b] = key[r] /\ status[b] # "absent"
    BY <1>2, <2>1 DEF FenceRejection, columns
  <2>3. QED
    BY <2>1, <2>2 DEF FenceRejection, Undecided, KeyKnown, HasKey
<1>3. QED
  BY <1>1, <1>2

THEOREM RejectionIsTerminal == Spec => []FencedNeverBooked
<1>1. Init => Shape /\ FencedNeverBooked
  BY ShapeInit DEF Init, FencedNeverBooked
<1>2. QED
  BY <1>1, ShapeStep, FenceStep, PTL DEF Spec

-----------------------------------------------------------------------------
\* What a request has been told is true of the database, and stays true.
Booked(r) == \E b \in finalized : HasKey(b, key[r]) /\ print[b] = print[r]

Truthful(r) ==
  /\ answer[r] = "rejected" => Fenced(r)
  /\ answer[r] = "created" => Booked(r)
  /\ stage[r] = "calendar" => HasKey(target[r], key[r]) /\ print[target[r]] = print[r]
  /\ stage[r] \in {"new", "r0", "t1", "lost"} => target[r] = r

\* A truth outlives every step that leaves the request's own progress alone.
LEMMA TruthLasts ==
  ASSUME Shape, [Next]_vars, NEW r \in Requests, Truthful(r),
         answer'[r] = answer[r], stage'[r] = stage[r], target'[r] = target[r]
  PROVE  Truthful(r)'
<1>1. TypeOK
  BY DEF Shape
<1>2. ASSUME NEW b \in Requests, HasKey(b, key[r]) PROVE HasKey(b, key[r])'
  BY <1>2, Monotone DEF HasKey, Lasting
<1>3. Fenced(r) => Fenced(r)'
  BY Monotone DEF Fenced
<1>4. Booked(r) => Booked(r)'
  <2>1. ASSUME NEW b \in finalized, HasKey(b, key[r]), print[b] = print[r]
        PROVE  b \in finalized' /\ HasKey(b, key[r])' /\ (print[b] = print[r])'
    BY <1>1, <1>2, <2>1, Monotone DEF Lasting, TypeOK
  <2>2. QED
    BY <2>1 DEF Booked
<1>5. stage[r] = "calendar" => (HasKey(target[r], key[r]) /\ print[target[r]] = print[r])'
  BY <1>1, <1>2, Monotone DEF Truthful, TypeOK, HasKey, Lasting
<1>6. QED
  BY <1>3, <1>4, <1>5 DEF Truthful

\* A request never says more than its own transaction read or wrote.
LEMMA TruthTold ==
  ASSUME Shape, NEW r \in Requests, CreateStep(r), Truthful(r), [Next]_vars
  PROVE  Truthful(r)'
<1>0. TypeOK /\ UNCHANGED <<key, print>>
  BY Monotone DEF Shape
<1>1. ASSUME NEW a, Answer(r, a), a = "rejected" => Fenced(r)', a = "created" => Booked(r)'
      PROVE  Truthful(r)'
  <2>1. answer'[r] = a /\ stage'[r] = "done"
    BY <1>0, <1>1 DEF Answer, TypeOK
  <2>2. QED
    BY <1>1, <2>1 DEF Truthful
<1>2. ASSUME NEW s, Goto(r, s)
      PROVE  /\ stage'[r] = s
             /\ answer'[r] = "rejected" => Fenced(r)'
             /\ answer'[r] = "created" => Booked(r)'
  <2>1. answer'[r] = answer[r] /\ stage'[r] = s
    BY <1>0, <1>2 DEF Goto, TypeOK
  <2>2. Fenced(r) => Fenced(r)'
    BY Monotone DEF Fenced
  <2>3. Booked(r) => Booked(r)'
    <3>1. ASSUME NEW b \in finalized, HasKey(b, key[r]), print[b] = print[r]
          PROVE  b \in finalized' /\ HasKey(b, key[r])' /\ (print[b] = print[r])'
      BY <1>0, <3>1, Monotone DEF Lasting, TypeOK, HasKey
    <3>2. QED
      BY <3>1 DEF Booked
  <2>4. QED
    BY <2>1, <2>2, <2>3 DEF Truthful
<1>3. ASSUME NEW s \in {"r0", "t1", "lost"}, stage[r] \in {"new", "r0", "t1"}, Goto(r, s),
             UNCHANGED target
      PROVE  Truthful(r)'
  BY <1>2, <1>3 DEF Truthful
<1> DEFINE Claims(b) == HasKey(b, key[r])' /\ (print[b] = print[r])'
<1>31. ASSUME NEW b \in Requests, Goto(r, "calendar"), target'[r] = b, Claims(b)
      PROVE  Truthful(r)'
  <2>1. (HasKey(target[r], key[r]) /\ print[target[r]] = print[r])'
    BY <1>31
  <2>2. QED
    BY <1>2, <1>31, <2>1 DEF Truthful
<1>4. ASSUME NEW b \in Requests, HasKey(b, key[r]), UNCHANGED <<columns, fences>>,
             ReplayOrResume(r, b)
      PROVE  Truthful(r)'
  <2>1. CASE Answer(r, "key_reused") \/ Answer(r, "retry")
    BY <1>1, <2>1
  <2>2. CASE /\ print[b] = print[r]
             /\ Answer(r, IF b \in finalized THEN "created" ELSE "retry")
    BY <1>0, <1>1, <1>4, <2>2 DEF Booked, HasKey, columns
  <2>3. CASE /\ print[b] = print[r]
             /\ Goto(r, "calendar")
             /\ target' = [target EXCEPT ![r] = b]
    BY <1>0, <1>31, <1>4, <2>3 DEF HasKey, columns, TypeOK
  <2>4. QED
    BY <1>4, <2>1, <2>2, <2>3 DEF ReplayOrResume
<1>5. ASSUME AlreadyAnswered(r), UNCHANGED <<columns, fences>>
      PROVE  Truthful(r)'
  BY <1>0, <1>1, <1>4, <1>5 DEF AlreadyAnswered, Fenced
<1> HIDE DEF Claims
<1>6. CASE L0(r) \/ R0(r) \/ T1Unknown(r) \/ T1Fails(r)
  BY <1>1, <1>3, <1>5, <1>6 DEF L0, R0, T1Unknown, T1Fails, Decide
<1>7. CASE T1(r)
  <2>1. CASE FenceRejection(r) /\ Answer(r, "rejected")
    BY <1>0, <1>1, <2>1 DEF FenceRejection, Fenced
  <2>2. CASE InsertBooking(r) /\ Goto(r, "calendar") /\ UNCHANGED <<decided, target>>
    <3>1. status'[r] = "confirmed" /\ target'[r] = r
      BY <1>0, <1>7, <2>2 DEF InsertBooking, InsertRow, TypeOK, T1, Truthful
    <3>2. Claims(r)
      BY <3>1 DEF Claims, HasKey
    <3>3. QED
      BY <1>31, <2>2, <3>1, <3>2
  <2>3. QED
    BY <1>5, <1>7, <2>1, <2>2 DEF T1
<1>8. CASE ReconcileT1(r)
  <2>1. CASE Committed(r) /\ Goto(r, "calendar") /\ UNCHANGED <<decided, target>>
    <3>1. target'[r] = r /\ status'[r] # "absent"
      BY <1>8, <2>1 DEF ReconcileT1, Truthful, Committed, HasKey, columns
    <3>2. Claims(r)
      BY <3>1 DEF Claims, HasKey
    <3>3. QED
      BY <1>31, <2>1, <3>1, <3>2
  <2>2. CASE \E b \in Requests : HasKey(b, key[r]) /\ ReplayOrResume(r, b)
    BY <1>4, <1>8, <2>2 DEF ReconcileT1
  <2>3. CASE Answer(r, IF Fenced(r) THEN "rejected" ELSE "retry") \/ Answer(r, "retry")
    BY <1>0, <1>1, <1>8, <2>3 DEF ReconcileT1, Fenced
  <2>4. QED
    BY <1>8, <2>1, <2>2, <2>3 DEF ReconcileT1
<1>9. CASE AnswerCreate(r)
  <2>1. CASE target[r] \in finalized /\ Answer(r, "created")
    <3>1. HasKey(target[r], key[r]) /\ print[target[r]] = print[r]
      BY <1>9 DEF AnswerCreate, Truthful
    <3>2. UNCHANGED <<status, finalized>>
      BY <1>9 DEF AnswerCreate, columns
    <3>3. Booked(r)
      BY <2>1, <3>1 DEF Booked
    <3>4. Booked(r)'
      BY <1>0, <3>2, <3>3 DEF Booked, HasKey
    <3>5. QED
      BY <1>1, <2>1, <3>4
  <2>2. CASE Answer(r, "retry")
    BY <1>1, <2>2
  <2>3. QED
    BY <1>9, <2>1, <2>2 DEF AnswerCreate
<1>10. QED
  BY <1>6, <1>7, <1>8, <1>9 DEF CreateStep

LEMMA TruthStep ==
  ASSUME Shape, [Next]_vars, \A r \in Requests : Truthful(r)
  PROVE  \A r \in Requests : Truthful(r)'
<1> SUFFICES ASSUME NEW r \in Requests PROVE Truthful(r)'
  OBVIOUS
<1>1. CASE CreateStep(r)
  BY <1>1, TruthTold
<1>2. CASE UNCHANGED <<stage, answer, target>>
  BY <1>2, TruthLasts
<1>3. ASSUME NEW q \in Requests, q # r, CreateStep(q)
      PROVE  answer'[r] = answer[r] /\ stage'[r] = stage[r] /\ target'[r] = target[r]
  BY <1>3, RequestLocal DEF Shape
<1>5. ASSUME NEW q \in Requests, q # r, CreateStep(q) PROVE Truthful(r)'
  BY <1>3, <1>5, TruthLasts
<1>6. CASE (\E b \in Requests : RowStep(b)) \/ UNCHANGED vars
  BY <1>2, <1>6 DEF RowStep, RowUpdate, request, vars
<1>7. QED
  BY <1>1, <1>5, <1>6 DEF Next

LEMMA TruthInit == Init => \A r \in Requests : Truthful(r)
  BY DEF Init, Truthful

\* A 201 is only ever given for a finalized creation of the same key and payload.
THEOREM CreatedMeansFinalized == Spec => []CreatedIsFinalized
<1> DEFINE Truth == \A r \in Requests : Truthful(r)
<1>1. Truth => CreatedIsFinalized
  BY DEF Truthful, Booked, CreatedIsFinalized
<1>2. Init => Shape /\ Truth
  BY ShapeInit, TruthInit
<1>3. Shape /\ Truth /\ [Next]_vars => Shape' /\ Truth'
  BY ShapeStep, TruthStep
<1> HIDE DEF Truth
<1>4. QED
  BY <1>1, <1>2, <1>3, PTL DEF Spec

\* No two requests with one key and payload are told contradictory things: a 201
\* has a booking, a 409 has a fence, and no key and payload has both.
THEOREM AnswersNeverContradict == Spec => []AnswersAgree
<1> DEFINE Truth == \A r \in Requests : Truthful(r)
<1>1. Shape /\ Truth /\ FencedNeverBooked => AnswersAgree
  <2> SUFFICES ASSUME Shape, Truth, FencedNeverBooked,
                      NEW r \in Requests, NEW s \in Requests,
                      key[r] = key[s], print[r] = print[s],
                      answer[r] = "created", answer[s] = "rejected"
               PROVE  FALSE
    BY DEF AnswersAgree
  <2>1. Truthful(r) /\ Truthful(s)
    OBVIOUS
  <2>2. PICK b \in finalized : HasKey(b, key[r]) /\ print[b] = print[r]
    BY <2>1 DEF Truthful, Booked
  <2>3. b \in Requests
    BY DEF Shape, TypeOK
  <2>4. <<key[s], print[s]>> \in fences
    BY <2>1 DEF Truthful, Fenced
  <2>5. QED
    BY <2>2, <2>3, <2>4 DEF FencedNeverBooked, HasKey
<1>2. Init => Shape /\ Truth /\ FencedNeverBooked
  BY ShapeInit, TruthInit DEF Init, FencedNeverBooked
<1>3. Shape /\ Truth /\ FencedNeverBooked /\ [Next]_vars => (Shape /\ Truth /\ FencedNeverBooked)'
  BY ShapeStep, TruthStep, FenceStep
<1> HIDE DEF Truth
<1>4. QED
  BY <1>1, <1>2, <1>3, PTL DEF Spec

-----------------------------------------------------------------------------
\* A cancel of an unfinished creation carries it, so that its failure restores it.
CancelCarries ==
  \A b \in Requests : op[b] = "cancel" => b \in carried \/ b \in finalized

\* No creation is left unfinished with nothing that can finish it (CF-2, CF-3).
THEOREM CreationsHaveOwners == Spec => []UnfinishedHasOwner
<1> DEFINE Owned == UnfinishedHasOwner /\ CancelCarries
<1>1. Init => Shape /\ Owned
  BY ShapeInit DEF Init, UnfinishedHasOwner, CancelCarries
<1>2. ASSUME Shape, Owned, [Next]_vars PROVE Owned'
  <2> USE DEF UnfinishedHasOwner, CancelCarries, Shape, TypeOK, OpenOpIsConfirmed
  <2>1. ASSUME NEW r \in Requests, CreateStep(r) PROVE Owned'
    <3>1. CASE InsertBooking(r)
      <4>1. op[r] = "none" /\ status[r] = "absent"
        BY <1>2, <3>1 DEF InsertBooking, InsertRow, Undecided, KeyKnown, HasKey
      <4>2. QED
        BY <1>2, <3>1, <4>1 DEF InsertBooking, InsertRow
    <3>2. CASE ~InsertBooking(r)
      BY <1>2, <2>1, <3>2, CreateWrites DEF FenceRejection, columns
    <3>3. QED
      BY <3>1, <3>2
  <2>2. ASSUME NEW b \in Requests, RowStep(b) PROVE Owned'
    <3>1. CASE CompleteCreate(b)
      BY <1>2, <3>1 DEF CompleteCreate
    <3>2. CASE CompleteReschedule(b) \/ AbandonReschedule(b)
      <4>1. /\ op[b] = "reschedule" /\ op' = [op EXCEPT ![b] = "none"]
            /\ UNCHANGED <<status, carried>>
            /\ finalized' = finalized \cup {b} \/ finalized' = finalized
        BY <3>2 DEF CompleteReschedule, AbandonReschedule
      <4>2. QED
        BY <1>2, <4>1
    <3>3. CASE BeginCancel(b)
      BY <1>2, <3>3 DEF BeginCancel
    <3>4. CASE ReplaceByCancel(b)
      <4>1. /\ op' = [op EXCEPT ![b] = "cancel"]
            /\ UNCHANGED <<status, finalized>>
        BY <3>4 DEF ReplaceByCancel
      <4>2. CASE op[b] = "create"
        <5>1. \A c \in Requests : c \in carried' <=> c \in carried \/ (c = b /\ b \notin finalized)
          BY <3>4, <4>2 DEF ReplaceByCancel
        <5>2. carried' \subseteq Requests
          BY <1>2, <3>4, <4>2 DEF ReplaceByCancel
        <5>3. QED
          BY <1>2, <4>1, <4>2, <5>1, <5>2
      <4>3. CASE op[b] = "reschedule"
        <5>1. UNCHANGED carried
          BY <3>4, <4>3 DEF ReplaceByCancel
        <5>2. QED
          BY <1>2, <4>1, <4>3, <5>1
      <4>4. QED
        BY <3>4, <4>2, <4>3 DEF ReplaceByCancel
    <3>5. CASE CompleteCancel(b)
      BY <1>2, <3>5 DEF CompleteCancel
    <3>6. CASE CancelFails(b)
      BY <1>2, <3>6 DEF CancelFails
    <3>7. ASSUME NEW w \in Windows, BeginReschedule(b, w) PROVE Owned'
      BY <1>2, <3>7 DEF BeginReschedule
    <3>8. QED
      BY <2>2, <3>1, <3>2, <3>3, <3>4, <3>5, <3>6, <3>7 DEF RowStep, RowUpdate
  <2>3. CASE UNCHANGED vars
    BY <1>2, <2>3 DEF vars, columns
  <2>4. QED
    BY <1>2, <2>1, <2>2, <2>3 DEF Next
<1>3. Owned => UnfinishedHasOwner
  OBVIOUS
<1> HIDE DEF Owned
<1>4. QED
  BY <1>1, <1>2, <1>3, ShapeStep, PTL DEF Spec

\* A 201 has its finalized creation, and no other caller of it was told 409.
THEOREM AnswersAlwaysHold == Spec => []AnswersHold
  BY CreatedMeansFinalized, AnswersNeverContradict, PTL DEF AnswersHold

\* No destination and no creation waits for a handler that is not there.
THEOREM WorkIsOwned == Spec => []WorkHasOwner
  BY ReservationsOwned, CreationsHaveOwners, PTL DEF WorkHasOwner
=============================================================================
