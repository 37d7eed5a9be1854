-------------------------- MODULE BookingFormProofs --------------------------
(***************************************************************************)
(* The booking form's safety for every number of submissions, handlers and *)
(* reloads.  After the types come the server's promise (Promised), what no *)
(* step has touched yet (Fresh), the record (RecordSound), and Accounted:  *)
(* a key is given up, current, the booking shown, or can never be booked.  *)
(***************************************************************************)
EXTENDS BookingForm, FiniteSetTheorems, TLAPS

USE PageStarts

Typed ==
  /\ TypeOK
  /\ \A h \in Handlers : answer[h] # "none" => at[h] \in {"submit", "replay"}

\* What answer a says of the booking of key k.
Says(a, k) ==
  /\ a \in {"created", "garbled"} => row[k] = "booked"
  /\ a = "conflict" => k \in fenced
  /\ a = "invalid" => k \in unfit

Truthful(h) == Says(answer[h], key[h])

\* The keys that can never be booked.
Barred == fenced \cup unfit

\* No barred key has a row, and answers tell the truth.
Promised ==
  /\ \A k \in Barred : row[k] = "none"
  /\ \A h \in Handlers : Truthful(h)

Fresh ==
  \A k \in Keys \ minted :
    /\ row[k] = "none" /\ k \notin late \cup forgotten \cup unfit /\ k # stored /\ k # memory
    /\ \A h \in Handlers : key[h] # k

RecordSound ==
  /\ Unresolved \notin forgotten
  /\ storage # "denied" /\ memory # None => stored \in {memory, None}

NoticeSound == notice # None => notice \in Barred \cup unread

VisitSound == visited # None => row[visited] = "booked" /\ visited \notin forgotten /\ Unresolved = None

Unsent(k) ==
  row[k] = "none" /\ k \notin late /\ k # stored /\ k # memory /\ \A h \in Handlers : key[h] # k

Accounted ==
  \A k \in minted :
    \/ k \in forgotten \cup unread \cup Barred
    \/ k = Unresolved \/ k = visited \/ Unsent(k)

IInv == Typed /\ Promised /\ Fresh /\ RecordSound /\ NoticeSound /\ VisitSound /\ Accounted
-----------------------------------------------------------------------------
LEMMA InitHolds == Init => IInv
<1> SUFFICES ASSUME Init PROVE IInv
  OBVIOUS
<1>1. Typed
  <2>1. {stored, memory, auto, notice, visited} \subseteq Keys \cup {None}
    BY DEF Init
  <2>2. reloads \in 0 .. Reloads
    BY DEF Init
  <2>3. QED
    BY <2>1, <2>2 DEF Init, Typed, TypeOK, Answers
<1>2. Unresolved = None
  BY DEF Init, Unresolved, Readable
<1>3. Promised /\ Fresh /\ NoticeSound /\ VisitSound /\ Accounted
  BY DEF Init, Promised, Truthful, Says, Barred, Fresh, NoticeSound, VisitSound, Accounted
<1>4. RecordSound
  BY <1>2 DEF Init, RecordSound
<1>5. QED
  BY <1>1, <1>3, <1>4 DEF IInv

\* What a server step does to every key: one key moves, and only forwards.
Moves(k) ==
  /\ row' \in [Keys -> {"none", "open", "booked"}] /\ fenced' \subseteq Keys
  /\ \A j \in Keys : j # k => row'[j] = row[j] /\ (j \in fenced' <=> j \in fenced)
  /\ row[k] = "booked" => row'[k] = "booked"
  /\ k \in fenced => k \in fenced'
  /\ k \in fenced' \cup unfit => row'[k] = "none"

LEMMA WritesMove ==
  ASSUME TypeOK, Promised, NEW k \in Keys, Writes(k) \/ Stays
  PROVE  Moves(k)
  BY DEF TypeOK, Promised, Barred, Writes, Fences, Opens, Books, SetRow, Stays, Moves

LEMMA ServesMove ==
  ASSUME TypeOK, Promised, NEW k \in Keys, NEW a, Serves(k, a)
  PROVE  /\ Moves(k)
         /\ unfit' = unfit => Says(a, k)'
<1>1. Writes(k) \/ Stays
  BY DEF Serves, Writes
<1>2. Moves(k)
  BY <1>1, WritesMove
<1>3. a \in {"created", "garbled"} => row'[k] = "booked"
  BY DEF Serves, Books, SetRow, Stays, TypeOK
<1>4. a = "conflict" => k \in fenced'
  BY DEF Serves, Fences, Stays
<1>5. a = "invalid" => k \in unfit
  BY DEF Serves
<1>6. QED
  BY <1>2, <1>3, <1>4, <1>5 DEF Says

\* A server step for a key that was sent preserves everything the page knows.
LEMMA ServerStep ==
  ASSUME IInv, NEW k \in Keys, Moves(k), ~Unsent(k), k \in minted,
         UNCHANGED <<record, at, key, page, rest>>,
         late' \in {late, late \cup {k}},
         answer' \in [Handlers -> Answers \cup {"none", "lost"}],
         \A h \in Handlers : answer'[h] # "none" => at[h] \in {"submit", "replay"},
         \A h \in Handlers : answer'[h] = answer[h] \/
            (key[h] = k /\ Truthful(h)')
  PROVE  IInv'
<1>1. TypeOK'
  BY DEF IInv, Typed, TypeOK, Moves, record, page, rest
<1>2. Typed'
  BY <1>1 DEF Typed
<1>3. Promised'
  <2>1. \A j \in Barred' : row'[j] = "none"
    BY DEF IInv, Typed, TypeOK, Promised, Barred, Moves, record
  <2>2. ASSUME NEW h \in Handlers PROVE Truthful(h)'
    <3>1. CASE answer'[h] = answer[h] /\ answer[h] # "none"
      <4>1. key[h] \in Keys
        BY <3>1 DEF IInv, Typed, TypeOK
      <4>2. Truthful(h)
        BY DEF IInv, Promised
      <4>3. QED
        BY <3>1, <4>1, <4>2 DEF Truthful, Says, Moves, record
    <3>2. CASE answer'[h] = answer[h] /\ answer[h] = "none"
      BY <3>2 DEF Truthful, Says
    <3>3. QED
      BY <3>1, <3>2
  <2>3. QED
    BY <2>1, <2>2 DEF Promised
<1>4. Fresh'
  BY DEF IInv, Fresh, Moves, record
<1>5. Unresolved' = Unresolved
  BY DEF Unresolved, Readable, record, rest
<1>6. RecordSound'
  BY <1>5 DEF IInv, RecordSound, record, rest
<1>7. NoticeSound'
  BY DEF IInv, Typed, TypeOK, NoticeSound, Barred, Moves, page, record
<1>8. VisitSound'
  BY <1>5 DEF IInv, Typed, TypeOK, VisitSound, Moves, page, record
<1>9. Accounted'
  <2> SUFFICES ASSUME NEW j \in minted
               PROVE  \/ j \in forgotten \cup unread \cup Barred'
                      \/ j = Unresolved \/ j = visited \/ Unsent(j)'
    BY <1>5 DEF Accounted, record, page
  <2>1. \/ j \in forgotten \cup unread \cup Barred
        \/ j = Unresolved \/ j = visited \/ Unsent(j)
    BY DEF IInv, Accounted
  <2>2. j \in Barred => j \in Barred'
    BY DEF IInv, Typed, TypeOK, Barred, Moves, record
  <2>3. Unsent(j) /\ j # k => Unsent(j)'
    BY DEF IInv, Typed, TypeOK, Unsent, Moves, record
  <2>4. QED
    BY <2>1, <2>2, <2>3
<1>10. QED
  BY <1>2, <1>3, <1>4, <1>6, <1>7, <1>8, <1>9 DEF IInv
LEMMA LateStep == IInv /\ (LateArrives \/ OpenEnds) => IInv'
<1> SUFFICES ASSUME IInv, NEW k \in Keys, k \in late \/ row[k] = "open", Writes(k),
                    UNCHANGED <<late, record, handler, page, rest>>
             PROVE  IInv'
  BY DEF LateArrives, OpenEnds, IInv, Typed, TypeOK, Promised, Barred, Books, Writes
<1>1. Moves(k)
  BY WritesMove DEF IInv, Typed
<1>2. k \in minted /\ ~Unsent(k)
  BY DEF IInv, Fresh, Unsent
<1>3. QED
  BY <1>1, <1>2, ServerStep DEF handler, IInv, Typed, TypeOK

LEMMA ServedStep ==
  ASSUME IInv, NEW h \in Handlers, Served(h)
  PROVE  IInv'
<1> DEFINE k == key[h]
<1>1. k \in Keys /\ at[h] \in {"submit", "replay"}
  BY DEF Served, InFlight, IInv, Typed, TypeOK
<1>2. k \in minted /\ ~Unsent(k)
  BY <1>1 DEF IInv, Fresh, Unsent
<1>3. CASE answer' = [answer EXCEPT ![h] = "lost"] /\ late' = late \cup {k} /\ Stays
  <2>1. Moves(k)
    BY <1>1, <1>3, WritesMove DEF IInv, Typed
  <2>2. QED
    BY <1>1, <1>2, <1>3, <2>1, ServerStep DEF Served, Truthful, Says, IInv, Typed, TypeOK
<1>4. ASSUME NEW a \in Answers,
             Serves(k, a), answer' = [answer EXCEPT ![h] = a], late' = late
      PROVE  IInv'
  <2>1. PICK q \in Keys : q = k
    BY <1>1
  <2>2. Moves(q) /\ Says(a, q)'
    BY <1>1, <1>4, <2>1, ServesMove DEF IInv, Typed, Served, record
  <2>3. Truthful(h)'
    BY <1>4, <2>1, <2>2 DEF Truthful, Says, Served, IInv, Typed, TypeOK
  <2>4. QED
    BY <1>1, <1>2, <1>4, <2>1, <2>2, <2>3, ServerStep DEF Served, IInv, Typed, TypeOK
<1>5. QED
  BY <1>3, <1>4 DEF Served
-----------------------------------------------------------------------------
Stages == {"idle", "submit", "replay", "wait", "conflict"}

\* What a handler's move to its next await does to the handlers.
HandlersMove(k) ==
  /\ at' \in [Handlers -> Stages]
  /\ answer' \in [Handlers -> Answers \cup {"none", "lost"}]
  /\ key' \in [Handlers -> Keys \cup {None}]
  /\ \A h \in Handlers : at'[h] \in {"submit", "replay", "wait"} => key'[h] \in Keys
  /\ \A h \in Handlers : answer'[h] # "none" =>
       at'[h] \in {"submit", "replay"} /\ answer'[h] = answer[h] /\ key'[h] = key[h]
  /\ \A h \in Handlers : key'[h] \in {key[h], k}

LEMMA AwaitsMove ==
  ASSUME Typed, NEW h \in Handlers, NEW p \in Stages, NEW k \in Keys \cup {None},
         p \in {"submit", "replay", "wait"} => k \in Keys, Awaits(h, p, k)
  PROVE  HandlersMove(k)
  BY DEF Typed, TypeOK, Awaits, HandlersMove, Stages

LEMMA StillMove == Typed /\ UNCHANGED handler => HandlersMove(None)
  BY DEF Typed, TypeOK, handler, HandlersMove, Stages

\* How a page step may treat the record: keep it, or clear it for one of four reasons.
Keeps == UNCHANGED <<memory, stored, forgotten, unread, visited>>
Discards ==
  /\ ClearUnresolved /\ visited = None /\ visited' = visited /\ unread' = unread
  /\ forgotten' = forgotten \cup ({Unresolved} \ {None})
Settles ==
  /\ ClearUnresolved /\ UNCHANGED forgotten
  /\ \/ visited' = visited /\ unread' = unread /\ Unresolved \in Barred
     \/ visited' = visited /\ unread' = unread \cup {Unresolved} /\ Unresolved \in Keys
     \/ visited' = Unresolved /\ unread' = unread /\ Unresolved \in Keys /\ row[Unresolved] = "booked"

LEMMA UnresolvedTyped == TypeOK => Unresolved \in Keys \cup {None}
  BY DEF TypeOK, Unresolved, Readable

LEMMA Cleared == ClearUnresolved /\ UNCHANGED storage => Unresolved' = None
  BY DEF ClearUnresolved, Unresolved, Readable

\* A step of the page that sends no new key preserves the invariant.
LEMMA PageStep ==
  ASSUME IInv, NEW k \in {None, Unresolved} \cup {key[h] : h \in Handlers}, HandlersMove(k),
         UNCHANGED <<server, minted, unfit, rest>>,
         Keeps \/ Discards \/ Settles,
         recovery' \in {"idle", "recovering", "stalled"}, latch' \in BOOLEAN,
         auto' \in Keys \cup {None}, notice' \in Keys \cup {None},
         notice' = notice \/ notice' \in Barred \cup unread'
  PROVE  IInv'
<1>1. TypeOK'
  <2>1. {stored', memory', visited'} \subseteq Keys \cup {None} /\ forgotten' \subseteq Keys /\ unread' \subseteq Keys
    BY UnresolvedTyped DEF IInv, Typed, TypeOK, Keeps, Discards, Settles, ClearUnresolved
  <2>2. QED
    BY <2>1 DEF IInv, Typed, TypeOK, HandlersMove, Stages, server, rest
<1>2. Typed'
  BY <1>1 DEF Typed, HandlersMove
<1>3. Promised'
  <2>1. \A h \in Handlers : Truthful(h)'
    BY DEF IInv, Promised, HandlersMove, Truthful, Says, server
  <2>2. QED
    BY <2>1 DEF IInv, Promised, Barred, server
<1>4. Fresh'
  <2> SUFFICES ASSUME NEW j \in Keys \ minted PROVE (j \notin forgotten /\ j # stored /\ j # memory /\ \A h \in Handlers : key[h] # j)'
    BY DEF IInv, Fresh, server
  <2>1. j \notin forgotten /\ j # stored /\ j # memory /\ (\A h \in Handlers : key[h] # j) /\ j # Unresolved /\ j # None
    BY DEF IInv, Fresh, Unresolved, Readable
  <2>2. k # j
    BY <2>1
  <2>3. QED
    BY <2>1, <2>2 DEF HandlersMove, Keeps, Discards, Settles, ClearUnresolved
<1>5. Keeps => Unresolved' = Unresolved
  BY DEF Keeps, Unresolved, Readable, rest
<1>6. Discards \/ Settles => Unresolved' = None
  BY Cleared DEF Discards, Settles, rest
<1>7. RecordSound'
  BY <1>5, <1>6 DEF IInv, Typed, TypeOK, RecordSound, Keeps, Discards, Settles, ClearUnresolved, rest
<1>8. NoticeSound'
  BY DEF IInv, NoticeSound, Barred, server, Keeps, Discards, Settles
<1>9. VisitSound'
  BY <1>5, <1>6 DEF IInv, VisitSound, RecordSound, Keeps, Discards, Settles, server
<1>10. Accounted'
  <2> SUFFICES ASSUME NEW j \in minted
               PROVE  \/ j \in forgotten' \cup unread' \cup Barred
                      \/ j = Unresolved' \/ j = visited' \/ Unsent(j)'
    BY DEF Accounted, Barred, server
  <2>1. \/ j \in forgotten \cup unread \cup Barred
        \/ j = Unresolved \/ j = visited \/ Unsent(j)
    BY DEF IInv, Accounted
  <2>2. j \in Keys /\ j # None
    BY DEF IInv, Typed, TypeOK
  <2>3. j = Unresolved => j = Unresolved' \/ j = visited' \/ j \in forgotten' \cup unread' \cup Barred
    BY <1>5, <2>2 DEF Keeps, Discards, Settles
  <2>4. j \in forgotten \cup unread => j \in forgotten' \cup unread'
    BY DEF Keeps, Discards, Settles
  <2>5. j = visited => j = visited' \/ j = Unresolved
    BY <2>2 DEF Keeps, Discards, Settles, IInv, VisitSound, Typed, TypeOK
  <2>6. Unsent(j) /\ j # Unresolved => Unsent(j)'
    <3> SUFFICES ASSUME Unsent(j), j # Unresolved PROVE Unsent(j)'
      OBVIOUS
    <3>1. k # j
      BY <2>2 DEF Unsent
    <3>2. QED
      BY <2>2, <3>1 DEF Unsent, HandlersMove, Keeps, Discards, Settles, ClearUnresolved, server
  <2>7. QED
    BY <2>1, <2>3, <2>4, <2>5, <2>6
<1>11. QED
  BY <1>2, <1>3, <1>4, <1>7, <1>8, <1>9, <1>10 DEF IInv

LEMMA TryAgainStep ==
  ASSUME IInv, NEW h \in Handlers, TryAgain(h)
  PROVE  IInv'
<1>1. Unresolved \in Keys \cup {None}
  BY UnresolvedTyped DEF IInv, Typed
<1>2. CASE Unresolved = None
  <2>1. HandlersMove(None)
    BY <1>2, StillMove DEF TryAgain, IInv
  <2>2. QED
    BY <1>2, <2>1, PageStep DEF TryAgain, record, server, rest, Keeps, IInv, Typed, TypeOK
<1>3. CASE Unresolved # None
  <2>1. HandlersMove(Unresolved)
    BY <1>1, <1>3, AwaitsMove DEF TryAgain, IInv, Stages
  <2>2. QED
    BY <1>1, <1>3, <2>1, PageStep DEF TryAgain, record, server, rest, Keeps, IInv, Typed, TypeOK
<1>4. QED
  BY <1>2, <1>3

LEMMA StartOverStep == IInv /\ StartOver => IInv'
<1> SUFFICES ASSUME IInv, StartOver PROVE IInv'
  OBVIOUS
<1>1. HandlersMove(None)
  BY StillMove DEF StartOver, IInv
<1>2. Discards
  BY DEF StartOver, Shows, Discards
<1>3. QED
  BY <1>1, <1>2, PageStep DEF StartOver, server, rest, IInv, Typed, TypeOK

LEMMA ConflictOverStep ==
  ASSUME IInv, NEW h \in Handlers, ConflictOver(h)
  PROVE  IInv'
<1>1. HandlersMove(None)
  BY AwaitsMove DEF ConflictOver, Ends, IInv, Stages
<1>2. QED
  BY <1>1, PageStep DEF ConflictOver, Release, record, server, rest, Keeps, IInv, Typed, TypeOK

LEMMA WaitOverStep ==
  ASSUME IInv, NEW h \in Handlers, WaitOver(h)
  PROVE  IInv'
<1>1. key[h] \in Keys
  BY DEF WaitOver, IInv, Typed, TypeOK
<1>2. HandlersMove(None) \/ HandlersMove(key[h])
  BY <1>1, AwaitsMove DEF WaitOver, Ends, IInv, Stages
<1>3. QED
  BY <1>2, PageStep DEF WaitOver, page, record, server, rest, Keeps, IInv, Typed, TypeOK

\* An answer that fails leaves the record alone; a terminal one for the current key clears it.
LEMMA FailsStep ==
  ASSUME IInv, NEW h \in Handlers, at[h] \in {"submit", "replay"}, answer[h] # "none",
         UNCHANGED <<server, record, visited, rest, notice>>, latch' \in BOOLEAN,
         \/ Ends(h) /\ recovery' \in {recovery, "stalled"} /\ UNCHANGED auto
         \/ AutoReplay(h, key[h])
  PROVE  IInv'
<1>1. key[h] \in Keys
  BY DEF IInv, Typed, TypeOK
<1>2. HandlersMove(None) \/ HandlersMove(key[h])
  BY <1>1, AwaitsMove DEF AutoReplay, Ends, IInv, Stages
<1>3. recovery' \in {"idle", "recovering", "stalled"} /\ auto' \in Keys \cup {None}
  BY <1>1 DEF AutoReplay, IInv, Typed, TypeOK
<1>4. QED
  BY <1>2, <1>3, PageStep DEF record, Keeps, IInv, Typed, TypeOK

LEMMA SettlesStep ==
  ASSUME IInv, NEW h \in Handlers, at[h] \in {"submit", "replay"}, answer[h] # "none",
         Clears(h, answer[h]),
         UNCHANGED <<server, auto, rest>>, latch' \in BOOLEAN,
         recovery' \in {"idle", "recovering", "stalled"},
         \/ answer[h] = "created" /\ visited' = key[h] /\ Ends(h) /\ notice' = notice
         \/ /\ answer[h] # "created" /\ visited' = visited /\ notice' \in {notice, key[h]}
            /\ Ends(h) \/ Awaits(h, "conflict", None)
  PROVE  IInv'
<1>1. key[h] \in Keys /\ Unresolved = key[h]
  BY DEF IInv, Typed, TypeOK, Clears, IsCurrentKey
<1>2. HandlersMove(None)
  BY AwaitsMove DEF Ends, IInv, Stages
<1>3. /\ answer[h] = "created" => row[key[h]] = "booked"
      /\ answer[h] \in {"created", "garbled", "conflict", "invalid"}
      /\ answer[h] \in {"conflict", "invalid"} => key[h] \in Barred
  BY DEF IInv, Promised, Truthful, Says, Barred, Clears, IsTerminalForKey
<1>4. Settles
  BY <1>1, <1>3 DEF Settles, Clears
<1>5. notice' \in Keys \cup {None} /\ (notice' = notice \/ notice' \in Barred \cup unread')
  BY <1>1, <1>3 DEF IInv, Typed, TypeOK, Clears
<1>6. QED
  BY <1>2, <1>4, <1>5, PageStep DEF Clears, IInv, Typed, TypeOK

LEMMA SubmittedStep ==
  ASSUME IInv, NEW h \in Handlers, Submitted(h)
  PROVE  IInv'
<1>1. CASE SubmitFails(h, answer[h])
  BY <1>1, FailsStep DEF Submitted, SubmitFails, Stalls, Release, rest
<1>2. CASE SubmitSettles(h, answer[h])
  BY <1>2, SettlesStep DEF Submitted, SubmitSettles, Clears, Release, Navigate, rest, IInv, Typed, TypeOK
<1>3. QED
  BY <1>1, <1>2 DEF Submitted

LEMMA ReplayedStep ==
  ASSUME IInv, NEW h \in Handlers, Replayed(h)
  PROVE  IInv'
<1>1. CASE ReplayFails(h, answer[h])
  BY <1>1, FailsStep DEF Replayed, ReplayFails, Stalls, IInv, Typed, TypeOK
<1>2. CASE ReplaySettles(h, answer[h])
  BY <1>2, SettlesStep DEF Replayed, ReplaySettles, Navigate, IInv, Typed, TypeOK
<1>3. QED
  BY <1>1, <1>2 DEF Replayed

\* A minted key is new to everything; the one it follows was accounted for.
LEMMA SubmitStep ==
  ASSUME IInv, NEW h \in Handlers, Submit(h)
  PROVE  IInv'
<1>1. CASE UNCHANGED record
  <2>1. HandlersMove(None)
    BY <1>1, StillMove, AwaitsMove DEF Submit, RememberUnresolved, ClearUnresolved, IInv, Stages, record
  <2>2. QED
    BY <1>1, <2>1, PageStep DEF Submit, record, server, rest, Keeps, IInv, Typed, TypeOK
<1>2. ASSUME NEW k \in Keys \ minted, Unresolved = None, minted' = minted \cup {k}, forgotten' = forgotten,
             unread' = unread,
             \/ /\ RememberUnresolved(k) /\ Awaits(h, "submit", k)
                /\ unfit' \in {unfit, unfit \cup {k}}
             \/ ClearUnresolved /\ Awaits(h, "conflict", None) /\ unfit' = unfit,
             UNCHANGED <<server, recovery, auto, notice, visited, rest>>, latch' = TRUE, visited = None
      PROVE  IInv'
  <2>1. HandlersMove(k) \/ HandlersMove(None)
    BY <1>2, AwaitsMove DEF IInv, Stages
  <2>2. memory = None
    BY <1>2 DEF Unresolved
  <2>3. TypeOK'
    <3>1. {stored', memory'} \subseteq Keys \cup {None}
      BY <1>2 DEF RememberUnresolved, ClearUnresolved, IInv, Typed, TypeOK
    <3>2. QED
      BY <1>2, <2>1, <3>1 DEF IInv, Typed, TypeOK, HandlersMove, Stages, server, rest
  <2>4. Typed'
    BY <2>1, <2>3 DEF Typed, HandlersMove
  <2>5. Promised'
    <3>1. \A g \in Handlers : Truthful(g)'
      BY <1>2, <2>1 DEF IInv, Promised, Truthful, Says, HandlersMove, server
    <3>2. \A j \in Barred' : row'[j] = "none"
      BY <1>2 DEF IInv, Promised, Fresh, Barred, server
    <3>3. QED
      BY <3>1, <3>2 DEF Promised
  <2>6. /\ row[k] = "none" /\ k \notin late \cup forgotten /\ k # stored /\ k # None
        /\ \A g \in Handlers : key[g] # k
    BY DEF IInv, Fresh
  <2>7. Fresh'
    BY <1>2, <2>1 DEF IInv, Fresh, HandlersMove, RememberUnresolved, ClearUnresolved, server
  <2>8. NoticeSound' /\ VisitSound'
    BY <1>2 DEF IInv, NoticeSound, VisitSound, Barred, server
  <2>9. ASSUME NEW j \in minted
        PROVE  j \in forgotten' \cup unread' \cup Barred' \/ Unsent(j)'
    <3>1. j \in Keys /\ j # None /\ j # k
      BY DEF IInv, Typed, TypeOK
    <3>2. j \in forgotten \cup unread \cup Barred \/ Unsent(j)
      BY <1>2, <3>1 DEF IInv, Accounted
    <3>3. Unsent(j) => Unsent(j)'
      BY <1>2, <2>1, <3>1 DEF Unsent, HandlersMove, RememberUnresolved, ClearUnresolved, server
    <3>4. QED
      BY <1>2, <3>2, <3>3 DEF Barred, server
  <2>10. CASE RememberUnresolved(k) /\ Awaits(h, "submit", k)
    <3>1. Unresolved' = k
      BY <2>6, <2>10 DEF Unresolved, RememberUnresolved
    <3>2. RecordSound'
      BY <1>2, <2>2, <2>6, <2>10, <3>1 DEF IInv, RecordSound, RememberUnresolved, Unresolved, Readable, rest
    <3>3. Accounted'
      BY <1>2, <2>9, <3>1 DEF Accounted
    <3>4. QED
      BY <2>4, <2>5, <2>7, <2>8, <3>2, <3>3 DEF IInv
  <2>11. CASE ClearUnresolved /\ Awaits(h, "conflict", None)
    <3>1. Unresolved' = None
      BY <1>2, <2>11, Cleared DEF rest
    <3>2. RecordSound'
      BY <1>2, <2>11, <3>1 DEF IInv, RecordSound, ClearUnresolved, Typed, TypeOK
    <3>3. HandlersMove(None)
      BY <2>11, AwaitsMove DEF IInv, Stages
    <3>4. Unsent(k)'
      BY <1>2, <2>6, <2>11, <3>3 DEF Unsent, HandlersMove, ClearUnresolved, server
    <3>5. Accounted'
      BY <1>2, <2>9, <3>4 DEF Accounted
    <3>6. QED
      BY <2>4, <2>5, <2>7, <2>8, <3>2, <3>5 DEF IInv
  <2>12. QED
    BY <1>2, <2>10, <2>11
<1>3. CASE /\ Unresolved = None /\ latch' = TRUE
           /\ \E k \in Keys \ minted :
                /\ minted' = minted \cup {k}
                /\ \/ /\ RememberUnresolved(k) /\ Awaits(h, "submit", k)
                      /\ unfit' \in {unfit, unfit \cup {k}}
                   \/ ClearUnresolved /\ Awaits(h, "conflict", None) /\ UNCHANGED unfit
           /\ UNCHANGED <<forgotten, unread, recovery>>
  BY <1>2, <1>3 DEF Submit, Shows
<1>4. QED
  BY <1>1, <1>3 DEF Submit, record

\* A reload gives up the current key unless it finds its record, and takes back the one it finds.
LEMMA ReloadStep == IInv /\ Reload => IInv'
<1> SUFFICES ASSUME IInv, Reload PROVE IInv'
  OBVIOUS
<1> DEFINE found == IF storage' = "denied" THEN None ELSE stored
           mounted == IF twice THEN {First, Second} ELSE {First}
<1>1. Unresolved' = found
  BY DEF Reload, Unresolved, Readable
<1>2. found \in Keys \cup {None} /\ Unresolved \in Keys \cup {None}
  BY UnresolvedTyped DEF IInv, Typed, TypeOK
<1>3. /\ forgotten' = (forgotten \cup ({Unresolved} \ {None})) \ {found}
      /\ late' = late \cup {key[h] : h \in {g \in Handlers : InFlight(g)}}
      /\ recovery' \in {"idle", "recovering"}
      /\ \A h \in Handlers : key'[h] \in {found, None} /\ answer'[h] = "none"
      /\ \A h \in Handlers : at'[h] = "idle" \/ (at'[h] = "replay" /\ key'[h] = found /\ found # None)
      /\ memory' = None /\ stored' = stored /\ minted' = minted /\ visited = None /\ visited' = None
      /\ notice' = None /\ row' = row /\ fenced' = fenced /\ unfit' = unfit
      /\ unread' = unread \ {found}
  BY DEF Reload
<1>4. \A h \in Handlers : InFlight(h) => key[h] \in Keys
  BY DEF IInv, Typed, TypeOK, InFlight
<1> HIDE DEF found
<1>5. TypeOK'
  <2>1. late' \subseteq Keys /\ forgotten' \subseteq Keys /\ unread' \subseteq Keys
    BY <1>2, <1>3, <1>4 DEF IInv, Typed, TypeOK
  <2>2. /\ at' \in [Handlers -> {"idle", "submit", "replay", "wait", "conflict"}]
        /\ answer' \in [Handlers -> Answers \cup {"none", "lost"}]
        /\ key' \in [Handlers -> Keys \cup {None}]
    BY <1>2 DEF Reload, found
  <2>3. reloads' \in 0 .. Reloads
    BY DEF Reload, IInv, Typed, TypeOK
  <2>4. {stored, memory, auto, notice, visited}' \subseteq Keys \cup {None}
    BY <1>3 DEF Reload, IInv, Typed, TypeOK
  <2>5. \A h \in Handlers : at'[h] \in {"submit", "replay", "wait"} => key'[h] \in Keys
    BY <1>2, <1>3
  <2>6. QED
    BY <1>3, <2>1, <2>2, <2>3, <2>4, <2>5 DEF Reload, IInv, Typed, TypeOK
<1>6. Typed'
  BY <1>3, <1>5 DEF Typed
<1>7. Promised'
  BY <1>3 DEF IInv, Promised, Barred, Truthful, Says
<1>8. Fresh'
  <2> SUFFICES ASSUME NEW j \in Keys \ minted
               PROVE  /\ j \notin late' \cup forgotten' /\ j # stored
                      /\ \A h \in Handlers : key'[h] # j
    BY <1>3 DEF IInv, Fresh
  <2>1. /\ j \notin late \cup forgotten /\ j # stored /\ j # memory /\ j # None
        /\ \A h \in Handlers : key[h] # j
    BY DEF IInv, Fresh
  <2>2. j # found /\ j # Unresolved
    BY <2>1 DEF found, Unresolved, Readable
  <2>3. QED
    BY <1>3, <2>1, <2>2
<1>9. RecordSound' /\ NoticeSound' /\ VisitSound'
  BY <1>1, <1>3 DEF RecordSound, NoticeSound, VisitSound
<1>10. Accounted'
  <2> SUFFICES ASSUME NEW j \in minted
               PROVE  j \in forgotten' \cup unread' \cup Barred \/ j = found \/ Unsent(j)'
    BY <1>1, <1>3 DEF Accounted, Barred
  <2>1. j \in Keys /\ j # None
    BY DEF IInv, Typed, TypeOK
  <2>2. j \in forgotten \cup unread \cup Barred \/ j = Unresolved \/ Unsent(j)
    BY <1>3, <2>1 DEF IInv, Accounted
  <2>3. Unsent(j) => Unsent(j)'
    BY <1>3, <2>1 DEF Unsent, found
  <2>4. QED
    BY <1>3, <2>1, <2>2, <2>3
<1>11. QED
  BY <1>6, <1>7, <1>8, <1>9, <1>10 DEF IInv

\* The inductive invariant holds in every reachable state: in its first one, and
\* after every step of the page, of the network and of the server.
THEOREM Inductive == Spec => []IInv
<1>1. IInv /\ [Next]_vars => IInv'
  <2> SUFFICES ASSUME IInv, [Next]_vars PROVE IInv'
    OBVIOUS
  <2>1. CASE UNCHANGED vars
    <3>1. HandlersMove(None) /\ Keeps
      BY <2>1, StillMove DEF vars, record, page, IInv, Keeps
    <3>2. QED
      BY <2>1, <3>1, PageStep DEF vars, record, page, IInv, Typed, TypeOK
  <2>2. ASSUME NEW h \in Handlers, Submit(h) \/ TryAgain(h) \/ Goes(h) PROVE IInv'
    BY <2>2, SubmitStep, TryAgainStep, ServedStep, SubmittedStep, ReplayedStep, WaitOverStep,
       ConflictOverStep DEF Goes
  <2>3. QED
    BY <2>1, <2>2, StartOverStep, ReloadStep, LateStep DEF Next
<1>2. QED
  BY <1>1, InitHolds, PTL DEF Spec

\* Every reachable state of the form and of its record is well typed.
THEOREM FormTyping == Spec => []TypeOK
<1>1. IInv => TypeOK
  BY DEF IInv, Typed
<1>2. QED
  BY <1>1, Inductive, PTL

\* The keys that hold time, were not given up and were not cleared unread are the current
\* one, or the one shown.
LEMMA HeldIsKnown == IInv => \A k \in Held \ (forgotten \cup unread) : k \in {Unresolved, visited}
  BY DEF IInv, Accounted, Fresh, Promised, Held, Unsent

\* However answers are lost, delayed or refused and whenever the page is reloaded, a guest
\* who does not start over, and whose browser keeps the record, holds one booking at most,
\* those left out whose 201 could not be read.
THEOREM OneBookingHeld == Spec => []OneBooking
<1>1. IInv => OneBooking
  <2> SUFFICES ASSUME IInv PROVE OneBooking
    OBVIOUS
  <2> DEFINE known == Held \ (forgotten \cup unread)
  <2>1. None \notin known
    BY PageStarts DEF Held
  <2>2. visited = None \/ Unresolved = None
    BY DEF IInv, VisitSound
  <2>3. PICK k : known \subseteq {k}
    BY <2>1, <2>2, HeldIsKnown
  <2>4. IsFiniteSet({k}) /\ Cardinality({k}) = 1
    BY FS_Singleton
  <2>5. Cardinality(known) <= 1
    BY <2>3, <2>4, FS_Subset, FS_CardinalityType
  <2>6. QED
    BY <2>5 DEF OneBooking
<1>2. QED
  BY <1>1, Inductive, PTL

\* The notice that a booking did not go through is true and stays true, unless the notice
\* is about a 201 that could not be read.
THEOREM NoticeStaysTrue == Spec => []NoticeIsTrue
<1>1. IInv => NoticeIsTrue
  BY DEF IInv, NoticeSound, Promised, NoticeIsTrue
<1>2. QED
  BY <1>1, Inductive, PTL

\* An unreadable 201 is the only way in which a booking that was made leaves the guest's
\* sight: every other one is on record, on screen or given up.
THEOREM CommittedStaysKnown == Spec => []Known(Keys \ (forgotten \cup unread))
<1>1. IInv => Known(Keys \ (forgotten \cup unread))
  BY HeldIsKnown DEF Known, Held
<1>2. QED
  BY <1>1, Inductive, PTL

\* The page only goes to a booking that was made and that the guest has not given up.
THEOREM NavigationIsWanted == Spec => []NeverDraggedBack
<1>1. IInv => NeverDraggedBack
  BY DEF IInv, VisitSound, NeverDraggedBack
<1>2. QED
  BY <1>1, Inductive, PTL

=============================================================================
