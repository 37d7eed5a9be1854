------------------------- MODULE AvailabilityProofs -------------------------
(***************************************************************************)
(* What the availability pages answer, proved for every number of readers, *)
(* retired ids and places: nothing offered meets what stood in the         *)
(* calendar or in the rows, and a reap passes no id over.                  *)
(***************************************************************************)
EXTENDS Availability, FiniteSetTheorems, TLAPS

-----------------------------------------------------------------------------
(* The fair order: where each id stands in it.                              *)

\* The ids of S that have a mark.
Marked(S) == S \subseteq Leftovers /\ \A x \in S : marks[x] \in Nat

LEMMA AheadTypes ==
  ASSUME NEW S, Marked(S), NEW x \in S
  PROVE  /\ IsFiniteSet(S) /\ Cardinality(S) \in Nat
         /\ IsFiniteSet(Ahead(S, x)) /\ Ahead(S, x) \subseteq S \ {x}
         /\ Cardinality(Ahead(S, x)) \in Nat /\ Cardinality(Ahead(S, x)) < Cardinality(S)
<1>1. IsFiniteSet(S) /\ S \subseteq Nat
  BY EventsAssumption, FS_Subset DEF Marked
<1>2. ~Sooner(x, x)
  BY <1>1 DEF Sooner, Marked
<1>3. Ahead(S, x) \subseteq S \ {x}
  BY <1>2 DEF Ahead
<1>4. Ahead(S, x) \in SUBSET S /\ Ahead(S, x) # S
  BY <1>3
<1>5. IsFiniteSet(Ahead(S, x))
  BY <1>1, <1>4, FS_Subset
<1>6. Cardinality(S) \in Nat /\ Cardinality(Ahead(S, x)) \in Nat
  BY <1>1, <1>5, FS_CardinalityType
<1>7. /\ Cardinality(Ahead(S, x)) <= Cardinality(S)
      /\ Cardinality(S) = Cardinality(Ahead(S, x)) => S = Ahead(S, x)
  BY <1>1, <1>4, FS_Subset
<1> QED
  BY <1>1, <1>3, <1>4, <1>5, <1>6, <1>7

\* Of two ids one comes sooner.
LEMMA SoonerTotal ==
  ASSUME NEW S, Marked(S), NEW x \in S, NEW y \in S, x # y
  PROVE  Sooner(x, y) \/ Sooner(y, x)
<1>1. x \in Nat /\ y \in Nat /\ marks[x] \in Nat /\ marks[y] \in Nat
  BY EventsAssumption DEF Marked
<1> QED
  BY <1>1 DEF Sooner

LEMMA AheadGrows ==
  ASSUME NEW S, Marked(S), NEW x \in S, NEW y \in S, Sooner(x, y)
  PROVE  Cardinality(Ahead(S, x)) < Cardinality(Ahead(S, y))
<1>1. ASSUME NEW z \in S, Sooner(z, x) PROVE Sooner(z, y)
  <2>1. /\ x \in Nat /\ y \in Nat /\ z \in Nat
        /\ marks[x] \in Nat /\ marks[y] \in Nat /\ marks[z] \in Nat
    BY EventsAssumption DEF Marked
  <2> QED
    BY <1>1, <2>1 DEF Sooner
<1>2. Ahead(S, x) \in SUBSET Ahead(S, y)
  BY <1>1 DEF Ahead
<1>3. x \in Ahead(S, y) /\ x \notin Ahead(S, x)
  BY AheadTypes DEF Ahead
<1>4. IsFiniteSet(Ahead(S, y))
  BY AheadTypes
<1>5. /\ Cardinality(Ahead(S, x)) <= Cardinality(Ahead(S, y))
      /\ Cardinality(Ahead(S, y)) = Cardinality(Ahead(S, x)) => Ahead(S, y) = Ahead(S, x)
  BY <1>2, <1>4, FS_Subset
<1>6. Cardinality(Ahead(S, x)) \in Nat /\ Cardinality(Ahead(S, y)) \in Nat
  BY AheadTypes
<1> QED
  BY <1>3, <1>5, <1>6

LEMMA AheadDiffers ==
  ASSUME NEW S, Marked(S), NEW x \in S, NEW y \in S,
         Cardinality(Ahead(S, x)) = Cardinality(Ahead(S, y))
  PROVE  x = y
<1>1. Cardinality(Ahead(S, x)) \in Nat
  BY AheadTypes
<1>2. ~Sooner(x, y) /\ ~Sooner(y, x)
  BY <1>1, AheadGrows
<1> QED
  BY <1>2, SoonerTotal

\* Every place of the order is somebody's.
LEMMA EveryPlaceTaken ==
  ASSUME NEW S, Marked(S), NEW i \in 1 .. Cardinality(S)
  PROVE  \E x \in S : Cardinality(Ahead(S, x)) = i - 1
<1> DEFINE n == Cardinality(S)
           spot == [x \in S |-> Cardinality(Ahead(S, x)) + 1]
<1>1. IsFiniteSet(S) /\ n \in Nat
  BY EventsAssumption, FS_Subset, FS_CardinalityType DEF Marked
<1>2. \A x \in S : Cardinality(Ahead(S, x)) \in Nat /\ Cardinality(Ahead(S, x)) < n
  BY AheadTypes
<1>3. spot \in [S -> 1 .. n]
  BY <1>1, <1>2
<1>4. ASSUME NEW x \in S, NEW y \in S, spot[x] = spot[y] PROVE x = y
  <2>1. Cardinality(Ahead(S, x)) = Cardinality(Ahead(S, y))
    BY <1>2, <1>4
  <2> QED
    BY <2>1, AheadDiffers
<1>5. spot \in Injection(S, 1 .. n)
  BY <1>3, <1>4 DEF Injection, IsInjective
<1>6. IsFiniteSet(1 .. n) /\ Cardinality(1 .. n) = n
  <2>1. 1 \in Int /\ n \in Int
    BY <1>1
  <2>2. /\ IsFiniteSet(1 .. n)
        /\ Cardinality(1 .. n) = IF 1 > n THEN 0 ELSE n - 1 + 1
    BY ONLY <2>1, FS_Interval
  <2> QED
    BY <1>1, <2>2
<1>7. spot \in Surjection(S, 1 .. n)
  BY <1>1, <1>5, <1>6, FS_Injection
<1>8. PICK x \in S : spot[x] = i
  BY <1>7 DEF Surjection
<1> QED
  BY <1>2, <1>8

\* A batch holds the first of S, each once, and a place in it is a place in the order.
LEMMA BatchIsFirst ==
  ASSUME NEW S, Marked(S)
  PROVE  /\ BatchSize(S) \in Nat /\ Batch(S) \in Seq(S) /\ Len(Batch(S)) = BatchSize(S)
         /\ \A i \in 1 .. BatchSize(S) : Cardinality(Ahead(S, Batch(S)[i])) = i - 1
         /\ \A x \in S : x \in Range(Batch(S)) <=> Cardinality(Ahead(S, x)) < BatchSize(S)
<1> DEFINE n == BatchSize(S)
           b == Batch(S)
<1>1. Cardinality(S) \in Nat /\ n \in Nat /\ n <= Cardinality(S)
  <2>1. Cardinality(S) \in Nat
    BY EventsAssumption, FS_Subset, FS_CardinalityType DEF Marked
  <2> QED
    BY ONLY <2>1, ReapAssumption DEF BatchSize
<1>2. \A i \in 1 .. n : b[i] = CHOOSE x \in S : Cardinality(Ahead(S, x)) = i - 1
  BY DEF Batch
<1>3. b = [i \in 1 .. n |-> b[i]]
  <2> DEFINE f(i) == CHOOSE x \in S : Cardinality(Ahead(S, x)) = i - 1
  <2>1. b = [i \in 1 .. n |-> f(i)]
    BY DEF Batch
  <2> HIDE DEF f, b, n
  <2> QED
    BY ONLY <2>1
<1> HIDE DEF n, b
<1>4. ASSUME NEW i \in 1 .. n PROVE b[i] \in S /\ Cardinality(Ahead(S, b[i])) = i - 1
  <2>1. i \in 1 .. Cardinality(S)
    BY <1>1
  <2>2. \E x \in S : Cardinality(Ahead(S, x)) = i - 1
    BY <2>1, EveryPlaceTaken
  <2> QED
    BY ONLY <1>2, <2>2, i \in 1 .. n
<1>5. b \in Seq(S) /\ Len(b) = n
  BY <1>1, <1>3, <1>4
<1>6. ASSUME NEW x \in S PROVE x \in Range(b) <=> Cardinality(Ahead(S, x)) < n
  <2>1. Cardinality(Ahead(S, x)) \in Nat
    BY AheadTypes
  <2>2. Range(b) = {b[i] : i \in 1 .. n}
    BY <1>3, <1>5 DEF Range
  <2>3. CASE x \in Range(b)
    BY <1>1, <1>4, <2>1, <2>2, <2>3
  <2>4. CASE Cardinality(Ahead(S, x)) < n
    <3> DEFINE i == Cardinality(Ahead(S, x)) + 1
    <3>1. i \in 1 .. n /\ i - 1 = Cardinality(Ahead(S, x))
      BY <1>1, <2>1, <2>4
    <3>2. b[i] = x
      BY <1>4, <3>1, AheadDiffers
    <3> QED
      BY <2>2, <2>4, <3>1, <3>2
  <2> QED
    BY <2>3, <2>4
<1> QED
  BY <1>1, <1>4, <1>5, <1>6 DEF n, b
\* Whoever stands before one of the batch is in it; who is left stands behind all of it.
LEMMA BatchComesSooner ==
  ASSUME NEW S, Marked(S), NEW x \in S, x \in Range(Batch(S)), NEW y \in S, y \notin Range(Batch(S))
  PROVE  marks[x] <= marks[y]
<1>1. Cardinality(Ahead(S, x)) \in Nat /\ Cardinality(Ahead(S, y)) \in Nat /\ BatchSize(S) \in Nat
  BY AheadTypes, BatchIsFirst
<1>2. Cardinality(Ahead(S, x)) < BatchSize(S) /\ ~(Cardinality(Ahead(S, y)) < BatchSize(S))
  BY BatchIsFirst
<1>3. ~Sooner(y, x)
  <2>1. SUFFICES ASSUME Sooner(y, x) PROVE FALSE
    OBVIOUS
  <2>2. Cardinality(Ahead(S, y)) < Cardinality(Ahead(S, x))
    BY <2>1, AheadGrows
  <2> QED
    BY <1>1, <1>2, <2>2
<1>4. marks[x] \in Nat /\ marks[y] \in Nat
  BY DEF Marked
<1> QED
  BY <1>2, <1>3, <1>4, SoonerTotal DEF Sooner

\* A stamp moves the batch's marks past the cursor, and leaves the others alone.
LEMMA StampEffect ==
  ASSUME NEW S, Marked(S), cursor \in Nat
  PROVE  /\ \A x \in Leftovers : x \in Range(Batch(S)) =>
               Stamped(Batch(S))[x] \in (cursor + 1) .. (cursor + Len(Batch(S)))
         /\ \A x \in Leftovers : x \notin Range(Batch(S)) => Stamped(Batch(S))[x] = marks[x]
<1> DEFINE b == Batch(S)
<1>1. Len(b) \in Nat /\ DOMAIN b = 1 .. Len(b)
  BY BatchIsFirst
<1> HIDE DEF b
<1>2. ASSUME NEW x \in Leftovers, x \in Range(b)
      PROVE  Stamped(b)[x] \in (cursor + 1) .. (cursor + Len(b))
  <2> DEFINE i == CHOOSE k \in DOMAIN b : b[k] = x
  <2>1. \E k \in DOMAIN b : b[k] = x
    BY <1>2 DEF Range
  <2>2. i \in DOMAIN b
    BY <2>1
  <2>3. Stamped(b)[x] = cursor + i
    BY <1>2 DEF Stamped
  <2> HIDE DEF i
  <2> QED
    BY <1>1, <2>2, <2>3
<1>3. ASSUME NEW x \in Leftovers, x \notin Range(b) PROVE Stamped(b)[x] = marks[x]
  BY <1>3 DEF Stamped
<1> QED
  BY <1>2, <1>3 DEF b

-----------------------------------------------------------------------------
(* Types.                                                                   *)

Reads ==
  [at : {"idle", "row", "select", "remove", "retire", "occupy"}, own : BOOLEAN,
   from : Int, to : Int, current : Int, items : SUBSET (Events \X Int), busy : SUBSET Int,
   found : SUBSET Leftovers, todo : Seq(Leftovers), accounted : SUBSET Int,
   times : SUBSET Int, held : SUBSET Int]

Times == place.slots
RowTyped ==
  row \in [status : {"confirmed", "cancelled"}, start : Times, reserved : Times \cup {None}]
CalTyped == cal \in [Events -> Times \cup {None}]
MarksTyped ==
  /\ cursor \in Nat /\ marks \in [Leftovers -> Nat \cup {None}]
  /\ \A x \in Leftovers : marks[x] = None \/ marks[x] \in 0 .. cursor
Deleting(r) == reader[r].at \in {"remove", "retire"}
ReadersTyped ==
  /\ reader \in [Readers -> Reads]
  /\ \A r \in Readers : Deleting(r) => reader[r].todo # <<>>
\* Who is to be deleted has been stamped.
TodoStamped ==
  \A r \in Readers : Deleting(r) => \A i \in DOMAIN reader[r].todo : marks[reader[r].todo[i]] # 0
GhostsTyped ==
  /\ landed \subseteq Leftovers /\ passed \in [Leftovers -> SUBSET Leftovers]
  /\ stood \in [Readers -> SUBSET (Events \X Int)]

Typed ==
  /\ place \in Places /\ RowTyped /\ CalTyped /\ MarksTyped /\ ReadersTyped /\ TodoStamped
  /\ GhostsTyped

LEMMA TimesTypes ==
  ASSUME place \in Places
  PROVE  /\ Times # {} /\ Times \subseteq Int /\ None \notin Times /\ place.len \in Nat \ {0}
         /\ place.there \subseteq place.ids /\ place.ids \subseteq Leftovers
         /\ \A ask \in place.asks : ask[1] \in Int /\ ask[2] \in Int
  BY PlacesAssumption DEF Times

LEMMA NobodyTyped ==
  /\ Nobody \in Reads /\ Nobody.at = "idle" /\ Nobody.todo = <<>>
  /\ Nobody.times = {} /\ Nobody.held = {}
  BY DEF Nobody, Reads

LEMMA TypedGivesTypeOK == Typed => TypeOK
<1> SUFFICES ASSUME Typed PROVE TypeOK
  OBVIOUS
<1>1. /\ row.status \in {"confirmed", "cancelled"} /\ row.start \in place.slots
      /\ row.reserved \in place.slots \cup {None}
  BY DEF Typed, RowTyped, Times
<1>2. cal \in [Events -> place.slots \cup {None}]
  BY DEF Typed, CalTyped, Times
<1>3. landed \subseteq Leftovers /\ passed \in [Leftovers -> SUBSET Leftovers]
  BY DEF Typed, GhostsTyped
<1>4. cursor \in Nat /\ \A x \in Leftovers : marks[x] = None \/ marks[x] \in 0 .. cursor
  BY DEF Typed, MarksTyped
<1>5. \A r \in Readers : Is(r, "remove") \/ Is(r, "retire") =>
        \A i \in DOMAIN reader[r].todo : marks[reader[r].todo[i]] # 0
  BY DEF Typed, TodoStamped, Deleting, Is
<1> QED
  BY <1>1, <1>2, <1>3, <1>4, <1>5 DEF TypeOK

LEMMA TypedInit == Init => Typed
<1> SUFFICES ASSUME Init PROVE Typed
  OBVIOUS
<1>1. place \in Places
  BY DEF Init
<1>2. row.start \in Times /\ row = [status |-> "confirmed", start |-> row.start, reserved |-> None]
  <2>1. row = [status |-> "confirmed", start |-> CHOOSE t \in Times : TRUE, reserved |-> None]
    BY DEF Init, Times
  <2>2. (CHOOSE t \in Times : TRUE) \in Times
    BY <1>1, TimesTypes
  <2> QED
    BY <2>1, <2>2
<1>3. RowTyped
  BY <1>2 DEF RowTyped
<1>4. CalTyped
  BY <1>2 DEF Init, CalTyped
<1>5. MarksTyped
  BY DEF Init, MarksTyped
<1>6. ReadersTyped /\ \A r \in Readers : ~Deleting(r)
  BY NobodyTyped DEF Init, ReadersTyped, Deleting
<1>7. TodoStamped
  BY <1>6 DEF TodoStamped
<1>8. GhostsTyped
  BY <1>1, TimesTypes DEF Init, GhostsTyped
<1> QED
  BY <1>1, <1>3, <1>4, <1>5, <1>6, <1>7, <1>8 DEF Typed

-----------------------------------------------------------------------------
(* What each step of a read does.                                           *)

LEMMA OneReader ==
  ASSUME Typed, NEW r \in Readers, NEW new, Becomes(r, new)
  PROVE  /\ reader'[r] = new /\ \A q \in Readers \ {r} : reader'[q] = reader[q]
         /\ new \in Reads => reader' \in [Readers -> Reads]
<1>1. reader \in [Readers -> Reads]
  BY DEF Typed, ReadersTyped
<1>2. reader' = [reader EXCEPT ![r] = new]
  BY DEF Becomes
<1> QED
  BY ONLY <1>1, <1>2

LEMMA CalTimes ==
  ASSUME Typed
  PROVE  /\ \A e \in Listed : e \in Events /\ cal[e] \in Int /\ cal[e] # None
         /\ row.start \in Int /\ row.start # None /\ {row.start, row.reserved} \ {None} \subseteq Int
         /\ \A own : Occupancy(own) \subseteq Int
<1>1. Times \subseteq Int /\ None \notin Times
  BY TimesTypes DEF Typed
<1>2. row.start \in Times /\ row.reserved \in Times \cup {None}
  BY DEF Typed, RowTyped
<1>3. \A e \in Listed : e \in Events /\ cal[e] \in Times
  BY DEF Typed, CalTyped, Listed
<1>4. \A own : Occupancy(own) \subseteq Int
  BY <1>1, <1>2 DEF Occupancy
<1> QED
  BY <1>1, <1>2, <1>3, <1>4

\* A list starts a read afresh.
LEMMA ListEffect ==
  ASSUME Typed, NEW r \in Readers, List(r)
  PROVE  /\ UNCHANGED <<place, row, marks, cursor, cal, landed, passed>>
         /\ reader[r].at = "idle" /\ reader'[r].at \in {"row", "occupy"} /\ reader'[r] \in Reads
         /\ \A q \in Readers \ {r} : reader'[q] = reader[q]
         /\ reader' \in [Readers -> Reads]
         /\ reader'[r].items = {<<e, cal[e]>> : e \in Listed}
         /\ reader'[r].at = "occupy" => Listed \subseteq {Foreign}
         /\ Foreign \in Listed => cal[Foreign] \in reader'[r].busy
         /\ reader'[r].times = {} /\ reader'[r].held = {}
<1>1. reader[r].at = "idle" /\ UNCHANGED <<place, row, marks, cursor, cal, landed, passed>>
  BY DEF List, Is
<1>2. PICK own \in BOOLEAN, ask \in place.asks :
        Becomes(r, [Nobody EXCEPT
          !.at = IF Listed \subseteq {Foreign} THEN "occupy" ELSE "row",
          !.own = own, !.from = ask[1], !.to = ask[2], !.current = row.start,
          !.items = {<<e, cal[e]>> : e \in Listed},
          !.busy = IF Foreign \in Listed THEN {cal[Foreign]} ELSE {}])
  BY DEF List
<1> DEFINE at == IF Listed \subseteq {Foreign} THEN "occupy" ELSE "row"
           items == {<<e, cal[e]>> : e \in Listed}
           busy == IF Foreign \in Listed THEN {cal[Foreign]} ELSE {}
           new == [Nobody EXCEPT !.at = at, !.own = own, !.from = ask[1], !.to = ask[2],
                                 !.current = row.start, !.items = items, !.busy = busy]
<1>3. /\ at \in {"row", "occupy"} /\ ask[1] \in Int /\ ask[2] \in Int /\ row.start \in Int
      /\ items \in SUBSET (Events \X Int) /\ busy \in SUBSET Int
  BY CalTimes, TimesTypes DEF Typed
<1>4. Becomes(r, new)
  BY <1>2
<1>5. /\ at = "occupy" => Listed \subseteq {Foreign}
      /\ Foreign \in Listed => cal[Foreign] \in busy
  OBVIOUS
<1> HIDE DEF at, items, busy
<1>6. /\ new.at = at /\ new.items = items /\ new.busy = busy
      /\ new.times = {} /\ new.held = {} /\ new \in Reads
  BY ONLY <1>3, own \in BOOLEAN, NobodyTyped DEF Reads
<1> HIDE DEF new
<1>7. /\ reader'[r] = new /\ \A q \in Readers \ {r} : reader'[q] = reader[q]
      /\ reader' \in [Readers -> Reads]
  BY <1>4, <1>6, OneReader
<1> QED
  BY <1>1, <1>3, <1>5, <1>6, <1>7 DEF items

\* The row read tells what is busy, what the row accounts for, and what may be reaped.
LEMMA ReadRowEffect ==
  ASSUME Typed, NEW r \in Readers, ReadRow(r)
  PROVE  /\ UNCHANGED world
         /\ reader[r].at = "row" /\ reader'[r].at \in {"select", "occupy"} /\ reader'[r] \in Reads
         /\ \A q \in Readers \ {r} : reader'[q] = reader[q]
         /\ reader' \in [Readers -> Reads]
         /\ reader'[r].busy = {i[2] : i \in {x \in reader[r].items :
                                   IsBusy(x[1], x[2], row, marks, reader[r].own)}}
         /\ reader'[r].accounted = {row.start, row.reserved} \ {None}
         /\ reader'[r].own = reader[r].own
         /\ reader'[r].times = reader[r].times /\ reader'[r].held = reader[r].held
<1> DEFINE me == reader[r]
           retired == {e \in Leftovers : marks[e] # None /\ \E i \in me.items : i[1] = e}
           busy == {i[2] : i \in {x \in me.items : IsBusy(x[1], x[2], row, marks, me.own)}}
           at == IF retired = {} THEN "occupy" ELSE "select"
           accounted == {row.start, row.reserved} \ {None}
           new == [me EXCEPT !.at = at, !.busy = busy, !.accounted = accounted, !.found = retired]
<1>1. Is(r, "row") /\ UNCHANGED world /\ Becomes(r, new)
  BY DEF ReadRow
<1>2. me \in Reads
  BY DEF Typed, ReadersTyped
<1>3. me.items \in SUBSET (Events \X Int)
  BY <1>2 DEF Reads
<1>4. busy \in SUBSET Int
  BY <1>3
<1>5. accounted \in SUBSET Int /\ retired \in SUBSET Leftovers /\ at \in {"select", "occupy"}
  BY CalTimes
<1> HIDE DEF me, retired, busy, at, accounted
<1>6. /\ new \in Reads /\ new.at = at /\ new.busy = busy /\ new.accounted = accounted
      /\ new.own = me.own /\ new.times = me.times /\ new.held = me.held
  BY ONLY <1>2, <1>4, <1>5 DEF Reads
<1> HIDE DEF new
<1>7. /\ reader'[r] = new /\ \A q \in Readers \ {r} : reader'[q] = reader[q]
      /\ reader' \in [Readers -> Reads]
  BY <1>1, <1>6, OneReader
<1> QED
  BY <1>1, <1>5, <1>6, <1>7 DEF me, busy, accounted, Is

LEMMA SelectableMarked ==
  ASSUME Typed, NEW r \in Readers
  PROVE  Marked(Selectable(r))
  BY DEF Typed, MarksTyped, Marked, Selectable, Eligible

\* A selection takes a batch of the selectable ids; its answers are as they were.
LEMMA SelectEffect ==
  ASSUME Typed, NEW r \in Readers, Select(r)
  PROVE  LET S == Selectable(r) IN
         /\ UNCHANGED <<place, row, cal, landed>>
         /\ marks' = Stamped(Batch(S)) /\ cursor' = cursor + Len(Batch(S))
         /\ passed' = [x \in Leftovers |->
                         IF x \in Range(Batch(S)) THEN {}
                         ELSE IF x \in S THEN passed[x] \cup Range(Batch(S)) ELSE passed[x]]
         /\ reader[r].at = "select" /\ reader'[r].at \in {"remove", "occupy"}
         /\ reader'[r] \in Reads /\ \A q \in Readers \ {r} : reader'[q] = reader[q]
         /\ reader' \in [Readers -> Reads]
         /\ reader'[r].todo = Batch(S) /\ (reader'[r].at = "remove" => Batch(S) # <<>>)
         /\ reader'[r].own = reader[r].own /\ reader'[r].busy = reader[r].busy
         /\ reader'[r].accounted = reader[r].accounted
         /\ reader'[r].times = reader[r].times /\ reader'[r].held = reader[r].held
<1> DEFINE S == Selectable(r)
           me == reader[r]
           batch == Batch(S)
           at == IF batch = <<>> THEN "occupy" ELSE "remove"
           new == [me EXCEPT !.at = at, !.found = {}, !.todo = batch]
<1>1. /\ Is(r, "select") /\ UNCHANGED <<place, row, cal, landed>> /\ Becomes(r, new)
      /\ marks' = Stamped(batch) /\ cursor' = cursor + Len(batch)
      /\ passed' = [x \in Leftovers |->
                      IF x \in Range(batch) THEN {}
                      ELSE IF x \in S THEN passed[x] \cup Range(batch) ELSE passed[x]]
  BY DEF Select
<1>2. me \in Reads
  BY DEF Typed, ReadersTyped
<1>3. batch \in Seq(Leftovers)
  <2>1. batch \in Seq(S) /\ S \subseteq Leftovers
    BY SelectableMarked, BatchIsFirst DEF Marked
  <2> HIDE DEF S, batch
  <2> QED
    BY <2>1
<1>4. at \in {"occupy", "remove"} /\ (at = "remove" => batch # <<>>)
  OBVIOUS
<1> HIDE DEF S, me, batch, at
<1>5. /\ new \in Reads /\ new.at = at /\ new.todo = batch
      /\ new.own = me.own /\ new.busy = me.busy /\ new.accounted = me.accounted
      /\ new.times = me.times /\ new.held = me.held
  BY ONLY <1>2, <1>3, <1>4 DEF Reads
<1> HIDE DEF new
<1>6. /\ reader'[r] = new /\ \A q \in Readers \ {r} : reader'[q] = reader[q]
      /\ reader' \in [Readers -> Reads]
  BY <1>1, <1>5, OneReader
<1> QED
  BY <1>1, <1>4, <1>5, <1>6 DEF S, me, batch, Is

\* A deletion goes on with the rest of the batch, and leaves the answers as they are.
LEMMA DeletingEffect ==
  ASSUME Typed, NEW r \in Readers, RemoveWorks(r) \/ RemoveFails(r) \/ Retire(r)
  PROVE  /\ UNCHANGED <<place, row, cursor, landed, passed>>
         /\ cal' = cal \/ (\E x \in Leftovers : cal' = [cal EXCEPT ![x] = None])
         /\ marks' = marks \/ (\E x \in Leftovers : marks' = [marks EXCEPT ![x] = None])
         /\ Deleting(r) /\ reader'[r].at \in {"retire", "remove", "occupy"}
         /\ reader'[r] \in Reads /\ \A q \in Readers \ {r} : reader'[q] = reader[q]
         /\ reader' \in [Readers -> Reads]
         /\ Range(reader'[r].todo) \subseteq Range(reader[r].todo)
         /\ Deleting(r)' => reader'[r].todo # <<>>
         /\ reader'[r].own = reader[r].own /\ reader'[r].busy = reader[r].busy
         /\ reader'[r].accounted = reader[r].accounted
         /\ reader'[r].times = reader[r].times /\ reader'[r].held = reader[r].held
<1> DEFINE me == reader[r]
           todo == me.todo
<1>1. Deleting(r) /\ me \in Reads /\ todo \in Seq(Leftovers) /\ todo # <<>>
  BY DEF Typed, ReadersTyped, RemoveWorks, RemoveFails, Retire, Is, Deleting, Reads
<1>2. /\ Head(todo) \in Leftovers /\ Tail(todo) \in Seq(Leftovers)
      /\ Len(todo) > 1 => Tail(todo) # <<>>
      /\ Range(Tail(todo)) \subseteq Range(todo)
  <2> HIDE DEF todo
  <2>1. /\ Len(todo) \in Nat /\ Len(todo) > 0 /\ DOMAIN todo = 1 .. Len(todo)
        /\ \A i \in 1 .. Len(todo) : todo[i] \in Leftovers
    BY <1>1
  <2>2. /\ Tail(todo) \in Seq(Leftovers) /\ Len(Tail(todo)) = Len(todo) - 1
        /\ \A i \in 1 .. (Len(todo) - 1) : Tail(todo)[i] = todo[i + 1]
    BY <1>1, <2>1
  <2>3. DOMAIN Tail(todo) = 1 .. (Len(todo) - 1)
    BY <2>1, <2>2
  <2>4. Range(Tail(todo)) \subseteq Range(todo)
    BY <2>1, <2>2, <2>3 DEF Range
  <2>5. Head(todo) = todo[1] /\ todo[1] \in Leftovers
    BY <1>1, <2>1
  <2>6. Len(todo) > 1 => Tail(todo) # <<>>
    <3>1. Len(<<>>) = 0
      OBVIOUS
    <3>2. Len(todo) > 1 => Len(Tail(todo)) # 0
      BY <2>1, <2>2
    <3> QED
      BY ONLY <3>1, <3>2
  <2> QED
    BY <2>2, <2>4, <2>5, <2>6
<1>3. UNCHANGED <<place, row, cursor, landed, passed>>
  BY DEF RemoveWorks, RemoveFails, Retire, world
<1>4. cal' = cal \/ (\E x \in Leftovers : cal' = [cal EXCEPT ![x] = None])
  BY <1>2 DEF RemoveWorks, RemoveFails, Retire, world
<1>5. marks' = marks \/ (\E x \in Leftovers : marks' = [marks EXCEPT ![x] = None])
  BY <1>2 DEF RemoveWorks, RemoveFails, Retire, world
<1> DEFINE waits == [me EXCEPT !.at = "retire"]
           next == IF Len(todo) > 1 THEN "remove" ELSE "occupy"
           goes == [me EXCEPT !.todo = Tail(@), !.at = next]
<1>6. Becomes(r, waits) \/ Becomes(r, goes)
  BY DEF RemoveWorks, RemoveFails, Retire, AfterOne
<1>7. /\ waits \in Reads /\ waits.at = "retire" /\ waits.todo = todo
      /\ waits.own = me.own /\ waits.busy = me.busy /\ waits.accounted = me.accounted
      /\ waits.times = me.times /\ waits.held = me.held
  <2> HIDE DEF me
  <2> QED
    BY ONLY <1>1 DEF Reads
<1>8. /\ goes \in Reads /\ goes.at = next /\ goes.todo = Tail(todo)
      /\ goes.own = me.own /\ goes.busy = me.busy /\ goes.accounted = me.accounted
      /\ goes.times = me.times /\ goes.held = me.held
  <2>1. next \in {"remove", "occupy"}
    OBVIOUS
  <2> HIDE DEF me, next
  <2> QED
    BY ONLY <1>1, <1>2, <2>1 DEF Reads
<1>9. next \in {"remove", "occupy"} /\ (next = "remove" => Tail(todo) # <<>>)
  BY <1>2
<1> HIDE DEF waits, goes, next
<1>10. CASE Becomes(r, waits)
  <2>1. /\ reader'[r] = waits /\ \A q \in Readers \ {r} : reader'[q] = reader[q]
        /\ reader' \in [Readers -> Reads]
    BY <1>7, <1>10, OneReader
  <2> HIDE DEF todo
  <2> QED
    BY <1>1, <1>3, <1>4, <1>5, <1>7, <2>1 DEF todo
<1>11. CASE Becomes(r, goes)
  <2>1. /\ reader'[r] = goes /\ \A q \in Readers \ {r} : reader'[q] = reader[q]
        /\ reader' \in [Readers -> Reads]
    BY <1>8, <1>11, OneReader
  <2>2. Deleting(r)' => reader'[r].todo # <<>>
    BY <1>8, <1>9, <2>1 DEF Deleting
  <2> QED
    BY <1>1, <1>2, <1>3, <1>4, <1>5, <1>8, <1>9, <2>1, <2>2
<1> QED
  BY <1>6, <1>10, <1>11

\* The answer: the grid, less what the read found taken.
LEMMA OccupyEffect ==
  ASSUME Typed, NEW r \in Readers, Occupy(r)
  PROVE  /\ UNCHANGED world
         /\ reader[r].at = "occupy" /\ reader'[r].at = "idle" /\ reader'[r] \in Reads
         /\ \A q \in Readers \ {r} : reader'[q] = reader[q]
         /\ reader' \in [Readers -> Reads]
         /\ reader'[r].accounted = reader[r].accounted
         /\ reader'[r].held = Occupancy(reader[r].own)
         /\ reader'[r].busy = reader[r].busy \cup Occupancy(reader[r].own)
         /\ reader'[r].times = Offer(reader'[r], reader'[r].busy)
<1> DEFINE me == reader[r]
           taken == me.busy \cup Occupancy(me.own)
           times == Offer(me, taken)
           held == Occupancy(me.own)
           new == [Nobody EXCEPT !.own = me.own, !.from = me.from, !.to = me.to,
                     !.current = me.current, !.accounted = me.accounted, !.busy = taken,
                     !.times = times, !.held = held]
<1>1. Is(r, "occupy") /\ UNCHANGED world /\ Becomes(r, new)
  BY DEF Occupy
<1>2. me \in Reads
  BY DEF Typed, ReadersTyped
<1>3. /\ me.own \in BOOLEAN /\ me.from \in Int /\ me.to \in Int /\ me.current \in Int
      /\ me.accounted \in SUBSET Int /\ me.busy \in SUBSET Int
  BY <1>2 DEF Reads
<1>4. held \in SUBSET Int /\ taken \in SUBSET Int
  BY <1>3, CalTimes
<1>5. times \in SUBSET Int
  BY DEF Offer, ListAvailableTimes, GridStarts, StartsIn
<1> HIDE DEF me, taken, times, held
<1>6. /\ new \in Reads /\ new.at = "idle" /\ new.accounted = me.accounted /\ new.held = held
      /\ new.busy = taken /\ new.times = times
      /\ new.own = me.own /\ new.from = me.from /\ new.to = me.to /\ new.current = me.current
  BY ONLY <1>3, <1>4, <1>5, NobodyTyped DEF Reads
<1> HIDE DEF new
<1>7. /\ reader'[r] = new /\ \A q \in Readers \ {r} : reader'[q] = reader[q]
      /\ reader' \in [Readers -> Reads]
  BY <1>1, <1>6, OneReader
<1>8. Offer(new, taken) = Offer(me, taken)
  BY <1>6 DEF Offer
<1> QED
  BY <1>1, <1>6, <1>7, <1>8 DEF me, taken, times, held, Is

-----------------------------------------------------------------------------
(* Type correctness.                                                        *)

\* The steps of everybody but the readers move the row, the calendar and what landed.
LEMMA MeanwhileEffect ==
  ASSUME Typed, Meanwhile
  PROVE  UNCHANGED <<place, marks, cursor, reader, passed>> /\ RowTyped' /\ CalTyped' /\ landed' \subseteq Leftovers
<1>1. /\ place \in Places /\ RowTyped /\ CalTyped /\ landed \subseteq Leftovers
      /\ Times # {} /\ None \notin Times
  BY TimesTypes DEF Typed, GhostsTyped
<1>2. /\ row.status \in {"confirmed", "cancelled"} /\ row.start \in Times
      /\ row.reserved \in Times \cup {None}
  BY <1>1 DEF RowTyped
<1>3. CASE ReserveMove
  <2>1. PICK t \in Times : row' = [row EXCEPT !.reserved = t]
    BY <1>3 DEF ReserveMove, Times
  <2>2. UNCHANGED <<place, marks, cursor, cal, landed, reader, passed>>
    BY <1>3 DEF ReserveMove
  <2> QED
    BY <1>1, <2>1, <2>2 DEF RowTyped, CalTyped, Times
<1>4. CASE PatchEvent
  <2>1. PICK t \in {row.start, row.reserved} : cal' = [cal EXCEPT ![Live] = t]
    BY <1>4 DEF PatchEvent
  <2>2. UNCHANGED <<place, row, marks, cursor, landed, reader, passed>>
    BY <1>4 DEF PatchEvent
  <2> QED
    BY <1>1, <1>2, <2>1, <2>2 DEF RowTyped, CalTyped, Times
<1>5. CASE EndMove
  <2>1. UNCHANGED <<place, marks, cursor, cal, landed, reader, passed>> /\ row.reserved # None
    BY <1>5 DEF EndMove
  <2>2. \/ row' = [row EXCEPT !.start = row.reserved, !.reserved = None]
        \/ row' = [row EXCEPT !.reserved = None]
    BY <1>5 DEF EndMove
  <2>3. RowTyped'
    BY <1>1, <1>2, <2>1, <2>2 DEF RowTyped, Times
  <2> QED
    BY <1>1, <2>1, <2>3 DEF CalTyped, Times
<1>6. CASE CancelRow
  <2>1. UNCHANGED <<place, marks, cursor, cal, landed, reader, passed>>
    BY <1>6 DEF CancelRow
  <2>2. row' = [row EXCEPT !.status = "cancelled", !.reserved = None]
    BY <1>6 DEF CancelRow
  <2>3. RowTyped'
    BY <1>1, <1>2, <2>1, <2>2 DEF RowTyped, Times
  <2> QED
    BY <1>1, <2>1, <2>3 DEF CalTyped, Times
<1>7. CASE DeleteEvent
  <2>1. /\ UNCHANGED <<place, row, marks, cursor, landed, reader, passed>>
        /\ cal' = [cal EXCEPT ![Live] = None]
    BY <1>7 DEF DeleteEvent
  <2> QED
    BY <1>1, <2>1 DEF RowTyped, CalTyped, Times
<1>8. ASSUME NEW x \in Leftovers, LateInsert(x)
      PROVE  /\ UNCHANGED <<place, marks, cursor, reader, passed>> /\ RowTyped' /\ CalTyped'
             /\ landed' \subseteq Leftovers
  <2>1. PICK t \in Times : cal' = [cal EXCEPT ![x] = t]
    BY <1>8 DEF LateInsert, Times
  <2>2. UNCHANGED <<place, row, marks, cursor, reader, passed>> /\ landed' = landed \cup {x}
    BY <1>8 DEF LateInsert
  <2> QED
    BY <1>1, <1>8, <2>1, <2>2 DEF RowTyped, CalTyped, Times
<1>9. ASSUME NEW e \in {Live, Foreign}, HostEdits(e)
      PROVE  /\ UNCHANGED <<place, marks, cursor, reader, passed>> /\ RowTyped' /\ CalTyped'
             /\ landed' \subseteq Leftovers
  <2>1. PICK t \in Times \cup {None} : cal' = [cal EXCEPT ![e] = t]
    BY <1>9 DEF HostEdits, Times
  <2>2. UNCHANGED <<place, row, marks, cursor, landed, reader, passed>>
    BY <1>9 DEF HostEdits
  <2> QED
    BY <1>1, <2>1, <2>2 DEF RowTyped, CalTyped, Times
<1> QED
  BY <1>3, <1>4, <1>5, <1>6, <1>7, <1>8, <1>9 DEF Meanwhile

\* What a reader has in hand next to what the watch sees.
LEMMA StandingTyped ==
  ASSUME Typed, (place \in Places)', CalTyped'
  PROVE  \A own : Standing(own, marks', cal') \subseteq Events \X Int
<1>1. Times' \subseteq Int
  <2>1. \A p \in Places : p.slots \subseteq Int
    BY PlacesAssumption
  <2> QED
    BY <2>1 DEF Times
<1>2. \A e \in Events : cal'[e] # None => cal'[e] \in Int
  BY <1>1 DEF CalTyped
<1> QED
  BY <1>2 DEF Standing

LEMMA WatchTyped ==
  ASSUME Typed, Watch, (place \in Places)', CalTyped'
  PROVE  stood' \in [Readers -> SUBSET (Events \X Int)]
<1>1. stood \in [Readers -> SUBSET (Events \X Int)]
  BY DEF Typed, GhostsTyped
<1>2. ASSUME NEW r \in Readers PROVE stood'[r] \in SUBSET (Events \X Int)
  <2>1. Standing(reader'[r].own, marks', cal') \subseteq Events \X Int
    BY StandingTyped
  <2>2. stood'[r] \in {stood[r], Standing(reader'[r].own, marks', cal'),
                       stood[r] \cap Standing(reader'[r].own, marks', cal')}
    BY DEF Watch
  <2> QED
    BY <1>1, <2>1, <2>2
<1>3. stood' = [r \in Readers |-> stood'[r]]
  <2> DEFINE f(r) == IF reader'[r].at = "idle" THEN stood[r]
                     ELSE LET now == Standing(reader'[r].own, marks', cal')
                          IN  IF Is(r, "idle") THEN now ELSE stood[r] \cap now
  <2>1. stood' = [r \in Readers |-> f(r)]
    BY DEF Watch
  <2> HIDE DEF f
  <2> QED
    BY ONLY <2>1
<1> QED
  BY ONLY <1>2, <1>3

\* A selection's marks: in range of the cursor, and none of them fresh any more.
LEMMA SelectTyped ==
  ASSUME Typed, NEW r \in Readers, Select(r)
  PROVE  /\ MarksTyped' /\ \A x \in Leftovers : marks[x] # 0 => marks'[x] # 0
         /\ \A i \in DOMAIN Batch(Selectable(r)) : marks'[Batch(Selectable(r))[i]] # 0
         /\ Range(Batch(Selectable(r))) \subseteq Selectable(r)
<1> DEFINE S == Selectable(r)
           b == Batch(S)
<1>1. Marked(S) /\ S \subseteq Leftovers
  BY SelectableMarked DEF Marked
<1>2. b \in Seq(S) /\ Len(b) \in Nat
  BY <1>1, BatchIsFirst
<1>3. /\ cursor \in Nat /\ marks \in [Leftovers -> Nat \cup {None}]
      /\ \A x \in Leftovers : marks[x] = None \/ marks[x] \in 0 .. cursor
  BY DEF Typed, MarksTyped
<1>4. /\ \A x \in Leftovers : x \in Range(b) => Stamped(b)[x] \in (cursor + 1) .. (cursor + Len(b))
      /\ \A x \in Leftovers : x \notin Range(b) => Stamped(b)[x] = marks[x]
  BY <1>1, <1>3, StampEffect
<1>5. marks' = Stamped(b) /\ cursor' = cursor + Len(b)
  BY SelectEffect
<1>6. DOMAIN marks' = Leftovers /\ marks' = [x \in DOMAIN marks' |-> marks'[x]]
  BY <1>5 DEF Stamped
<1> HIDE DEF S, b
<1>7. \A x \in Leftovers : marks'[x] = None \/ marks'[x] \in 0 .. cursor'
  BY <1>2, <1>3, <1>4, <1>5
<1>8. marks' \in [Leftovers -> Nat \cup {None}] /\ cursor' \in Nat
  <2>1. cursor' \in Nat
    BY <1>2, <1>3, <1>5
  <2>2. \A x \in Leftovers : marks'[x] \in Nat \cup {None}
    BY <1>7, <2>1
  <2> QED
    BY ONLY <1>6, <2>1, <2>2
<1>9. \A i \in DOMAIN b : b[i] \in Range(b) /\ b[i] \in S /\ b[i] \in Leftovers
  BY <1>1, <1>2 DEF Range
<1>10. \A i \in DOMAIN b : marks'[b[i]] # 0
  BY <1>2, <1>3, <1>4, <1>5, <1>9
<1>11. \A x \in Leftovers : marks[x] # 0 => marks'[x] # 0
  BY <1>2, <1>3, <1>4, <1>5
<1>12. Range(b) \subseteq S
  BY <1>9 DEF Range
<1> QED
  BY <1>7, <1>8, <1>10, <1>11, <1>12 DEF S, b, MarksTyped

LEMMA TypedInductive == Typed /\ [Next]_vars => Typed'
<1> SUFFICES ASSUME Typed, [Next]_vars PROVE Typed'
  OBVIOUS
<1>1. CASE UNCHANGED vars
  BY <1>1 DEF vars, Typed, RowTyped, CalTyped, MarksTyped, ReadersTyped, TodoStamped, Deleting,
              GhostsTyped, Times
<1>2. ASSUME Watch, place' = place, RowTyped', CalTyped', MarksTyped', ReadersTyped', TodoStamped',
             landed' \subseteq Leftovers, (passed \in [Leftovers -> SUBSET Leftovers])'
      PROVE  Typed'
  <2>1. (place \in Places)'
    BY <1>2 DEF Typed
  <2>2. stood' \in [Readers -> SUBSET (Events \X Int)]
    BY <1>2, <2>1, WatchTyped
  <2> QED
    BY <1>2, <2>1, <2>2 DEF Typed, GhostsTyped
<1>3. /\ place \in Places /\ RowTyped /\ CalTyped /\ MarksTyped /\ ReadersTyped /\ TodoStamped
      /\ landed \subseteq Leftovers /\ passed \in [Leftovers -> SUBSET Leftovers]
  BY DEF Typed, GhostsTyped
<1>4. ASSUME UNCHANGED <<place, row, cal, landed, passed, marks, cursor>>
      PROVE  RowTyped' /\ CalTyped' /\ MarksTyped' /\ landed' \subseteq Leftovers
             /\ (passed \in [Leftovers -> SUBSET Leftovers])'
  BY <1>3, <1>4 DEF RowTyped, CalTyped, MarksTyped, Times
<1>5. ASSUME NEW r \in Readers, reader' \in [Readers -> Reads],
             \A q \in Readers \ {r} : reader'[q] = reader[q],
             \A x \in Leftovers : marks[x] # 0 => marks'[x] # 0,
             Deleting(r)' => /\ reader'[r].todo # <<>>
                             /\ \A i \in DOMAIN reader'[r].todo : marks'[reader'[r].todo[i]] # 0
      PROVE  ReadersTyped' /\ TodoStamped'
  <2>1. ReadersTyped'
    BY <1>3, <1>5 DEF ReadersTyped, Deleting
  <2>2. ASSUME NEW q \in Readers, Deleting(q)', NEW i \in DOMAIN reader'[q].todo
        PROVE  marks'[reader'[q].todo[i]] # 0
    <3>1. CASE q = r
      BY <1>5, <2>2, <3>1
    <3>2. CASE q # r
      <4>1. reader'[q] = reader[q] /\ Deleting(q)
        BY <1>5, <2>2, <3>2 DEF Deleting
      <4>2. reader[q].todo \in Seq(Leftovers)
        BY <1>3 DEF ReadersTyped, Reads
      <4>3. marks[reader[q].todo[i]] # 0 /\ reader[q].todo[i] \in Leftovers
        BY <1>3, <2>2, <4>1, <4>2 DEF TodoStamped
      <4> QED
        BY <1>5, <4>1, <4>3
    <3> QED
      BY <3>1, <3>2
  <2> QED
    BY <2>1, <2>2 DEF TodoStamped
<1>6. ASSUME NEW r \in Readers, ReadStep(r), Watch PROVE Typed'
  <2>1. CASE List(r)
    <3>1. /\ UNCHANGED <<place, row, marks, cursor, cal, landed, passed>>
          /\ reader' \in [Readers -> Reads] /\ \A q \in Readers \ {r} : reader'[q] = reader[q]
          /\ ~Deleting(r)'
      BY <2>1, ListEffect DEF Deleting
    <3> QED
      BY <1>2, <1>4, <1>5, <1>6, <3>1
  <2>2. CASE ReadRow(r)
    <3>1. /\ UNCHANGED <<place, row, marks, cursor, cal, landed, passed>>
          /\ reader' \in [Readers -> Reads] /\ \A q \in Readers \ {r} : reader'[q] = reader[q]
          /\ ~Deleting(r)'
      BY <2>2, ReadRowEffect DEF Deleting, world
    <3> QED
      BY <1>2, <1>4, <1>5, <1>6, <3>1
  <2>3. CASE Select(r)
    <3> DEFINE b == Batch(Selectable(r))
    <3>1. /\ UNCHANGED <<place, row, cal, landed>>
          /\ reader' \in [Readers -> Reads] /\ \A q \in Readers \ {r} : reader'[q] = reader[q]
          /\ reader'[r].at \in {"remove", "occupy"}
          /\ reader'[r].todo = b /\ (reader'[r].at = "remove" => b # <<>>)
          /\ passed' = [x \in Leftovers |->
                IF x \in Range(b) THEN {}
                ELSE IF x \in Selectable(r) THEN passed[x] \cup Range(b) ELSE passed[x]]
      BY <2>3, SelectEffect
    <3>2. /\ MarksTyped' /\ \A x \in Leftovers : marks[x] # 0 => marks'[x] # 0
          /\ \A i \in DOMAIN b : marks'[b[i]] # 0
          /\ Range(b) \subseteq Leftovers
      BY <2>3, SelectTyped DEF Selectable, Eligible
    <3> HIDE DEF b
    <3>3. ReadersTyped' /\ TodoStamped'
      BY <1>5, <3>1, <3>2 DEF Deleting
    <3>4. passed' \in [Leftovers -> SUBSET Leftovers]
      BY ONLY <1>3, <3>1, <3>2
    <3>5. RowTyped' /\ CalTyped' /\ landed' \subseteq Leftovers
      BY <1>3, <3>1 DEF RowTyped, CalTyped, Times
    <3> QED
      BY <1>2, <1>6, <3>1, <3>2, <3>3, <3>4, <3>5
  <2>4. CASE RemoveWorks(r) \/ RemoveFails(r) \/ Retire(r)
    <3>1. /\ UNCHANGED <<place, row, cursor, landed, passed>>
          /\ cal' = cal \/ (\E x \in Leftovers : cal' = [cal EXCEPT ![x] = None])
          /\ marks' = marks \/ (\E x \in Leftovers : marks' = [marks EXCEPT ![x] = None])
          /\ Deleting(r) /\ reader'[r] \in Reads
          /\ reader' \in [Readers -> Reads] /\ \A q \in Readers \ {r} : reader'[q] = reader[q]
          /\ Range(reader'[r].todo) \subseteq Range(reader[r].todo)
          /\ Deleting(r)' => reader'[r].todo # <<>>
      BY <2>4, DeletingEffect
    <3>2. MarksTyped' /\ \A x \in Leftovers : marks[x] # 0 => marks'[x] # 0
      BY <1>3, <3>1, EventsAssumption DEF MarksTyped
    <3>3. RowTyped' /\ CalTyped' /\ landed' \subseteq Leftovers
      BY <1>3, <3>1 DEF RowTyped, CalTyped, Times
    <3>4. \A i \in DOMAIN reader'[r].todo : marks'[reader'[r].todo[i]] # 0
      <4>1. \A x \in Range(reader[r].todo) : x \in Leftovers /\ marks[x] # 0
        <5>1. reader[r].todo \in Seq(Leftovers)
          BY <1>3 DEF ReadersTyped, Reads
        <5> QED
          BY <1>3, <3>1, <5>1 DEF TodoStamped, Range
      <4>2. \A i \in DOMAIN reader'[r].todo : reader'[r].todo[i] \in Range(reader[r].todo)
        BY <3>1 DEF Range
      <4> QED
        BY <3>2, <4>1, <4>2
    <3>5. ReadersTyped' /\ TodoStamped'
      BY <1>5, <3>1, <3>2, <3>4
    <3> QED
      BY <1>2, <1>3, <1>6, <3>1, <3>2, <3>3, <3>5
  <2>5. CASE Occupy(r)
    <3>1. /\ UNCHANGED <<place, row, marks, cursor, cal, landed, passed>>
          /\ reader' \in [Readers -> Reads] /\ \A q \in Readers \ {r} : reader'[q] = reader[q]
          /\ ~Deleting(r)'
      BY <2>5, OccupyEffect DEF Deleting, world
    <3> QED
      BY <1>2, <1>4, <1>5, <1>6, <3>1
  <2> QED
    BY <1>6, <2>1, <2>2, <2>3, <2>4, <2>5 DEF ReadStep
<1>7. CASE Meanwhile /\ Watch
  <2>1. /\ UNCHANGED <<place, marks, cursor, reader, passed>> /\ RowTyped' /\ CalTyped'
        /\ landed' \subseteq Leftovers
    BY <1>7, MeanwhileEffect
  <2>2. MarksTyped' /\ ReadersTyped' /\ TodoStamped'
    BY <1>3, <2>1 DEF MarksTyped, ReadersTyped, TodoStamped, Deleting
  <2> QED
    BY <1>2, <1>3, <1>7, <2>1, <2>2
<1> QED
  BY <1>1, <1>6, <1>7 DEF Next

\* Every variable has its type, and what a reader still has to delete it has stamped: the
\* stamp and the selection are one transaction (reap.ts:87).
THEOREM TypesHold == Spec => []TypeOK
<1>1. Spec => []Typed
  BY TypedInit, TypedInductive, PTL DEF Spec
<1>2. Typed => TypeOK
  BY TypedGivesTypeOK
<1> QED
  BY <1>1, <1>2, PTL

-----------------------------------------------------------------------------
(* What is offered is free.                                                 *)

\* What the watch holds against a read still stands; until the row is read it is on the
\* list, afterwards it is busy, or left to the row that accounted for it.
Stands(r) == reader[r].at # "idle" => stood[r] \subseteq Standing(reader[r].own, marks, cal)
Covered(r) ==
  IF reader[r].at = "row" THEN stood[r] \subseteq reader[r].items
  ELSE \A s \in stood[r] :
         s[2] \in reader[r].busy \/ (s[1] = Live /\ s[2] \in reader[r].accounted)
\* What is offered meets nothing that was found taken, what the rows held included.
Clear(r) ==
  IF reader[r].at = "idle"
  THEN /\ \A t \in reader[r].times, u \in reader[r].busy : ~Overlaps(At(t), At(u))
       /\ reader[r].held \subseteq reader[r].busy
  ELSE reader[r].times = {}

Free == \A r \in Readers : Stands(r) /\ Covered(r) /\ Clear(r)

LEMMA FreeInit == Init => Free
<1> SUFFICES ASSUME Init, NEW r \in Readers PROVE Stands(r) /\ Covered(r) /\ Clear(r)
  BY DEF Free
<1>1. reader[r] = Nobody /\ stood[r] = {}
  BY DEF Init
<1> QED
  BY <1>1, NobodyTyped DEF Stands, Covered, Clear

LEMMA FreeGivesOffered == Free => OfferedIsFree
<1> SUFFICES ASSUME Free, NEW r \in Readers, NEW t \in reader[r].times
             PROVE  /\ \A u \in reader[r].held : ~Overlaps(At(t), At(u))
                    /\ \A s \in stood[r] : Overlaps(At(t), At(s[2])) =>
                          s[1] = Live /\ s[2] \in reader[r].accounted
  BY DEF OfferedIsFree
<1>1. reader[r].at = "idle"
  BY DEF Free, Clear
<1>2. /\ \A u \in reader[r].busy : ~Overlaps(At(t), At(u))
      /\ reader[r].held \subseteq reader[r].busy
  BY <1>1 DEF Free, Clear
<1>3. \A s \in stood[r] : s[2] \in reader[r].busy \/ (s[1] = Live /\ s[2] \in reader[r].accounted)
  BY <1>1 DEF Free, Covered
<1> QED
  BY <1>2, <1>3

\* While a read goes on the watch only loses what no longer stands.
LEMMA WatchStep ==
  ASSUME Watch, NEW r \in Readers
  PROVE  /\ reader'[r].at # "idle" => stood'[r] \subseteq Standing(reader'[r].own, marks', cal')
         /\ reader[r].at # "idle" \/ reader'[r].at = "idle" => stood'[r] \subseteq stood[r]
         /\ Stands(r)'
<1>1. stood'[r] = IF reader'[r].at = "idle" THEN stood[r]
                  ELSE LET now == Standing(reader'[r].own, marks', cal')
                       IN  IF reader[r].at = "idle" THEN now ELSE stood[r] \cap now
  BY DEF Watch, Is
<1> QED
  BY <1>1 DEF Stands

\* A step that leaves a reader's answers as they are.
LEMMA AnswersKept ==
  ASSUME Watch, NEW r \in Readers, Covered(r), Clear(r), place' = place,
         \/ reader'[r] = reader[r]
         \/ /\ reader[r].at \notin {"idle", "row"} /\ reader'[r].at \notin {"idle", "row"}
            /\ reader'[r].busy = reader[r].busy /\ reader'[r].accounted = reader[r].accounted
            /\ reader'[r].times = reader[r].times
  PROVE  Covered(r)' /\ Clear(r)'
<1>1. stood'[r] \subseteq stood[r]
  BY WatchStep
<1>2. \A t : At(t)' = At(t)
  BY DEF At
<1>3. CASE reader'[r] = reader[r]
  <2>1. Covered(r)'
    BY <1>1, <1>3 DEF Covered
  <2>2. Clear(r)'
    BY <1>2, <1>3 DEF Clear, At
  <2> QED
    BY <2>1, <2>2
<1>4. CASE /\ reader[r].at \notin {"idle", "row"} /\ reader'[r].at \notin {"idle", "row"}
           /\ reader'[r].busy = reader[r].busy /\ reader'[r].accounted = reader[r].accounted
           /\ reader'[r].times = reader[r].times
  BY <1>1, <1>4 DEF Covered, Clear
<1> QED
  BY <1>3, <1>4

\* The row read tells apart what stands: it is busy, or the row accounts for it.
LEMMA ReadRowCovers ==
  ASSUME Typed, Watch, NEW r \in Readers, Covered(r), Clear(r), ReadRow(r)
  PROVE  Covered(r)' /\ Clear(r)'
<1> DEFINE me == reader[r]
           new == reader'[r]
<1>1. /\ UNCHANGED world /\ me.at = "row" /\ new.at \in {"select", "occupy"}
      /\ new.busy = {i[2] : i \in {x \in me.items : IsBusy(x[1], x[2], row, marks, me.own)}}
      /\ new.accounted = {row.start, row.reserved} \ {None}
      /\ new.own = me.own /\ new.times = me.times
  BY ReadRowEffect
<1>2. stood'[r] \subseteq me.items /\ stood'[r] \subseteq Standing(me.own, marks, cal)
  <2>1. stood'[r] \subseteq stood[r] /\ stood'[r] \subseteq Standing(new.own, marks', cal')
    BY <1>1, WatchStep
  <2> QED
    BY <1>1, <2>1 DEF Covered, world
<1>3. ASSUME NEW s \in stood'[r]
      PROVE  s[2] \in new.busy \/ (s[1] = Live /\ s[2] \in new.accounted)
  <2>1. PICK e \in Events : /\ s = <<e, cal[e]>> /\ cal[e] # None
                            /\ e = Foreign \/ Retired(e, marks) \/ (e = Live /\ ~me.own)
    BY <1>2 DEF Standing
  <2>2. s \in me.items /\ s[1] = e /\ s[2] = cal[e]
    BY <1>2, <2>1
  <2>3. CASE IsBusy(s[1], s[2], row, marks, me.own)
    BY <1>1, <2>2, <2>3
  <2>4. CASE ~IsBusy(s[1], s[2], row, marks, me.own)
    <3>1. e = Live /\ AccountsFor(row, cal[e])
      BY <2>1, <2>2, <2>4 DEF IsBusy
    <3> QED
      BY <1>1, <2>1, <2>2, <3>1 DEF AccountsFor
  <2> QED
    BY <2>3, <2>4
<1>4. Covered(r)'
  BY <1>1, <1>3 DEF Covered
<1>5. Clear(r)'
  BY <1>1 DEF Clear
<1> QED
  BY <1>4, <1>5

LEMMA ListCovers ==
  ASSUME Typed, Watch, NEW r \in Readers, List(r)
  PROVE  Covered(r)' /\ Clear(r)'
<1> DEFINE new == reader'[r]
<1>1. /\ UNCHANGED <<marks, cal>> /\ new.at \in {"row", "occupy"}
      /\ new.items = {<<e, cal[e]>> : e \in Listed}
      /\ new.at = "occupy" => Listed \subseteq {Foreign}
      /\ Foreign \in Listed => cal[Foreign] \in new.busy
      /\ new.times = {}
  BY ListEffect
<1>2. \A s \in stood'[r] : \E e \in Listed : s = <<e, cal[e]>>
  <2>1. stood'[r] \subseteq Standing(new.own, marks', cal')
    BY <1>1, WatchStep
  <2> QED
    BY <1>1, <2>1 DEF Standing, Listed
<1>3. CASE new.at = "row"
  BY <1>1, <1>2, <1>3 DEF Covered, Clear
<1>4. CASE new.at = "occupy"
  <2>1. \A s \in stood'[r] : s[2] \in new.busy
    BY <1>1, <1>2, <1>4
  <2> QED
    BY <1>1, <1>4, <2>1 DEF Covered, Clear
<1> QED
  BY <1>1, <1>3, <1>4

LEMMA OccupyCovers ==
  ASSUME Typed, Watch, NEW r \in Readers, Covered(r), Occupy(r)
  PROVE  Covered(r)' /\ Clear(r)'
<1> DEFINE me == reader[r]
           new == reader'[r]
<1>1. /\ UNCHANGED world /\ me.at = "occupy" /\ new.at = "idle"
      /\ new.accounted = me.accounted /\ me.busy \subseteq new.busy
      /\ new.held \subseteq new.busy /\ new.times = Offer(new, new.busy)
  BY OccupyEffect
<1>2. stood'[r] \subseteq stood[r]
  BY <1>1, WatchStep
<1>3. Covered(r)'
  BY <1>1, <1>2 DEF Covered
<1>4. ASSUME NEW t \in new.times, NEW u \in new.busy PROVE ~Overlaps(At(t), At(u))
  BY <1>1, <1>4 DEF Offer, ListAvailableTimes, At
<1>5. \A t : At(t)' = At(t)
  BY <1>1 DEF At, world
<1>6. Clear(r)'
  BY <1>1, <1>4, <1>5 DEF Clear
<1> QED
  BY <1>3, <1>6

LEMMA FreeInductive == Typed /\ Free /\ [Next]_vars => Free'
<1> SUFFICES ASSUME Typed, Free, [Next]_vars PROVE Free'
  OBVIOUS
<1>1. CASE UNCHANGED vars
  BY <1>1 DEF vars, Free, Stands, Covered, Clear, At
<1>2. CASE Next
  <2> SUFFICES ASSUME NEW r \in Readers PROVE Stands(r)' /\ Covered(r)' /\ Clear(r)'
    BY DEF Free
  <2>1. Watch /\ Covered(r) /\ Clear(r)
    BY <1>2 DEF Next, Free
  <2>2. Stands(r)'
    BY <2>1, WatchStep
  <2>3. CASE place' = place /\ reader'[r] = reader[r]
    BY <2>1, <2>2, <2>3, AnswersKept
  <2>4. ASSUME NEW q \in Readers, ReadStep(q), q # r PROVE place' = place /\ reader'[r] = reader[r]
    <3>1. r \in Readers \ {q}
      BY <2>4
    <3> QED
      BY <2>4, <3>1, ListEffect, ReadRowEffect, SelectEffect, DeletingEffect, OccupyEffect
         DEF ReadStep, world
  <2>5. CASE ReadStep(r)
    <3>1. CASE List(r)
      BY <2>1, <2>2, <3>1, ListCovers
    <3>2. CASE ReadRow(r)
      BY <2>1, <2>2, <3>2, ReadRowCovers
    <3>3. CASE Select(r)
      <4>1. /\ place' = place /\ reader[r].at \notin {"idle", "row"} /\ reader'[r].at \notin {"idle", "row"}
            /\ reader'[r].busy = reader[r].busy /\ reader'[r].accounted = reader[r].accounted
            /\ reader'[r].times = reader[r].times
        BY <3>3, SelectEffect
      <4> QED
        BY <2>1, <2>2, <4>1, AnswersKept
    <3>4. CASE RemoveWorks(r) \/ RemoveFails(r) \/ Retire(r)
      <4>1. /\ place' = place /\ reader[r].at \notin {"idle", "row"} /\ reader'[r].at \notin {"idle", "row"}
            /\ reader'[r].busy = reader[r].busy /\ reader'[r].accounted = reader[r].accounted
            /\ reader'[r].times = reader[r].times
        BY <3>4, DeletingEffect DEF Deleting
      <4> QED
        BY <2>1, <2>2, <4>1, AnswersKept
    <3>5. CASE Occupy(r)
      BY <2>1, <2>2, <3>5, OccupyCovers
    <3> QED
      BY <2>5, <3>1, <3>2, <3>3, <3>4, <3>5 DEF ReadStep
  <2>6. CASE Meanwhile
    BY <2>3, <2>6, MeanwhileEffect
  <2> QED
    BY <1>2, <2>3, <2>4, <2>5, <2>6 DEF Next
<1> QED
  BY <1>1, <1>2

\* What is offered is free, though the calendar, the rows it names and the host's occupancy
\* are read one after another without a lock (occupancy.ts:163, availability.ts:47).
THEOREM OffersAreFree == Spec => []OfferedIsFree
<1>1. Spec => [](Typed /\ Free)
  BY TypedInit, TypedInductive, FreeInit, FreeInductive, PTL DEF Spec
<1>2. Free => OfferedIsFree
  BY FreeGivesOffered
<1> QED
  BY <1>1, <1>2, PTL

-----------------------------------------------------------------------------
(* Every retired id has its turn.                                           *)

\* Who was inspected since another could have been stands behind it.
InTurn == \A x, y \in Leftovers :
  x \in passed[y] /\ marks[x] # None /\ marks[y] # None => marks[y] < marks[x]

\* The marks and what they passed move by a selection, or an id drops out.
LEMMA MarksStep ==
  ASSUME Typed, Next
  PROVE  \/ UNCHANGED <<marks, passed>>
         \/ \E r \in Readers : Select(r)
         \/ passed' = passed /\ \E x \in Leftovers : marks' = [marks EXCEPT ![x] = None]
<1>1. ASSUME NEW r \in Readers, ReadStep(r)
      PROVE  \/ UNCHANGED <<marks, passed>>
             \/ Select(r)
             \/ passed' = passed /\ \E x \in Leftovers : marks' = [marks EXCEPT ![x] = None]
  <2>1. CASE RemoveWorks(r) \/ RemoveFails(r) \/ Retire(r)
    BY <2>1, DeletingEffect
  <2>2. CASE List(r) \/ ReadRow(r) \/ Occupy(r)
    BY <2>2, ListEffect, ReadRowEffect, OccupyEffect DEF world
  <2> QED
    BY <1>1, <2>1, <2>2 DEF ReadStep
<1>2. CASE Meanwhile
  BY <1>2, MeanwhileEffect
<1> QED
  BY <1>1, <1>2 DEF Next

LEMMA InTurnInductive == Typed /\ InTurn /\ [Next]_vars => InTurn'
<1> SUFFICES ASSUME Typed, InTurn, [Next]_vars PROVE InTurn'
  OBVIOUS
<1>1. CASE UNCHANGED <<marks, passed>>
  BY <1>1 DEF InTurn
<1>2. ASSUME NEW r \in Readers, Select(r) PROVE InTurn'
  <2> DEFINE S == Selectable(r)
             b == Batch(S)
  <2>1. /\ marks' = Stamped(b)
        /\ passed' = [x \in Leftovers |->
                        IF x \in Range(b) THEN {}
                        ELSE IF x \in S THEN passed[x] \cup Range(b) ELSE passed[x]]
    BY <1>2, SelectEffect
  <2>2. /\ cursor \in Nat /\ None \notin Nat
        /\ \A x \in Leftovers : marks[x] = None \/ marks[x] \in 0 .. cursor
    BY EventsAssumption DEF Typed, MarksTyped
  <2>3. Len(b) \in Nat
    BY SelectableMarked, BatchIsFirst
  <2>4. /\ \A x \in Leftovers : x \in Range(b) => Stamped(b)[x] \in (cursor + 1) .. (cursor + Len(b))
        /\ \A x \in Leftovers : x \notin Range(b) => Stamped(b)[x] = marks[x]
    BY <2>2, SelectableMarked, StampEffect
  <2> HIDE DEF S, b
  <2>5. \A x \in Leftovers : x \in Range(b) => marks'[x] \in Int /\ marks'[x] > cursor
    BY <2>1, <2>2, <2>3, <2>4
  <2>6. \A x \in Leftovers : x \notin Range(b) => marks'[x] = marks[x]
    BY <2>1, <2>4
  <2> SUFFICES ASSUME NEW x \in Leftovers, NEW y \in Leftovers, x \in passed'[y],
                      marks'[x] # None, marks'[y] # None
               PROVE  marks'[y] < marks'[x]
    BY DEF InTurn
  <2>7. y \notin Range(b) /\ (x \in passed[y] \/ x \in Range(b))
    BY <2>1
  <2>8. marks'[y] = marks[y] /\ marks[y] \in 0 .. cursor
    BY <2>2, <2>6, <2>7
  <2>9. CASE x \in Range(b)
    BY <2>2, <2>5, <2>8, <2>9
  <2>10. CASE x \notin Range(b)
    BY <2>6, <2>7, <2>8, <2>10 DEF InTurn
  <2> QED
    BY <2>9, <2>10
<1>3. ASSUME NEW z \in Leftovers, passed' = passed, marks' = [marks EXCEPT ![z] = None] PROVE InTurn'
  <2>1. DOMAIN marks = Leftovers
    BY DEF Typed, MarksTyped
  <2>2. \A x \in Leftovers : marks'[x] # None => marks'[x] = marks[x]
    BY <1>3, <2>1
  <2> QED
    BY <1>3, <2>2 DEF InTurn
<1> QED
  BY <1>1, <1>2, <1>3, MarksStep DEF vars

\* Only a selection starts to delete.
LEMMA SelectionStarts ==
  ASSUME Typed, Next, NEW r \in Readers, Is(r, "select"), reader'[r].at = "remove"
  PROVE  Select(r)
<1>1. ASSUME NEW q \in Readers, ReadStep(q) PROVE Select(r)
  <2>1. q = r
    <3>1. SUFFICES ASSUME r \in Readers \ {q} PROVE reader'[r] = reader[r]
      BY DEF Is
    <3> QED
      BY <1>1, <3>1, ListEffect, ReadRowEffect, SelectEffect, DeletingEffect, OccupyEffect DEF ReadStep
  <2> QED
    BY <1>1, <2>1 DEF ReadStep, List, ReadRow, RemoveWorks, RemoveFails, Retire, Occupy, Is
<1>2. ~Meanwhile
  BY MeanwhileEffect DEF Is
<1> QED
  BY <1>1, <1>2 DEF Next

\* No id is inspected twice while another, that the same reads listed, has not been
\* inspected in between, however the readers overlap (rows.ts:166, REV13-01).
THEOREM NobodyPassedOver == Spec => NoIdPassedOver
<1> DEFINE Turns == \A r \in Readers : Is(r, "select") /\ reader'[r].at = "remove" =>
                      \A x \in Range(reader'[r].todo), y \in Selectable(r) \ Range(reader'[r].todo) :
                         x \notin passed[y]
<1>1. Init => InTurn
  BY DEF Init, InTurn
<1>2. Typed /\ InTurn /\ [Next]_vars => [Turns]_vars
  <2> SUFFICES ASSUME Typed, InTurn, Next, NEW r \in Readers,
                      Is(r, "select"), reader'[r].at = "remove",
                      NEW x \in Range(reader'[r].todo),
                      NEW y \in Selectable(r) \ Range(reader'[r].todo)
               PROVE  x \notin passed[y]
    OBVIOUS
  <2> DEFINE S == Selectable(r)
  <2>1. Marked(S) /\ S \subseteq Leftovers
    BY SelectableMarked DEF Marked
  <2>2. reader'[r].todo = Batch(S)
    BY SelectionStarts, SelectEffect
  <2>3. x \in S
    BY <2>2, SelectionStarts, SelectTyped
  <2> HIDE DEF S
  <2>4. y \in S /\ x \in Range(Batch(S)) /\ y \notin Range(Batch(S))
    BY <2>2 DEF S
  <2>5. marks[x] <= marks[y]
    BY <2>1, <2>3, <2>4, BatchComesSooner
  <2>6. x \in Leftovers /\ y \in Leftovers /\ marks[x] \in Nat /\ marks[y] \in Nat
    BY <2>1, <2>3, <2>4 DEF Marked
  <2> QED
    BY <2>5, <2>6, EventsAssumption DEF InTurn
<1>3. QED
  BY <1>1, <1>2, TypedInit, TypedInductive, InTurnInductive, PTL DEF Spec, NoIdPassedOver

-----------------------------------------------------------------------------
(* Dates and clocks.                                                        *)

LEMMA DateBounds ==
  ASSUME NEW x \in Int
  PROVE  x \div Day \in Int /\ (x \div Day) * Day <= x /\ x < (x \div Day) * Day + Day
  BY GridAssumption

LEMMA DatesApart ==
  ASSUME NEW c \in Int, NEW d \in Int, c < d
  PROVE  c * Day \in Int /\ d * Day \in Int /\ c * Day + Day <= d * Day
  BY GridAssumption

LEMMA DateIs ==
  ASSUME NEW x \in Int, NEW d \in Int, d * Day <= x, x < d * Day + Day
  PROVE  x \div Day = d
<1> DEFINE q == x \div Day
<1>1. /\ q \in Int /\ q * Day <= x /\ x < q * Day + Day
      /\ q * Day \in Int /\ d * Day \in Int /\ Day \in Int
  BY DateBounds, GridAssumption
<1> HIDE DEF q
<1>2. ~(q < d)
  BY <1>1, DatesApart
<1>3. ~(d < q)
  BY <1>1, DatesApart
<1> QED
  BY <1>1, <1>2, <1>3 DEF q

IsZone(z) == z.before \in Int /\ z.after \in Int /\ z.at \in Int

\* A local time shown exactly once is found, whatever the clocks do; no instant before it
\* shows as much, and none after it shows less.
LEMMA PlainTimes ==
  ASSUME NEW z, IsZone(z), NEW date \in Int, NEW time \in Int, Plain(z, date * Day + time)
  PROVE  LET u == ZonedLocalToUtc(z, date, time) IN
         /\ u \in Int
         /\ Local(z, u) = date * Day + time
         /\ \A t \in Int : t > u => Local(z, t) >= date * Day + time
         /\ \A t \in Int : t < u => Local(z, t) < date * Day + time
<1> DEFINE l == date * Day + time
           u == ZonedLocalToUtc(z, date, time)
<1>1. z.before \in Int /\ z.after \in Int /\ z.at \in Int /\ l \in Int
  BY GridAssumption DEF IsZone
<1>2. u = LET offset == ZoneOffset(z, l - ZoneOffset(z, l)) IN l - ZoneOffset(z, l - offset)
  BY DEF ZonedLocalToUtc
<1>3. PICK v \in Shows(z, l) : Shows(z, l) = {v}
  BY DEF Plain
<1> HIDE DEF l, u
<1>4. v \in {l - z.before, l - z.after} /\ Local(z, v) = l /\ v \in Int
  BY <1>1, <1>3 DEF Shows
<1>5. \A x \in {l - z.before, l - z.after} : Local(z, x) = l => x = v
  BY <1>3 DEF Shows
<1>6. CASE v < z.at
  <2>1. v = l - z.before
    BY <1>1, <1>4, <1>6 DEF Local, ZoneOffset
  <2>2. l - z.after < z.at
    BY <1>1, <1>5, <1>6 DEF Local, ZoneOffset
  <2>3. u = v
    BY <1>1, <1>2, <1>6, <2>1, <2>2 DEF ZoneOffset
  <2> QED
    BY <1>1, <1>4, <1>6, <2>1, <2>2, <2>3 DEF Local, ZoneOffset, l, u
<1>7. CASE ~(v < z.at)
  <2>1. v = l - z.after
    BY <1>1, <1>4, <1>7 DEF Local, ZoneOffset
  <2>2. l - z.before >= z.at
    BY <1>1, <1>5, <1>7 DEF Local, ZoneOffset
  <2>3. u = v
    BY <1>1, <1>2, <1>7, <2>1, <2>2 DEF ZoneOffset
  <2> QED
    BY <1>1, <1>4, <1>7, <2>1, <2>2, <2>3 DEF Local, ZoneOffset, l, u
<1> QED
  BY <1>6, <1>7

-----------------------------------------------------------------------------
(* The grid.                                                                *)

\* A start of the grid is in a window of a date of the range.
InWindow(p, d, v, len, inc, t) ==
  /\ v \in p.windows /\ Weekday(d) = v.weekday
  /\ t \in ZonedLocalToUtc(p.zone, d, v.start) .. (ZonedLocalToUtc(p.zone, d, v.end) - len)
  /\ (t - ZonedLocalToUtc(p.zone, d, v.start)) % inc = 0

LEMMA GridMembers ==
  ASSUME NEW p, NEW len, NEW inc, NEW from, NEW to, NEW t
  PROVE  t \in GridStarts(p, len, inc, from, to) <=>
           /\ from <= t /\ t + len <= to
           /\ \E d \in DateOf(p.zone, from) .. DateOf(p.zone, to), v \in p.windows :
                InWindow(p, d, v, len, inc, t)
<1> DEFINE W == ExpandWeekly(p, from, to)
           D == DateOf(p.zone, from) .. DateOf(p.zone, to)
           w(d, v) == [start |-> ZonedLocalToUtc(p.zone, d, v.start),
                       end |-> ZonedLocalToUtc(p.zone, d, v.end)]
<1>1. W = {w(x[1], x[2]) : x \in {y \in D \X p.windows : Weekday(y[1]) = y[2].weekday}}
  BY DEF ExpandWeekly
<1> HIDE DEF W, D
<1>2. \A d, v : t \in StartsIn(w(d, v), len, inc) /\ v \in p.windows /\ Weekday(d) = v.weekday
                  <=> InWindow(p, d, v, len, inc, t)
  BY DEF StartsIn, InWindow
<1>3. \A d \in D, v \in p.windows : Weekday(d) = v.weekday => w(d, v) \in W
  <2> SUFFICES ASSUME NEW d \in D, NEW v \in p.windows, Weekday(d) = v.weekday PROVE w(d, v) \in W
    OBVIOUS
  <2>1. <<d, v>> \in {y \in D \X p.windows : Weekday(y[1]) = y[2].weekday}
    OBVIOUS
  <2> HIDE DEF w
  <2> QED
    BY <1>1, <2>1
<1>4. \A o \in W : \E d \in D, v \in p.windows : Weekday(d) = v.weekday /\ o = w(d, v)
  <2> HIDE DEF w
  <2> QED
    BY <1>1
<1> HIDE DEF w
<1>5. (\E o \in W : t \in StartsIn(o, len, inc)) <=>
      \E d \in D, v \in p.windows : InWindow(p, d, v, len, inc, t)
  BY ONLY <1>2, <1>3, <1>4 DEF InWindow
<1>6. t \in GridStarts(p, len, inc, from, to) <=>
        from <= t /\ t + len <= to /\ \E o \in W : t \in StartsIn(o, len, inc)
  BY DEF GridStarts, W
<1> QED
  BY <1>5, <1>6 DEF D

\* Where published times are shown exactly once, a start is within them on its own date.
LEMMA GridInHours ==
  ASSUME NEW p \in Places, NEW d \in Int, NEW v, NEW inc, NEW t, InWindow(p, d, v, p.len, inc, t),
         Plain(p.zone, d * Day + v.start), Plain(p.zone, d * Day + v.end)
  PROVE  /\ DateOf(p.zone, t) = d /\ Weekday(d) = v.weekday /\ v \in p.windows
         /\ d * Day + v.start <= Local(p.zone, t)
         /\ Local(p.zone, t + p.len) <= d * Day + v.end
<1> DEFINE z == p.zone
           from == ZonedLocalToUtc(z, d, v.start)
           to == ZonedLocalToUtc(z, d, v.end)
<1>1. /\ IsZone(z) /\ v \in p.windows /\ v.start \in 0 .. Day /\ v.end \in 0 .. Day
      /\ p.len \in Int /\ p.len > 0 /\ Day \in Int /\ d * Day \in Int
  BY PlacesAssumption, GridAssumption DEF IsZone, InWindow
<1>2. t \in from .. (to - p.len) /\ Weekday(d) = v.weekday
  BY DEF InWindow
<1>3. v.start \in Int /\ v.end \in Int
  BY <1>1
<1>4. /\ from \in Int /\ Local(z, from) = d * Day + v.start
      /\ \A x \in Int : x > from => Local(z, x) >= d * Day + v.start
  BY <1>1, <1>3, PlainTimes
<1>5. /\ to \in Int /\ Local(z, to) = d * Day + v.end
      /\ \A x \in Int : x < to => Local(z, x) < d * Day + v.end
  BY <1>1, <1>3, PlainTimes
<1> HIDE DEF from, to, z
<1>6. t \in Int /\ (t > from \/ t = from) /\ t < to /\ (t + p.len < to \/ t + p.len = to)
      /\ t + p.len \in Int
  BY <1>1, <1>2, <1>4, <1>5
<1>7. /\ d * Day + v.start <= Local(z, t) /\ Local(z, t) < d * Day + v.end
      /\ Local(z, t + p.len) <= d * Day + v.end
  <2>2. Local(z, t + p.len) <= d * Day + v.end
    <3>1. Local(z, t + p.len) \in Int
      BY <1>1, <1>6 DEF Local, ZoneOffset, IsZone
    <3> QED
      BY <1>1, <1>3, <1>5, <1>6, <3>1
  <2>3. d * Day + v.start <= Local(z, t) /\ Local(z, t) < d * Day + v.end
    <3>1. Local(z, t) \in Int
      BY <1>1, <1>6 DEF Local, ZoneOffset, IsZone
    <3> QED
      BY <1>1, <1>3, <1>4, <1>5, <1>6, <3>1
  <2> QED
    BY <2>2, <2>3
<1>8. Local(z, t) \in Int /\ d * Day <= Local(z, t) /\ Local(z, t) < d * Day + Day
  <2>1. Local(z, t) \in Int
    BY <1>1, <1>6 DEF Local, ZoneOffset, IsZone
  <2> QED
    BY <1>1, <1>7, <2>1
<1>9. DateOf(z, t) = d
  BY <1>8, DateIs DEF DateOf
<1> QED
  BY <1>1, <1>2, <1>7, <1>9 DEF z

\* Dates never go back, the hours published for a date are on it, and an event is no
\* longer than a day.  A zone whose clocks change well within a date is such a place, and
\* so is one whose clocks never change (ClockChangesByDay).
Datewise(p) ==
  /\ p.len <= Day
  /\ \A a, b \in Int : a <= b => DateOf(p.zone, a) <= DateOf(p.zone, b)
  /\ \A d, t \in Int, v \in p.windows, inc \in Nat \ {0} :
       InWindow(p, d, v, p.len, inc, t) => DateOf(p.zone, t) = d

LEMMA DatesTyped ==
  ASSUME NEW p \in Places, NEW t \in Int
  PROVE  DateOf(p.zone, t) \in Int
<1>1. Local(p.zone, t) \in Int
  BY PlacesAssumption DEF Local, ZoneOffset
<1> QED
  BY <1>1, DateBounds DEF DateOf

\* The grid of a range and the grid of a day on either side have the same starts there.
LEMMA GridsAgree ==
  ASSUME NEW p \in Places, Datewise(p), NEW inc \in Nat \ {0},
         NEW from \in Int, NEW to \in Int, NEW t \in Int, from <= t, t + p.len <= to
  PROVE  t \in GridStarts(p, p.len, inc, from, to) <=>
         t \in GridStarts(p, p.len, inc, t - Day, t + Day)
<1>1. p.len \in Int /\ Day \in Int /\ p.len <= Day /\ p.len > 0 /\ Day > 0
  BY PlacesAssumption, GridAssumption DEF Datewise
<1>2. t - Day <= t /\ t + p.len <= t + Day /\ t <= t + Day /\ t <= to
      /\ t - Day \in Int /\ t + Day \in Int
  BY <1>1
<1>3. ASSUME NEW d \in Int, NEW v, InWindow(p, d, v, p.len, inc, t)
      PROVE  /\ d \in DateOf(p.zone, from) .. DateOf(p.zone, to)
             /\ d \in DateOf(p.zone, t - Day) .. DateOf(p.zone, t + Day)
  <2>1. DateOf(p.zone, t) = d
    <3>1. v \in p.windows
      BY <1>3 DEF InWindow
    <3> QED
      BY <1>3, <3>1 DEF Datewise
  <2>2. /\ DateOf(p.zone, from) <= d /\ d <= DateOf(p.zone, to)
        /\ DateOf(p.zone, t - Day) <= d /\ d <= DateOf(p.zone, t + Day)
    BY <1>2, <2>1 DEF Datewise
  <2>3. /\ DateOf(p.zone, from) \in Int /\ DateOf(p.zone, to) \in Int
        /\ DateOf(p.zone, t - Day) \in Int /\ DateOf(p.zone, t + Day) \in Int
    BY <1>2, DatesTyped
  <2> QED
    BY <2>2, <2>3
<1>4. t \in GridStarts(p, p.len, inc, from, to) <=>
        \E d \in DateOf(p.zone, from) .. DateOf(p.zone, to), v \in p.windows :
           InWindow(p, d, v, p.len, inc, t)
  BY GridMembers
<1>5. t \in GridStarts(p, p.len, inc, t - Day, t + Day) <=>
        \E d \in DateOf(p.zone, t - Day) .. DateOf(p.zone, t + Day), v \in p.windows :
           InWindow(p, d, v, p.len, inc, t)
  BY <1>2, GridMembers
<1> QED
  BY <1>3, <1>4, <1>5

-----------------------------------------------------------------------------
(* What an answer holds.                                                    *)

\* An answer is the grid, less what was found taken.
Answered == \A r \in Readers :
  reader[r].at = "idle" =>
    \/ reader[r].times = Offer(reader[r], reader[r].busy)
    \/ reader[r].times = {} /\ reader[r].from = 0 /\ reader[r].to = 0

LEMMA AnsweredInductive == Typed /\ Answered /\ [Next]_vars => Answered'
<1> SUFFICES ASSUME Typed, Answered, [Next]_vars PROVE Answered'
  OBVIOUS
<1>1. ASSUME place' = place PROVE \A me, taken : Offer(me, taken)' = Offer(me, taken)
  BY <1>1 DEF Offer, At
<1>2. ASSUME place' = place, NEW r \in Readers, reader'[r] = reader[r], reader'[r].at = "idle"
      PROVE  \/ reader'[r].times = Offer(reader[r], reader[r].busy)'
             \/ reader'[r].times = {} /\ reader'[r].from = 0 /\ reader'[r].to = 0
  <2>1. Offer(reader[r], reader[r].busy)' = Offer(reader[r], reader[r].busy)
    BY <1>2 DEF Offer, At
  <2>2. \/ reader[r].times = Offer(reader[r], reader[r].busy)
        \/ reader[r].times = {} /\ reader[r].from = 0 /\ reader[r].to = 0
    BY <1>2 DEF Answered
  <2> QED
    BY <1>2, <2>1, <2>2
<1>3. CASE UNCHANGED vars
  BY <1>2, <1>3 DEF vars, Answered
<1>4. ASSUME NEW q \in Readers, ReadStep(q) PROVE Answered'
  <2> SUFFICES ASSUME NEW r \in Readers, reader'[r].at = "idle"
               PROVE  \/ reader'[r].times = Offer(reader[r], reader[r].busy)'
                      \/ reader'[r].times = {} /\ reader'[r].from = 0 /\ reader'[r].to = 0
    BY DEF Answered
  <2>1. place' = place
    BY <1>4, ListEffect, ReadRowEffect, SelectEffect, DeletingEffect, OccupyEffect
       DEF ReadStep, world
  <2>2. CASE r # q
    <3>1. r \in Readers \ {q}
      BY <2>2
    <3>2. reader'[r] = reader[r]
      BY <1>4, <3>1, ListEffect, ReadRowEffect, SelectEffect, DeletingEffect, OccupyEffect DEF ReadStep
    <3> QED
      BY <1>2, <2>1, <3>2
  <2>3. CASE r = q
    <3>1. Occupy(r)
      BY <1>4, <2>3, ListEffect, ReadRowEffect, SelectEffect, DeletingEffect DEF ReadStep
    <3>2. reader'[r].times = Offer(reader'[r], reader'[r].busy)
      BY <3>1, OccupyEffect
    <3> QED
      BY <2>1, <3>2 DEF Offer, At
  <2> QED
    BY <2>2, <2>3
<1>5. CASE Meanwhile
  BY <1>2, <1>5, MeanwhileEffect DEF Answered
<1> QED
  BY <1>3, <1>4, <1>5 DEF Next

LEMMA AnsweredInit == Init => Answered
<1> SUFFICES ASSUME Init, NEW r \in Readers
             PROVE  reader[r].times = {} /\ reader[r].from = 0 /\ reader[r].to = 0
  BY DEF Answered
<1> QED
  BY DEF Init, Nobody

LEMMA SlotsAreInHours == Typed /\ Free /\ Answered => SlotsInHours
<1> SUFFICES ASSUME Typed, Free, Answered, NEW r \in Readers,
                    \A l \in PublishedTimes(reader[r].from, reader[r].to) : Plain(place.zone, l),
                    NEW t \in reader[r].times
             PROVE  InHours(t)
  BY DEF SlotsInHours
<1> DEFINE me == reader[r]
           inc == Increment(place.len, me.own)
           D == DateOf(place.zone, me.from) .. DateOf(place.zone, me.to)
<1>1. t \in Offer(me, me.busy)
  BY DEF Free, Clear, Answered
<1>2. t \in GridStarts(place, place.len, inc, me.from, me.to)
  BY <1>1 DEF Offer, ListAvailableTimes
<1> HIDE DEF inc
<1>3. PICK d \in D, v \in place.windows : InWindow(place, d, v, place.len, inc, t)
  BY <1>2, GridMembers
<1>4. Plain(place.zone, d * Day + v.start) /\ Plain(place.zone, d * Day + v.end)
  <2>1. /\ d * Day + v.start \in PublishedTimes(me.from, me.to)
        /\ d * Day + v.end \in PublishedTimes(me.from, me.to)
    <3> DEFINE ends(e, w) == {e * Day + w.start, e * Day + w.end}
    <3>1. PublishedTimes(me.from, me.to) = UNION {ends(e, w) : e \in D, w \in place.windows}
      BY DEF PublishedTimes
    <3>2. ends(d, v) \in {ends(e, w) : e \in D, w \in place.windows}
      BY <1>3
    <3>3. d * Day + v.start \in ends(d, v) /\ d * Day + v.end \in ends(d, v)
      OBVIOUS
    <3> HIDE DEF ends, D, me
    <3> QED
      BY <3>1, <3>2, <3>3
  <2> QED
    BY <2>1
<1>5. d \in Int /\ place \in Places
  BY DEF Typed
<1>6. /\ DateOf(place.zone, t) = d /\ Weekday(d) = v.weekday
      /\ d * Day + v.start <= Local(place.zone, t)
      /\ Local(place.zone, t + place.len) <= d * Day + v.end
  BY <1>3, <1>4, <1>5, GridInHours
<1> QED
  BY <1>6 DEF InHours

LEMMA OffersAreAccepted == Typed /\ Answered /\ Datewise(place) => OfferedIsAccepted
<1> SUFFICES ASSUME Typed, Answered, Datewise(place), NEW r \in Readers, reader[r].at = "idle"
             PROVE  LET me == reader[r]
                        accepted == {t \in me.from .. me.to :
                                       IsCandidate(place, place.len, me.own, me.current, t)}
                    IN  me.times = {t \in accepted : t + place.len <= me.to
                                        /\ \A u \in me.busy : ~Overlaps(At(t), At(u))}
  BY DEF OfferedIsAccepted
<1> DEFINE me == reader[r]
           inc == Increment(place.len, me.own)
           accepted == {t \in me.from .. me.to :
                          IsCandidate(place, place.len, me.own, me.current, t)}
           answer == {t \in accepted : t + place.len <= me.to
                                        /\ \A u \in me.busy : ~Overlaps(At(t), At(u))}
<1>1. place \in Places /\ me.from \in Int /\ me.to \in Int /\ me.times \subseteq Int
  BY DEF Typed, ReadersTyped, Reads
<1>2. place.len \in Nat \ {0} /\ inc \in Nat \ {0}
  BY <1>1, PlacesAssumption, GridAssumption DEF Increment
<1>3. CASE me.times = {} /\ me.from = 0 /\ me.to = 0
  <2>1. answer = {}
    BY <1>2, <1>3
  <2> QED
    BY <1>3, <2>1
<1>4. CASE me.times = Offer(me, me.busy)
  <2>1. \A t : t \in me.times => t \in Int
    BY <1>1
  <2>2. ASSUME NEW t \in Int
        PROVE  t \in Offer(me, me.busy) <=>
                 /\ t \in GridStarts(place, place.len, inc, me.from, me.to)
                 /\ \A u \in me.busy : ~Overlaps(At(t), At(u))
                 /\ ~(me.own /\ t = me.current)
    BY DEF Offer, ListAvailableTimes, At
  <2>3. ASSUME NEW t \in Int
        PROVE  t \in accepted <=>
                 /\ t \in me.from .. me.to
                 /\ t \in GridStarts(place, place.len, inc, t - Day, t + Day)
                 /\ ~(me.own /\ t = me.current)
    BY DEF IsCandidate, OnGrid
  <2>4. ASSUME NEW t \in Int
        PROVE  t \in GridStarts(place, place.len, inc, me.from, me.to) <=>
                 /\ t \in me.from .. me.to /\ t + place.len <= me.to
                 /\ t \in GridStarts(place, place.len, inc, t - Day, t + Day)
    <3> HIDE DEF inc, me
    <3>1. t \in GridStarts(place, place.len, inc, me.from, me.to) =>
            me.from <= t /\ t + place.len <= me.to
      BY GridMembers
    <3>2. me.from <= t /\ t + place.len <= me.to => t \in me.from .. me.to
      BY <1>1, <1>2
    <3>3. me.from <= t /\ t + place.len <= me.to =>
            (t \in GridStarts(place, place.len, inc, me.from, me.to) <=>
             t \in GridStarts(place, place.len, inc, t - Day, t + Day))
      BY <1>1, <1>2, GridsAgree
    <3>4. t \in me.from .. me.to => me.from <= t
      BY <1>1
    <3> QED
      BY <3>1, <3>2, <3>3, <3>4
  <2>5. \A t \in answer : t \in Int
    BY <1>1
  <2>6. ASSUME NEW t \in Int PROVE t \in me.times <=> t \in answer
    <3>1. t \in answer <=> /\ t \in accepted /\ t + place.len <= me.to
                           /\ \A u \in me.busy : ~Overlaps(At(t), At(u))
      OBVIOUS
    <3> HIDE DEF answer, accepted, inc, me
    <3> QED
      BY <1>4, <2>2, <2>3, <2>4, <3>1
  <2> HIDE DEF answer
  <2>7. me.times = answer
    BY <2>1, <2>5, <2>6
  <2> QED
    BY <2>7 DEF answer
<1> QED
  BY <1>3, <1>4 DEF Answered

\* An offered start is within the published hours of its own date, whatever the clocks do,
\* where every published time is shown exactly once (timezone.ts:75, slots.ts:68).
THEOREM HoursKept == Spec => []SlotsInHours
<1>1. Spec => [](Typed /\ Free /\ Answered)
  BY TypedInit, TypedInductive, FreeInit, FreeInductive, AnsweredInit, AnsweredInductive, PTL DEF Spec
<1>2. Typed /\ Free /\ Answered => SlotsInHours
  BY SlotsAreInHours
<1> QED
  BY <1>1, <1>2, PTL

\* Every offered slot is accepted and nothing else is (slots.ts:50), and is within the
\* published hours: the list of a range and the membership test of a mutation agree where
\* dates do not go back and the hours of a date are on it.
THEOREM GridHolds == (\A p \in Places : Datewise(p)) => (Spec => []GridIsSound)
<1> SUFFICES ASSUME \A p \in Places : Datewise(p) PROVE Spec => []GridIsSound
  OBVIOUS
<1>1. Spec => [](Typed /\ Free /\ Answered)
  BY TypedInit, TypedInductive, FreeInit, FreeInductive, AnsweredInit, AnsweredInductive, PTL DEF Spec
<1>2. Typed /\ Free /\ Answered => GridIsSound
  BY SlotsAreInHours, OffersAreAccepted DEF GridIsSound, Typed
<1> QED
  BY <1>1, <1>2, PTL

-----------------------------------------------------------------------------
(* Which places are datewise.                                               *)

\* Every clock reading around the change, early or late by the change itself, is of one
\* date: clocks that change by an hour do so at least an hour from midnight.
ClockChangesByDay(z, D) ==
  LET change == IF z.before < z.after THEN z.after - z.before ELSE z.before - z.after
  IN  \A o \in {z.before, z.after} :
        D * Day + change <= z.at + o /\ z.at + o + change <= D * Day + Day

LEMMA DatesInOrder ==
  ASSUME NEW a \in Int, NEW b \in Int, a <= b
  PROVE  a \div Day <= b \div Day
<1> DEFINE c == a \div Day
           d == b \div Day
<1>1. /\ c \in Int /\ d \in Int /\ c * Day <= a /\ b < d * Day + Day
      /\ c * Day \in Int /\ d * Day \in Int /\ Day \in Int
  BY DateBounds, GridAssumption
<1> HIDE DEF c, d
<1>2. ASSUME d < c PROVE FALSE
  <2>1. d * Day + Day <= c * Day
    BY <1>1, <1>2, DatesApart
  <2> QED
    BY <1>1, <2>1
<1>3. c <= d
  BY <1>1, <1>2
<1> QED
  BY <1>3 DEF c, d

\* In such a zone a clock shows, throughout the hours of a date, a time of that date.
LEMMA HoursOnTheirDate ==
  ASSUME NEW z, IsZone(z), NEW D \in Int, ClockChangesByDay(z, D),
         NEW d \in Int, NEW start \in 0 .. Day, NEW end \in 0 .. Day, NEW t \in Int,
         ZonedLocalToUtc(z, d, start) <= t, t < ZonedLocalToUtc(z, d, end)
  PROVE  DateOf(z, t) = d
<1> DEFINE X == D * Day
           x == d * Day
           l == x + start
           m == x + end
           change == IF z.before < z.after THEN z.after - z.before ELSE z.before - z.after
<1>1. /\ z.before \in Int /\ z.after \in Int /\ z.at \in Int /\ Day \in Int
      /\ start \in Int /\ end \in Int /\ 0 <= start /\ start <= Day /\ 0 <= end /\ end <= Day
      /\ X \in Int /\ x \in Int
  BY GridAssumption DEF IsZone
<1>2. \/ d < D /\ x + Day <= X
      \/ d = D /\ x = X
      \/ D < d /\ X + Day <= x
  BY DatesApart
<1>3. /\ X + change <= z.at + z.before /\ z.at + z.before + change <= X + Day
      /\ X + change <= z.at + z.after /\ z.at + z.after + change <= X + Day
  BY DEF ClockChangesByDay
<1>4. /\ ZonedLocalToUtc(z, d, start) =
           LET o == ZoneOffset(z, l - ZoneOffset(z, l)) IN l - ZoneOffset(z, l - o)
      /\ ZonedLocalToUtc(z, d, end) =
           LET o == ZoneOffset(z, m - ZoneOffset(z, m)) IN m - ZoneOffset(z, m - o)
  BY DEF ZonedLocalToUtc
<1> DEFINE u == ZonedLocalToUtc(z, d, start)
           v == ZonedLocalToUtc(z, d, end)
<1>5. u <= t /\ t < v
  OBVIOUS
<1> HIDE DEF X, x, u, v
<1>6. x <= t + ZoneOffset(z, t) /\ t + ZoneOffset(z, t) < x + Day
  <2>1. u \in {l - z.before, l - z.after} /\ v \in {m - z.before, m - z.after}
    BY <1>4 DEF ZoneOffset, u, v
  <2>2. CASE x + Day <= X
    <3>1. \A n \in {l, m}, o \in {z.before, z.after} :
            n - o < z.at \/ (n - o = z.at /\ z.before = z.after)
      BY <1>1, <1>3, <2>2
    <3>2. u = l - z.before /\ v = m - z.before
      BY <1>1, <1>4, <3>1 DEF ZoneOffset, u, v
    <3>3. t < z.at \/ z.before = z.after
      BY <1>1, <1>5, <3>1, <3>2
    <3> QED
      BY <1>1, <1>5, <3>2, <3>3 DEF ZoneOffset
  <2>3. CASE X + Day <= x
    <3>1. \A n \in {l, m}, o \in {z.before, z.after} : n - o >= z.at
      BY <1>1, <1>3, <2>3
    <3>2. u = l - z.after /\ v = m - z.after
      BY <1>1, <1>4, <3>1 DEF ZoneOffset, u, v
    <3>3. t >= z.at
      BY <1>1, <1>5, <3>1, <3>2
    <3> QED
      BY <1>1, <1>5, <3>2, <3>3 DEF ZoneOffset
  <2>4. CASE x = X
    BY <1>1, <1>3, <1>4, <1>5, <2>1, <2>4 DEF ZoneOffset, u, v
  <2> QED
    BY <1>2, <2>2, <2>3, <2>4
<1>7. t + ZoneOffset(z, t) \in Int
  BY <1>1 DEF ZoneOffset
<1> QED
  BY <1>6, <1>7, DateIs DEF DateOf, Local, x

\* Places whose clocks change by day are datewise, so what GridHolds asks for is had.
THEOREM DaytimeChangesAreDatewise ==
  ASSUME NEW p \in Places, p.len <= Day, NEW D \in Int, ClockChangesByDay(p.zone, D)
  PROVE  Datewise(p)
<1> DEFINE z == p.zone
<1>1. IsZone(z) /\ p.len \in Int /\ p.len > 0
  BY PlacesAssumption DEF IsZone
<1> HIDE DEF z
<1>2. ASSUME NEW a \in Int, NEW b \in Int, a <= b PROVE DateOf(z, a) <= DateOf(z, b)
  <2> DEFINE X == D * Day
  <2>1. X \in Int /\ Day \in Int /\ z.before \in Int /\ z.after \in Int /\ z.at \in Int
    BY <1>1, GridAssumption DEF IsZone
  <2>2. X <= z.at + z.before /\ X <= z.at + z.after /\ z.at + z.before <= X + Day
    BY <2>1 DEF ClockChangesByDay, z
  <2> HIDE DEF X
  <2>3. Local(z, a) \in Int /\ Local(z, b) \in Int
    BY <2>1 DEF Local, ZoneOffset
  <2>4. CASE Local(z, a) <= Local(z, b)
    BY <2>3, <2>4, DatesInOrder DEF DateOf
  <2>5. CASE ~(Local(z, a) <= Local(z, b))
    <3>1. a < z.at /\ ~(b < z.at)
      BY <1>2, <2>1, <2>5 DEF Local, ZoneOffset
    <3>2. Local(z, a) < X + Day /\ X <= Local(z, b)
      BY <2>1, <2>2, <3>1 DEF Local, ZoneOffset
    <3>3. X <= Local(z, a) /\ Local(z, b) < X + Day
      BY <2>1, <2>3, <2>5, <3>2
    <3>4. DateOf(z, a) = D /\ DateOf(z, b) = D
      BY <2>3, <3>2, <3>3, DateIs DEF DateOf, X
    <3> QED
      BY <3>4
  <2> QED
    BY <2>4, <2>5
<1>3. ASSUME NEW d \in Int, NEW t \in Int, NEW v \in p.windows, NEW inc, InWindow(p, d, v, p.len, inc, t)
      PROVE  DateOf(z, t) = d
  <2>1. v.start \in 0 .. Day /\ v.end \in 0 .. Day
    BY PlacesAssumption
  <2>2. t \in ZonedLocalToUtc(z, d, v.start) .. (ZonedLocalToUtc(z, d, v.end) - p.len)
    BY <1>3 DEF InWindow, z
  <2>3. ZonedLocalToUtc(z, d, v.start) \in Int /\ ZonedLocalToUtc(z, d, v.end) \in Int
    BY <1>1, <2>1, GridAssumption DEF ZonedLocalToUtc, ZoneOffset, IsZone
  <2>4. ZonedLocalToUtc(z, d, v.start) <= t /\ t < ZonedLocalToUtc(z, d, v.end)
    BY <1>1, <2>2, <2>3
  <2> QED
    BY <1>1, <2>1, <2>4, HoursOnTheirDate DEF z
<1> QED
  BY <1>2, <1>3 DEF Datewise, z
=============================================================================
