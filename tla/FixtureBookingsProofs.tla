------------------------ MODULE FixtureBookingsProofs ------------------------
(***************************************************************************)
(* The in-memory bookings, proved for every number of calls, hosts, slots  *)
(* and event types: the chains are mutual exclusion taken in one order of  *)
(* the hosts, so no calls wait in a circle; and what a call reads under    *)
(* its locks, with what it is known to miss, is enough to keep every host  *)
(* in one meeting at a time and every calendar event with its booking.     *)
(***************************************************************************)
EXTENDS FixtureBookings, FiniteSetTheorems, WellFoundedInduction, TLAPS

-----------------------------------------------------------------------------
\* Within a length of a grid start there is no other.
LEMMA GridStep ==
  ASSUME NEW n \in Int, n > 0, NEW t \in Int, NEW u \in Int, t % n = 0, t <= u, u < t + n
  PROVE  u % n = u - t
BY SMTT(30)

\* Two spans of one length on its grid are the same or apart.
LEMMA GridApart ==
  ASSUME NEW n \in Nat \ {0}, NEW t \in Nat, NEW u \in Nat, t % n = 0, u % n = 0,
         (t .. (t + n - 1)) \cap (u .. (u + n - 1)) # {}
  PROVE  t = u
<1>0. n \in Int /\ n > 0 /\ t \in Int /\ u \in Int
  OBVIOUS
<1>1. PICK s \in Int : s >= t /\ s <= t + n - 1 /\ s >= u /\ s <= u + n - 1
  OBVIOUS
<1>2. u < t + n /\ t < u + n
  BY <1>1
<1>3. CASE t <= u
  <2>1. u % n = u - t
    BY ONLY <1>0, <1>2, <1>3, t % n = 0, GridStep
  <2> QED BY <1>0, <2>1
<1>4. CASE u <= t
  <2>1. t % n = t - u
    BY ONLY <1>0, <1>2, <1>4, u % n = 0, GridStep
  <2> QED BY <1>0, <2>1
<1> QED BY <1>0, <1>3, <1>4

\* A host's rank among the hosts of a set: how many come before it.
Before(S, h) == {g \in S : g < h}

LEMMA RankTypes ==
  ASSUME NEW S \in SUBSET Nat, IsFiniteSet(S), NEW h \in S
  PROVE  /\ IsFiniteSet(Before(S, h)) /\ Cardinality(Before(S, h)) \in Nat
         /\ Cardinality(S) \in Nat /\ Cardinality(Before(S, h)) + 1 \in 1 .. Cardinality(S)
<1>1. h \in Nat /\ Before(S, h) \in SUBSET S /\ h \notin Before(S, h)
  BY DEF Before
<1>2. /\ IsFiniteSet(Before(S, h)) /\ Cardinality(Before(S, h)) <= Cardinality(S)
      /\ Cardinality(S) = Cardinality(Before(S, h)) => S = Before(S, h)
  BY <1>1, FS_Subset
<1>3. Cardinality(S) \in Nat /\ Cardinality(Before(S, h)) \in Nat
  BY <1>2, FS_CardinalityType
<1>4. Cardinality(S) # Cardinality(Before(S, h))
  BY <1>1, <1>2
<1> QED BY <1>2, <1>3, <1>4

LEMMA RanksGrow ==
  ASSUME NEW S \in SUBSET Nat, IsFiniteSet(S), NEW g \in S, NEW h \in S, g < h
  PROVE  Cardinality(Before(S, g)) < Cardinality(Before(S, h))
<1>1. g \in Nat /\ h \in Nat /\ S \subseteq Nat
  OBVIOUS
<1>2. Before(S, g) \in SUBSET Before(S, h)
  <2>1. ASSUME NEW x \in S, x < g PROVE x < h
    <3>1. x \in Nat
      OBVIOUS
    <3> QED BY <1>1, <2>1, <3>1
  <2> QED BY <2>1 DEF Before
<1>3. g \in Before(S, h) /\ g \notin Before(S, g)
  BY <1>1 DEF Before
<1>4. /\ Cardinality(Before(S, g)) <= Cardinality(Before(S, h))
      /\ Cardinality(Before(S, h)) = Cardinality(Before(S, g)) => Before(S, h) = Before(S, g)
  BY <1>2, RankTypes, FS_Subset
<1>5. Cardinality(Before(S, g)) # Cardinality(Before(S, h))
  BY <1>3, <1>4
<1>6. Cardinality(Before(S, g)) \in Nat /\ Cardinality(Before(S, h)) \in Nat
  BY RankTypes
<1> QED BY <1>4, <1>5, <1>6

LEMMA RanksDiffer ==
  ASSUME NEW S \in SUBSET Nat, IsFiniteSet(S), NEW g \in S, NEW h \in S,
         Cardinality(Before(S, g)) = Cardinality(Before(S, h))
  PROVE  g = h
<1>1. g \in Nat /\ h \in Nat
  OBVIOUS
<1>2. Cardinality(Before(S, g)) \in Nat
  BY RankTypes
<1>3. ~(g < h)
  BY <1>2, RanksGrow
<1>4. ~(h < g)
  BY <1>2, RanksGrow
<1> QED BY <1>1, <1>3, <1>4

LEMMA EveryRank ==
  ASSUME NEW S \in SUBSET Nat, IsFiniteSet(S), NEW i \in 1 .. Cardinality(S)
  PROVE  \E h \in S : Cardinality(Before(S, h)) = i - 1
<1> DEFINE n == Cardinality(S)
           rank == [h \in S |-> Cardinality(Before(S, h)) + 1]
<1>1. n \in Nat
  BY FS_CardinalityType
<1>2. rank \in [S -> 1 .. n]
  BY RankTypes
<1>3. ASSUME NEW g \in S, NEW h \in S, rank[g] = rank[h] PROVE g = h
  <2>1. Cardinality(Before(S, g)) = Cardinality(Before(S, h))
    BY <1>3, RankTypes
  <2> QED BY <2>1, RanksDiffer
<1>4. rank \in Injection(S, 1 .. n)
  BY <1>2, <1>3 DEF Injection, IsInjective
<1>5. IsFiniteSet(1 .. n) /\ Cardinality(1 .. n) = n
  <2>1. 1 \in Int /\ n \in Int
    BY <1>1
  <2>2. /\ IsFiniteSet(1 .. n)
        /\ Cardinality(1 .. n) = IF 1 > n THEN 0 ELSE n - 1 + 1
    BY ONLY <2>1, FS_Interval
  <2> QED BY <1>1, <2>2
<1>6. rank \in Surjection(S, 1 .. n)
  BY <1>4, <1>5, FS_Injection
<1>7. PICK h \in S : rank[h] = i
  BY <1>6 DEF Surjection
<1>8. Cardinality(Before(S, h)) \in Nat
  BY RankTypes
<1> QED BY <1>7, <1>8

\* A set of hosts, sorted.
LEMMA SortedHosts ==
  ASSUME NEW S \in SUBSET Nat, IsFiniteSet(S), NEW e
  PROVE  /\ Sorted(e, S) \in Seq(S) /\ Len(Sorted(e, S)) = Cardinality(S) /\ Cardinality(S) \in Nat
         /\ \A i, j \in 1 .. Cardinality(S) : i < j => Sorted(e, S)[i] < Sorted(e, S)[j]
         /\ \A h \in S : \E i \in 1 .. Cardinality(S) : Sorted(e, S)[i] = h
<1> DEFINE n == Cardinality(S)
           s == Sorted(e, S)
<1>1. n \in Nat
  BY FS_CardinalityType
<1>2. ASSUME NEW i \in 1 .. n PROVE s[i] \in S /\ Cardinality(Before(S, s[i])) = i - 1
  <2>1. s[i] = CHOOSE h \in S : Cardinality(Before(S, h)) = i - 1
    BY DEF Sorted, Before
  <2>2. \E h \in S : Cardinality(Before(S, h)) = i - 1
    BY EveryRank
  <2> HIDE DEF s
  <2> QED BY <2>1, <2>2
<1>3. s = [i \in 1 .. n |-> s[i]]
  <2> DEFINE f(i) == CHOOSE h \in S : Cardinality({g \in S : g < h}) = i - 1
  <2>1. s = [i \in 1 .. n |-> f(i)]
    BY DEF Sorted
  <2> HIDE DEF f, s, n
  <2> QED BY ONLY <2>1
<1> HIDE DEF s
<1>4. s \in Seq(S) /\ Len(s) = n
  BY <1>1, <1>2, <1>3
<1>5. ASSUME NEW i \in 1 .. n, NEW j \in 1 .. n, i < j PROVE s[i] < s[j]
  <2>1. s[i] \in S /\ s[j] \in S /\ s[i] \in Nat /\ s[j] \in Nat
    BY <1>2
  <2>2. Cardinality(Before(S, s[i])) = i - 1 /\ Cardinality(Before(S, s[j])) = j - 1
    BY <1>2
  <2>3. s[i] # s[j]
    BY <1>5, <2>2, <1>1
  <2>4. ~(s[j] < s[i])
    <3>1. SUFFICES ASSUME s[j] < s[i] PROVE FALSE
      OBVIOUS
    <3>2. Cardinality(Before(S, s[j])) < Cardinality(Before(S, s[i]))
      BY <2>1, <3>1, RanksGrow
    <3> QED BY <1>1, <1>5, <2>2, <3>2
  <2> QED BY <2>1, <2>3, <2>4
<1>6. ASSUME NEW h \in S PROVE \E i \in 1 .. n : s[i] = h
  <2>1. PICK i \in 1 .. n : i = Cardinality(Before(S, h)) + 1
    BY RankTypes
  <2>2. Cardinality(Before(S, s[i])) = Cardinality(Before(S, h)) /\ s[i] \in S
    <3>1. Cardinality(Before(S, h)) \in Nat
      BY RankTypes
    <3> QED BY <1>1, <1>2, <2>1, <3>1
  <2> QED BY <2>1, <2>2, RanksDiffer
<1> QED BY <1>1, <1>4, <1>5, <1>6 DEF s

-----------------------------------------------------------------------------
(* The hosts an event type assigns, and the keys of a job.                  *)

LEMMA AssignedTypes ==
  ASSUME NEW e \in Types
  PROVE  /\ Assigned(e) \in SUBSET Nat /\ IsFiniteSet(Assigned(e)) /\ Organizer(e) \in Assigned(e)
         /\ Assigned(e) \subseteq Hosts
<1> DEFINE q == HostsOf[e]
           f == [i \in 1 .. Len(q) |-> q[i]]
<1>1. q \in Seq(Nat) /\ Len(q) > 0 /\ Len(q) \in Nat
  BY TypesAreSane
<1>2. \A i \in 1 .. Len(q) : q[i] \in Nat
  BY <1>1
<1>3. f \in Surjection(1 .. Len(q), Assigned(e))
  BY DEF Surjection, Assigned
<1>4. IsFiniteSet(1 .. Len(q))
  <2>1. 1 \in Int /\ Len(q) \in Int
    BY <1>1
  <2> QED BY ONLY <2>1, FS_Interval
<1>5. IsFiniteSet(Assigned(e))
  BY <1>3, <1>4, FS_Surjection
<1>6. Assigned(e) \in SUBSET Nat
  BY <1>2 DEF Assigned
<1>7. Organizer(e) \in Assigned(e)
  BY <1>1 DEF Assigned, Organizer
<1> QED BY <1>5, <1>6, <1>7 DEF Hosts

LEMMA HostsTypes == Hosts \in SUBSET Nat /\ IsFiniteSet(Hosts) /\ Cardinality(Hosts) \in Nat
<1> DEFINE A == {Assigned(e) : e \in Types}
           f == [e \in Types |-> Assigned(e)]
<1>1. f \in Surjection(Types, A)
  BY DEF Surjection
<1>2. IsFiniteSet(Types)
  BY TypesAreSane
<1>3. IsFiniteSet(A)
  BY <1>1, <1>2, FS_Surjection
<1>4. \A T \in A : IsFiniteSet(T)
  BY AssignedTypes
<1>5. IsFiniteSet(UNION A)
  BY <1>3, <1>4, FS_UNION
<1>6. Hosts = UNION A
  BY DEF Hosts
<1>7. Hosts \in SUBSET Nat
  BY AssignedTypes DEF Hosts
<1> QED BY <1>5, <1>6, <1>7, FS_CardinalityType

LEMMA CallsFinite == IsFiniteSet(Calls) /\ \A S \in SUBSET Calls : IsFiniteSet(S)
<1>1. 1 \in Int /\ NCalls \in Int
  BY TypesAreSane
<1>2. IsFiniteSet(1 .. NCalls)
  BY ONLY <1>1, FS_Interval
<1> QED BY <1>2, FS_Subset DEF Calls

\* What a call may ask: a published start of its type, or of a booking there is.
Jobs == [do : {"create"}, type : Types, start : Slots]
          \cup [do : {"move"}, of : Calls, start : Slots]
          \cup [do : {"cancel"}, of : Calls]
JobFits(j) ==
  /\ j \in Jobs
  /\ j.do # "create" => bookings[j.of] # None
  /\ j.do # "cancel" => j.start \in GridStarts(TypeOf(j))

LEMMA JobTypes ==
  ASSUME NEW j, JobFits(j), bookings \in [Calls -> Bookings \cup {None}]
  PROVE  /\ j.do \in {"create", "move", "cancel"}
         /\ j.do # "create" => j.of \in Calls /\ bookings[j.of] \in Bookings
         /\ TypeOf(j) \in Types
         /\ j.do # "cancel" => j.start \in Slots /\ j.start \in GridStarts(TypeOf(j))
         /\ LockHosts(j) \in SUBSET Nat /\ IsFiniteSet(LockHosts(j)) /\ LockHosts(j) \subseteq Hosts
         /\ Organizer(TypeOf(j)) \in LockHosts(j)
<1>1. j.do \in {"create", "move", "cancel"}
  BY DEF JobFits, Jobs
<1>2. j.do # "create" => j.of \in Calls /\ bookings[j.of] \in Bookings
  BY DEF JobFits, Jobs
<1>3. TypeOf(j) \in Types
  <2>1. CASE j.do = "create"
    BY <2>1 DEF JobFits, Jobs, TypeOf
  <2>2. CASE j.do # "create"
    BY <1>2, <2>2 DEF TypeOf, Bookings
  <2> QED BY <2>1, <2>2
<1>4. j.do # "cancel" => j.start \in Slots /\ j.start \in GridStarts(TypeOf(j))
  BY DEF JobFits, GridStarts
<1>5. CASE LockHosts(j) = Assigned(TypeOf(j))
  BY <1>1, <1>2, <1>3, <1>4, <1>5, AssignedTypes
<1>6. CASE LockHosts(j) = {Organizer(TypeOf(j))}
  <2>1. Organizer(TypeOf(j)) \in Nat /\ Organizer(TypeOf(j)) \in Hosts
    BY <1>3, AssignedTypes
  <2>2. IsFiniteSet({Organizer(TypeOf(j))})
    BY FS_Singleton
  <2> QED BY <1>1, <1>2, <1>3, <1>4, <1>6, <2>1, <2>2
<1>7. LockHosts(j) = Assigned(TypeOf(j)) \/ LockHosts(j) = {Organizer(TypeOf(j))}
  BY DEF LockHosts, TypeOf
<1> QED BY <1>5, <1>6, <1>7

LEMMA FunIsSeq ==
  ASSUME NEW T, NEW n \in Nat, NEW f \in [1 .. n -> T]
  PROVE  f \in Seq(T) /\ Len(f) = n
OBVIOUS

\* The keys of a job are its hosts at its start, each once, in the order of the hosts.
LEMMA LockKeysOrdered ==
  ASSUME NEW j, JobFits(j), j.do # "cancel", bookings \in [Calls -> Bookings \cup {None}]
  PROVE  /\ LockKeys(j) \in Seq(Hosts \X Slots)
         /\ Len(LockKeys(j)) \in Nat /\ Len(LockKeys(j)) > 0 /\ Len(LockKeys(j)) <= Cardinality(Hosts)
         /\ \A i \in 1 .. Len(LockKeys(j)) :
               LockKeys(j)[i][1] \in LockHosts(j) /\ LockKeys(j)[i][2] = j.start
         /\ \A i, k \in 1 .. Len(LockKeys(j)) : i < k => LockKeys(j)[i][1] < LockKeys(j)[k][1]
         /\ \A h \in LockHosts(j) : \E i \in 1 .. Len(LockKeys(j)) : LockKeys(j)[i] = <<h, j.start>>
<1> DEFINE S == LockHosts(j)
           n == Cardinality(S)
           hs == Sorted(TypeOf(j), S)
           ks == LockKeys(j)
<1>1. /\ S \in SUBSET Nat /\ IsFiniteSet(S) /\ S \in SUBSET Hosts /\ j.start \in Slots
      /\ Organizer(TypeOf(j)) \in S
  BY JobTypes
<1>2. /\ hs \in Seq(S) /\ Len(hs) = n /\ n \in Nat
      /\ \A i, k \in 1 .. n : i < k => hs[i] < hs[k]
      /\ \A h \in S : \E i \in 1 .. n : hs[i] = h
  <2> HIDE DEF S
  <2> QED BY ONLY <1>1, SortedHosts
<1>3. ks = [i \in 1 .. n |-> <<hs[i], j.start>>]
  <2> HIDE DEF hs
  <2>1. DOMAIN hs = 1 .. n
    BY <1>2
  <2>2. ks = [i \in DOMAIN hs |-> <<hs[i], j.start>>]
    BY DEF LockKeys, hs
  <2> QED BY ONLY <2>1, <2>2
<1>4. n <= Cardinality(Hosts)
  BY <1>1, HostsTypes, FS_Subset
<1> HIDE DEF S, n, hs, ks
<1>5. \A i \in 1 .. n : hs[i] \in S /\ ks[i] = <<hs[i], j.start>>
  BY <1>2, <1>3
<1>6. ks \in Seq(Hosts \X Slots) /\ Len(ks) = n
  <2>1. \A i \in 1 .. n : <<hs[i], j.start>> \in Hosts \X Slots
    BY <1>1, <1>5
  <2>2. ks \in [1 .. n -> Hosts \X Slots]
    BY <1>3, <2>1
  <2> QED BY ONLY <1>2, <2>2, FunIsSeq
<1>7. n > 0
  <2>1. PICK i \in 1 .. n : hs[i] = Organizer(TypeOf(j))
    BY <1>1, <1>2
  <2> QED BY <1>2, <2>1
<1>8. \A i \in 1 .. n : ks[i][1] = hs[i] /\ ks[i][2] = j.start
  BY <1>5
<1>9. \A i, k \in 1 .. n : i < k => ks[i][1] < ks[k][1]
  BY <1>2, <1>8
<1>10. \A h \in S : \E i \in 1 .. n : ks[i] = <<h, j.start>>
  BY <1>2, <1>5
<1> QED BY <1>2, <1>4, <1>5, <1>6, <1>7, <1>8, <1>9, <1>10 DEF S, ks

-----------------------------------------------------------------------------
(* A chain: who is on it, and what joining and leaving it do.               *)

On(q, c) == \E i \in 1 .. Len(q) : q[i] = c

LEMMA ChainJoined ==
  ASSUME NEW q \in Seq(Calls), NEW c \in Calls, IsInjective(q), ~On(q, c)
  PROVE  /\ Append(q, c) \in Seq(Calls) /\ IsInjective(Append(q, c)) /\ Append(q, c) # <<>>
         /\ \A d : On(Append(q, c), d) <=> On(q, d) \/ d = c
         /\ \A d : On(q, d) => Head(Append(q, c)) = Head(q)
<1> DEFINE r == Append(q, c)
           n == Len(q)
<1>1. /\ n \in Nat /\ r \in Seq(Calls) /\ Len(r) = n + 1 /\ r[n + 1] = c
      /\ \A i \in 1 .. n : r[i] = q[i]
  OBVIOUS
<1>2. DOMAIN r = 1 .. n + 1 /\ DOMAIN q = 1 .. n /\ r # <<>>
  BY <1>1
<1> HIDE DEF r
<1>3. ASSUME NEW a \in 1 .. n + 1, NEW b \in 1 .. n + 1, r[a] = r[b] PROVE a = b
  <2>1. CASE a \in 1 .. n /\ b \in 1 .. n
    BY <1>1, <1>2, <1>3, <2>1 DEF IsInjective
  <2>2. CASE a = n + 1 /\ b \in 1 .. n
    BY <1>1, <1>3, <2>2 DEF On
  <2>3. CASE b = n + 1 /\ a \in 1 .. n
    BY <1>1, <1>3, <2>3 DEF On
  <2> QED BY <1>1, <2>1, <2>2, <2>3
<1>4. IsInjective(r)
  BY <1>2, <1>3 DEF IsInjective
<1>5. ASSUME NEW d PROVE On(r, d) <=> On(q, d) \/ d = c
  <2>1. ASSUME On(r, d), d # c PROVE On(q, d)
    <3>1. PICK i \in 1 .. n + 1 : r[i] = d
      BY <1>1, <2>1 DEF On
    <3>2. i \in 1 .. n
      BY <1>1, <2>1, <3>1
    <3> QED BY <1>1, <3>1, <3>2 DEF On
  <2>2. ASSUME On(q, d) PROVE On(r, d)
    <3>1. PICK i \in 1 .. n : q[i] = d
      BY <2>2 DEF On
    <3>2. i \in 1 .. n + 1 /\ r[i] = d
      BY <1>1, <3>1
    <3> QED BY <1>1, <3>2 DEF On
  <2>3. On(r, c)
    <3>1. n + 1 \in 1 .. Len(r)
      BY <1>1
    <3> QED BY <1>1, <3>1 DEF On
  <2> QED BY <2>1, <2>2, <2>3
<1>6. ASSUME NEW d, On(q, d) PROVE Head(r) = Head(q)
  <2>1. 1 \in 1 .. n
    BY <1>1, <1>6 DEF On
  <2>2. r[1] = q[1] /\ Head(r) = r[1] /\ Head(q) = q[1]
    BY <1>1, <2>1
  <2> QED BY <2>2
<1> QED BY <1>1, <1>2, <1>4, <1>5, <1>6 DEF r

LEMMA ChainLeft ==
  ASSUME NEW q \in Seq(Calls), q # <<>>, IsInjective(q)
  PROVE  /\ Tail(q) \in Seq(Calls) /\ IsInjective(Tail(q))
         /\ \A d : On(Tail(q), d) <=> On(q, d) /\ d # Head(q)
<1> DEFINE r == Tail(q)
           n == Len(q)
<1>1. /\ n \in Nat /\ n > 0 /\ r \in Seq(Calls) /\ Len(r) = n - 1 /\ Head(q) = q[1]
      /\ \A i \in 1 .. n - 1 : r[i] = q[i + 1]
  OBVIOUS
<1>2. DOMAIN r = 1 .. n - 1 /\ DOMAIN q = 1 .. n
  BY <1>1
<1> HIDE DEF r
<1>3. \A a, b \in 1 .. n : q[a] = q[b] => a = b
  BY <1>2 DEF IsInjective
<1>4. ASSUME NEW a \in 1 .. n - 1, NEW b \in 1 .. n - 1, r[a] = r[b] PROVE a = b
  <2>1. a + 1 \in 1 .. n /\ b + 1 \in 1 .. n /\ q[a + 1] = q[b + 1]
    BY <1>1, <1>4
  <2>2. a + 1 = b + 1
    BY <1>3, <2>1
  <2> QED BY <2>2
<1>5. IsInjective(r)
  BY <1>2, <1>4 DEF IsInjective
<1>6. ASSUME NEW d, On(r, d) PROVE On(q, d) /\ d # Head(q)
  <2>1. PICK i \in 1 .. n - 1 : r[i] = d
    BY <1>1, <1>6 DEF On
  <2>2. i + 1 \in 1 .. n /\ q[i + 1] = d /\ i + 1 # 1 /\ 1 \in 1 .. n
    BY <1>1, <2>1
  <2>3. q[1] # d
    BY <1>3, <2>2
  <2> QED BY <1>1, <2>2, <2>3 DEF On
<1>7. ASSUME NEW d, On(q, d), d # Head(q) PROVE On(r, d)
  <2>1. PICK i \in 1 .. n : q[i] = d
    BY <1>7 DEF On
  <2>2. i # 1
    BY <1>1, <1>7, <2>1
  <2>3. i - 1 \in 1 .. n - 1 /\ r[i - 1] = q[i - 1 + 1] /\ i - 1 + 1 = i
    BY <1>1, <2>2
  <2> QED BY <1>1, <2>1, <2>3 DEF On
<1> QED BY <1>1, <1>5, <1>6, <1>7 DEF r

-----------------------------------------------------------------------------
(* The invariant of the locks: what every call asks fits the bookings, a    *)
(* call is on the chains of its first keys, and heads all but the last.     *)

Locked(c) == pc[c] \in {"waiting", "listing", "calling", "recording", "telling"} /\ job[c].do # "cancel"

Shapes ==
  /\ pc \in [Calls -> {"idle", "waiting", "listing", "calling", "recording", "telling", "done"}]
  /\ at \in [Calls -> 1 .. Cardinality(Hosts) + 1]
  /\ busy \in [Calls -> SUBSET Slots]
  /\ missed \in [Calls -> SUBSET Calls] /\ unseen \in [Calls -> SUBSET Calls]
  /\ shifted \subseteq Calls /\ clashed \subseteq Calls
  /\ bookings \in [Calls -> Bookings \cup {None}]
  /\ events \in [Calls -> Slots \cup {None, Gone}]
  /\ job \in [Calls -> Jobs \cup {None}]
  /\ keys \in [Calls -> Seq(Hosts \X Slots)]
  /\ queue \in [Hosts \X Slots -> Seq(Calls)]

JobsFit == \A c \in Calls : pc[c] # "idle" =>
  /\ JobFits(job[c])
  /\ pc[c] \in {"waiting", "listing"} => job[c].do # "cancel"

BookingsFit == \A b \in Calls : bookings[b] # None =>
  /\ pc[b] \in {"telling", "done"} /\ job[b].do = "create"
  /\ bookings[b].type = job[b].type /\ bookings[b].start \in GridStarts(bookings[b].type)

KeysFit == \A c \in Calls :
  /\ Locked(c) => /\ keys[c] = LockKeys(job[c]) /\ at[c] \in 1 .. Len(keys[c])
                  /\ pc[c] # "waiting" => at[c] = Len(keys[c])
  /\ ~Locked(c) => keys[c] = <<>> /\ at[c] = 1

Queued ==
  /\ \A k \in Hosts \X Slots : IsInjective(queue[k])
  /\ \A k \in Hosts \X Slots : \A c \in Calls :
        On(queue[k], c) <=> Locked(c) /\ \E i \in 1 .. at[c] : keys[c][i] = k
  /\ \A c \in Calls : Locked(c) => \A i \in 1 .. at[c] :
        i < at[c] \/ pc[c] # "waiting" => Head(queue[keys[c][i]]) = c

Fit == Shapes /\ JobsFit /\ BookingsFit /\ KeysFit /\ Queued

LEMMA KeyTypes ==
  ASSUME Fit, NEW c \in Calls, Locked(c)
  PROVE  /\ JobFits(job[c]) /\ keys[c] = LockKeys(job[c])
         /\ at[c] \in Nat /\ at[c] > 0 /\ at[c] <= Len(keys[c])
         /\ Len(keys[c]) \in Nat /\ Len(keys[c]) <= Cardinality(Hosts)
         /\ \A i \in 1 .. Len(keys[c]) :
               /\ keys[c][i] \in Hosts \X Slots
               /\ keys[c][i][1] \in LockHosts(job[c]) /\ keys[c][i][2] = job[c].start
         /\ \A i, k \in 1 .. Len(keys[c]) : i < k => keys[c][i][1] < keys[c][k][1]
         /\ \A h \in LockHosts(job[c]) : \E i \in 1 .. Len(keys[c]) : keys[c][i] = <<h, job[c].start>>
<1>1. JobFits(job[c]) /\ job[c].do # "cancel" /\ bookings \in [Calls -> Bookings \cup {None}]
  BY DEF Fit, Shapes, JobsFit, Locked
<1>2. keys[c] = LockKeys(job[c]) /\ at[c] \in 1 .. Len(keys[c])
  BY DEF Fit, KeysFit
<1>3. keys[c] \in Seq(Hosts \X Slots)
  BY DEF Fit, Shapes
<1>4. \A i \in 1 .. Len(keys[c]) : keys[c][i] \in Hosts \X Slots
  BY <1>3
<1>5. at[c] \in Nat /\ at[c] > 0 /\ at[c] <= Len(keys[c]) /\ Len(keys[c]) \in Nat
  BY <1>2, <1>3
<1>6. /\ Len(LockKeys(job[c])) <= Cardinality(Hosts)
      /\ \A i \in 1 .. Len(LockKeys(job[c])) :
            LockKeys(job[c])[i][1] \in LockHosts(job[c]) /\ LockKeys(job[c])[i][2] = job[c].start
      /\ \A i, k \in 1 .. Len(LockKeys(job[c])) :
            i < k => LockKeys(job[c])[i][1] < LockKeys(job[c])[k][1]
      /\ \A h \in LockHosts(job[c]) :
            \E i \in 1 .. Len(LockKeys(job[c])) : LockKeys(job[c])[i] = <<h, job[c].start>>
  BY <1>1, LockKeysOrdered
<1> QED BY <1>1, <1>2, <1>4, <1>5, <1>6

\* A job keeps its meaning while no booking changes its type.
TypesKept == \A b \in Calls : bookings[b] # None => bookings'[b] # None /\ bookings'[b].type = bookings[b].type

LEMMA JobKept ==
  ASSUME NEW j, JobFits(j), TypesKept
  PROVE  /\ JobFits(j)' /\ TypeOf(j)' = TypeOf(j) /\ LockHosts(j)' = LockHosts(j)
         /\ LockKeys(j)' = LockKeys(j)
<1>1. j \in Jobs /\ (j.do # "create" => j.of \in Calls /\ bookings[j.of] # None)
  BY DEF JobFits, Jobs
<1>2. TypeOf(j)' = TypeOf(j)
  BY <1>1 DEF TypeOf, TypesKept
<1>3. LockHosts(j)' = LockHosts(j)
  BY <1>2 DEF LockHosts
<1>4. LockKeys(j)' = LockKeys(j)
  BY <1>2, <1>3 DEF LockKeys
<1>5. JobFits(j)'
  BY <1>1, <1>2 DEF JobFits, TypesKept
<1> QED BY <1>2, <1>3, <1>4, <1>5

\* What a call reads as busy are slots of the day.
LEMMA BusyTypes ==
  ASSUME Fit, NEW c \in Calls
  PROVE  ExtraBusy(c) \in SUBSET Slots
<1>1. ASSUME NEW b \in Calls, Confirmed(b) PROVE SlotsOf(b) \subseteq Slots
  BY <1>1 DEF Fit, BookingsFit, Confirmed, GridStarts, SlotsOf
<1>2. ASSUME NEW h, NEW skip PROVE HostBusy(h, skip) \subseteq Slots
  BY <1>1 DEF HostBusy
<1> QED BY <1>2 DEF ExtraBusy

(* The steps, by what they do to the locks and to the bookings.             *)
Begins(c) == Arrived(c) /\ \E j \in Jobs : JobFits(j) /\ j.do # "cancel" /\ Locks(c, j)
Leaves(c) ==
  /\ (Granted(c) /\ at[c] = Len(keys[c])) \/ pc[c] \in {"listing", "calling", "telling"}
  /\ Ends(c)
  /\ UNCHANGED <<job, bookings, events, unseen, shifted, clashed>>
Accepted(c) ==
  /\ pc[c] = "listing" /\ Offered(c)
  /\ pc' = [pc EXCEPT ![c] = "calling"]
  /\ UNCHANGED <<job, keys, at, queue, busy, bookings, events, missed, unseen, shifted, clashed>>
Steps(c) ==
  \/ Begins(c) \/ BeginCancel(c) \/ NextLock(c) \/ Enter(c) \/ Leaves(c) \/ Accepted(c)
  \/ CalendarDoes(c) \/ Record(c)

LEMMA EveryStep ==
  ASSUME Fit, Next
  PROVE  \E c \in Calls : Steps(c)
<1>1. PICK c \in Calls :
        \/ BeginCreate(c) \/ BeginMove(c) \/ BeginCancel(c)
        \/ NextLock(c) \/ Enter(c) \/ TurnedAway(c) \/ Listed(c)
        \/ CalendarDoes(c) \/ CalendarThrows(c) \/ Record(c) \/ Told(c)
  BY DEF Next
<1>2. CASE BeginCreate(c)
  <2>1. PICK e \in Types : \E t \in GridStarts(e) : Locks(c, [do |-> "create", type |-> e, start |-> t])
    BY <1>2 DEF BeginCreate
  <2>2. PICK t \in GridStarts(e) : Locks(c, [do |-> "create", type |-> e, start |-> t])
    BY <2>1
  <2> DEFINE j == [do |-> "create", type |-> e, start |-> t]
  <2>3. j \in Jobs /\ JobFits(j) /\ j.do # "cancel"
    <3>1. t \in Slots
      BY DEF GridStarts
    <3>2. j \in Jobs
      BY <3>1 DEF Jobs
    <3> QED BY <3>2 DEF JobFits, TypeOf
  <2>4. Begins(c)
    BY <1>2, <2>2, <2>3 DEF Begins, BeginCreate
  <2> QED BY <2>4 DEF Steps
<1>3. CASE BeginMove(c)
  <2>1. PICK b \in Calls : Confirmed(b) /\ \E t \in GridStarts(bookings[b].type) :
              Locks(c, [do |-> "move", of |-> b, start |-> t])
    BY <1>3 DEF BeginMove
  <2>2. PICK t \in GridStarts(bookings[b].type) : Locks(c, [do |-> "move", of |-> b, start |-> t])
    BY <2>1
  <2> DEFINE j == [do |-> "move", of |-> b, start |-> t]
  <2>3. j \in Jobs /\ JobFits(j) /\ j.do # "cancel"
    <3>1. t \in Slots
      BY DEF GridStarts
    <3>2. j \in Jobs
      BY <3>1 DEF Jobs
    <3> QED BY <2>1, <3>2 DEF JobFits, TypeOf, Confirmed
  <2>4. Begins(c)
    BY <1>3, <2>2, <2>3 DEF Begins, BeginMove
  <2> QED BY <2>4 DEF Steps
<1>4. CASE TurnedAway(c)
  BY <1>4 DEF TurnedAway, Leaves, Steps
<1>5. CASE Listed(c)
  BY <1>5 DEF Listed, Leaves, Accepted, Steps
<1>6. CASE CalendarThrows(c)
  BY <1>6 DEF CalendarThrows, AfterThrow, Leaves, Steps
<1>7. CASE Told(c)
  BY <1>7 DEF Told, Leaves, Steps
<1>8. CASE BeginCancel(c) \/ NextLock(c) \/ Enter(c) \/ CalendarDoes(c) \/ Record(c)
  BY <1>8 DEF Steps
<1> QED BY <1>1, <1>2, <1>3, <1>4, <1>5, <1>6, <1>7, <1>8

-----------------------------------------------------------------------------
(* The lock invariant is kept by every step.                                *)

\* A step that leaves the chains and the set of calls on them as they are.
LEMMA LocksKept ==
  ASSUME Fit, NEW c \in Calls, TypesKept, UNCHANGED <<job, keys, at, queue>>,
         pc[c] = "waiting" => Granted(c) /\ at[c] = Len(keys[c]),
         pc[c] \in {"waiting", "listing", "calling", "recording", "telling"},
         \A x \in Calls \ {c} : pc'[x] = pc[x],
         pc'[c] \in {"listing", "calling", "recording", "telling"}
  PROVE  KeysFit' /\ Queued' /\ (\A x \in Calls : Locked(x)' <=> Locked(x))
<1>1. ASSUME NEW x \in Calls PROVE Locked(x)' <=> Locked(x)
  BY DEF Locked
<1>2. ASSUME NEW x \in Calls
      PROVE  /\ Locked(x)' => /\ keys'[x] = LockKeys(job[x])' /\ at'[x] \in 1 .. Len(keys'[x])
                              /\ pc'[x] # "waiting" => at'[x] = Len(keys'[x])
             /\ ~Locked(x)' => keys'[x] = <<>> /\ at'[x] = 1
  <2>1. CASE Locked(x)
    <3>1. PICK j : j = job[x]
      OBVIOUS
    <3>2. JobFits(j) /\ keys[x] = LockKeys(j) /\ at[x] \in 1 .. Len(keys[x])
      BY <2>1, <3>1 DEF Fit, KeysFit, JobsFit, Locked
    <3>3. LockKeys(j)' = LockKeys(j) /\ job'[x] = j
      BY <3>1, <3>2, JobKept
    <3>4. pc'[x] # "waiting" => at[x] = Len(keys[x])
      BY <2>1 DEF Fit, KeysFit
    <3> QED BY <1>1, <2>1, <3>2, <3>3, <3>4
  <2>2. CASE ~Locked(x)
    BY <1>1, <2>2 DEF Fit, KeysFit
  <2> QED BY <2>1, <2>2
<1>3. KeysFit'
  BY <1>2 DEF KeysFit
<1>4. Queued'
  <2>1. \A k \in Hosts \X Slots : IsInjective(queue'[k])
    BY DEF Fit, Queued
  <2>2. ASSUME NEW k \in Hosts \X Slots, NEW x \in Calls
        PROVE  On(queue'[k], x) <=> Locked(x)' /\ \E i \in 1 .. at'[x] : keys'[x][i] = k
    BY <1>1 DEF Fit, Queued
  <2>3. ASSUME NEW x \in Calls, Locked(x)', NEW i \in 1 .. at'[x], i < at'[x] \/ pc'[x] # "waiting"
        PROVE  Head(queue'[keys'[x][i]]) = x
    <3>1. Locked(x) /\ i \in 1 .. at[x]
      BY <1>1, <2>3
    <3>2. CASE i < at[x] \/ pc[x] # "waiting"
      BY <3>1, <3>2 DEF Fit, Queued
    <3>3. CASE x = c /\ pc[c] = "waiting" /\ ~(i < at[c])
      <4>1. i = at[c]
        BY <3>1, <3>3, KeyTypes
      <4> QED BY <3>3, <4>1 DEF Granted
    <3> QED BY <2>3, <3>2, <3>3
  <2> QED BY <2>1, <2>2, <2>3 DEF Queued
<1> QED BY <1>1, <1>3, <1>4

LEMMA BeginsFit ==
  ASSUME Fit, NEW c \in Calls, Begins(c)
  PROVE  Fit'
<1>1. PICK j \in Jobs : JobFits(j) /\ j.do # "cancel" /\ Locks(c, j)
  BY DEF Begins
<1> DEFINE ks == LockKeys(j)
           k1 == ks[1]
<1>2. /\ pc[c] = "idle" /\ bookings \in [Calls -> Bookings \cup {None}] /\ ~Locked(c) /\ at[c] = 1
      /\ bookings[c] = None
  BY DEF Begins, Arrived, Fit, Shapes, KeysFit, BookingsFit, Locked
<1>3. /\ ks \in Seq(Hosts \X Slots) /\ Len(ks) \in Nat /\ Len(ks) > 0 /\ k1 \in Hosts \X Slots
  <2>1. ks \in Seq(Hosts \X Slots) /\ Len(ks) \in Nat /\ Len(ks) > 0
    BY <1>1, <1>2, LockKeysOrdered
  <2> HIDE DEF ks
  <2> QED BY <2>1
<1>4. /\ job' = [job EXCEPT ![c] = j] /\ pc' = [pc EXCEPT ![c] = "waiting"]
      /\ keys' = [keys EXCEPT ![c] = ks] /\ keys'[c] = ks
      /\ queue' = [queue EXCEPT ![k1] = Append(@, c)]
      /\ UNCHANGED <<at, busy, bookings, events, missed, unseen, shifted, clashed>>
  <2>1. keys' = [keys EXCEPT ![c] = ks] /\ keys \in [Calls -> Seq(Hosts \X Slots)]
    BY <1>1 DEF Locks, Fit, Shapes
  <2>2. keys'[c] = ks
    BY <2>1
  <2> QED BY <1>1, <2>1, <2>2 DEF Locks, Chained
<1>5. TypesKept
  BY <1>4 DEF TypesKept
<1>6. LockKeys(j)' = ks /\ JobFits(j)'
  BY <1>1, <1>5, JobKept
<1> HIDE DEF ks, k1
<1>7. ~On(queue[k1], c) /\ queue[k1] \in Seq(Calls) /\ IsInjective(queue[k1])
  BY <1>2, <1>3 DEF Fit, Queued, Shapes
<1>8. /\ Append(queue[k1], c) \in Seq(Calls) /\ IsInjective(Append(queue[k1], c))
      /\ \A d : On(Append(queue[k1], c), d) <=> On(queue[k1], d) \/ d = c
      /\ \A d : On(queue[k1], d) => Head(Append(queue[k1], c)) = Head(queue[k1])
  BY <1>7, ChainJoined
<1>9. /\ \A k \in Hosts \X Slots : queue'[k] = IF k = k1 THEN Append(queue[k], c) ELSE queue[k]
      /\ queue' \in [Hosts \X Slots -> Seq(Calls)]
  BY <1>3, <1>4, <1>8 DEF Fit, Shapes
<1>10. Shapes'
  BY <1>3, <1>4, <1>9 DEF Fit, Shapes
<1>11. \A x \in Calls \ {c} : /\ pc'[x] = pc[x] /\ job'[x] = job[x] /\ keys'[x] = keys[x]
                              /\ (Locked(x)' <=> Locked(x))
  BY <1>4 DEF Fit, Shapes, Locked
<1>12. pc'[c] = "waiting" /\ job'[c] = j /\ Locked(c)'
  BY <1>1, <1>4 DEF Fit, Shapes, Locked
<1>13. JobsFit'
  <2> SUFFICES ASSUME NEW x \in Calls, pc'[x] # "idle"
               PROVE  JobFits(job[x])' /\ (pc'[x] \in {"waiting", "listing"} => job'[x].do # "cancel")
    BY DEF JobsFit
  <2>1. CASE x = c
    BY <1>1, <1>6, <1>12, <2>1 DEF JobFits, TypeOf
  <2>2. CASE x # c
    BY <1>4, <1>11, <2>2 DEF Fit, JobsFit, JobFits, TypeOf
  <2> QED BY <2>1, <2>2
<1>14. BookingsFit'
  BY <1>2, <1>4, <1>11 DEF Fit, BookingsFit
<1>15. KeysFit'
  <2> SUFFICES ASSUME NEW x \in Calls
      PROVE  /\ Locked(x)' => /\ keys'[x] = LockKeys(job[x])' /\ at'[x] \in 1 .. Len(keys'[x])
                              /\ pc'[x] # "waiting" => at'[x] = Len(keys'[x])
             /\ ~Locked(x)' => keys'[x] = <<>> /\ at'[x] = 1
    BY DEF KeysFit
  <2>1. CASE x = c
    BY <1>2, <1>3, <1>4, <1>6, <1>12, <2>1
  <2>2. CASE x # c
    <3>1. PICK i : i = job[x]
      OBVIOUS
    <3>2. Locked(x) => JobFits(i)
      BY <3>1 DEF Fit, JobsFit, Locked
    <3>3. Locked(x) => LockKeys(i)' = LockKeys(i)
      BY <1>5, <3>2, JobKept
    <3> QED BY <1>4, <1>11, <2>2, <3>1, <3>3 DEF Fit, KeysFit
  <2> QED BY <2>1, <2>2
<1>16. Queued'
  <2>1. ASSUME NEW k \in Hosts \X Slots PROVE IsInjective(queue'[k])
    <3>1. CASE k = k1
      <4>1. queue'[k] = Append(queue[k1], c)
        BY ONLY <1>9, <3>1
      <4> QED BY ONLY <1>8, <4>1
    <3>2. CASE k # k1
      <4>1. queue'[k] = queue[k]
        BY ONLY <1>9, <3>2
      <4> QED BY <4>1 DEF Fit, Queued
    <3> QED BY <3>1, <3>2
  <2>2. ASSUME NEW k \in Hosts \X Slots, NEW x \in Calls
        PROVE  On(queue'[k], x) <=> Locked(x)' /\ \E i \in 1 .. at'[x] : keys'[x][i] = k
    <3>1. On(queue'[k], x) <=> On(queue[k], x) \/ (k = k1 /\ x = c)
      BY <1>8, <1>9
    <3>2. CASE x # c
      BY <1>4, <1>11, <3>1, <3>2 DEF Fit, Queued
    <3>3. CASE x = c
      <4>1. ~On(queue[k], c)
        BY <1>2 DEF Fit, Queued
      <4>2. (\E i \in 1 .. at'[c] : keys'[c][i] = k) <=> k = k1
        BY <1>2, <1>4 DEF k1
      <4> QED BY <1>12, <3>1, <3>3, <4>1, <4>2
    <3> QED BY <3>2, <3>3
  <2>3. ASSUME NEW x \in Calls, Locked(x)', NEW i \in 1 .. at'[x], i < at'[x] \/ pc'[x] # "waiting"
        PROVE  Head(queue'[keys'[x][i]]) = x
    <3>1. x # c
      BY <1>2, <1>4, <1>12, <2>3
    <3>2. Locked(x) /\ i \in 1 .. at[x] /\ keys'[x] = keys[x] /\ Head(queue[keys[x][i]]) = x
      BY <1>4, <1>11, <2>3, <3>1 DEF Fit, Queued
    <3>3. keys[x][i] \in Hosts \X Slots
      BY <3>2, KeyTypes
    <3>4. On(queue[keys[x][i]], x)
      BY <3>2, <3>3 DEF Fit, Queued
    <3> QED BY <1>8, <1>9, <3>2, <3>3, <3>4
  <2> QED BY <2>1, <2>2, <2>3 DEF Queued
<1> QED BY <1>10, <1>13, <1>14, <1>15, <1>16 DEF Fit

LEMMA CancelBeginsFit ==
  ASSUME Fit, NEW c \in Calls, BeginCancel(c)
  PROVE  Fit'
<1>1. PICK b \in Calls : /\ Confirmed(b)
                         /\ job' = [job EXCEPT ![c] = [do |-> "cancel", of |-> b]]
                         /\ NowAt(c, b)
  BY DEF BeginCancel
<1> DEFINE j == [do |-> "cancel", of |-> b]
<1>2. /\ pc[c] = "idle" /\ ~Locked(c) /\ bookings[c] = None
      /\ pc' = [pc EXCEPT ![c] = "calling"]
      /\ UNCHANGED <<keys, at, queue, busy, bookings, events, missed, unseen, shifted>>
  BY DEF BeginCancel, Arrived, Fit, BookingsFit, Locked
<1>3. j \in Jobs /\ JobFits(j)
  BY <1>1 DEF Jobs, JobFits, Confirmed
<1> HIDE DEF j
<1>4. job' = [job EXCEPT ![c] = j] /\ j.do = "cancel"
  BY <1>1 DEF j
<1>5. Shapes'
  BY <1>1, <1>2, <1>3, <1>4 DEF Fit, Shapes, NowAt
<1>6. \A x \in Calls \ {c} : pc'[x] = pc[x] /\ job'[x] = job[x] /\ (Locked(x)' <=> Locked(x))
  BY <1>2, <1>4 DEF Fit, Shapes, Locked
<1>7. pc'[c] = "calling" /\ job'[c] = j /\ ~Locked(c)'
  BY <1>2, <1>4 DEF Fit, Shapes, Locked
<1>8. JobsFit'
  BY <1>2, <1>3, <1>6, <1>7 DEF Fit, JobsFit, JobFits, TypeOf
<1>9. BookingsFit'
  BY <1>2, <1>6 DEF Fit, BookingsFit
<1>10. KeysFit'
  <2> SUFFICES ASSUME NEW x \in Calls
      PROVE  /\ Locked(x)' => /\ keys'[x] = LockKeys(job[x])' /\ at'[x] \in 1 .. Len(keys'[x])
                              /\ pc'[x] # "waiting" => at'[x] = Len(keys'[x])
             /\ ~Locked(x)' => keys'[x] = <<>> /\ at'[x] = 1
    BY DEF KeysFit
  <2>1. CASE x = c
    BY <1>2, <1>7, <2>1 DEF Fit, KeysFit
  <2>2. CASE x # c
    <3>1. TypesKept
      BY <1>2 DEF TypesKept
    <3>2. PICK i : i = job[x]
      OBVIOUS
    <3>3. Locked(x) => JobFits(i)
      BY <3>2 DEF Fit, JobsFit, Locked
    <3>4. Locked(x) => LockKeys(i)' = LockKeys(i)
      BY <3>1, <3>3, JobKept
    <3> QED BY <1>2, <1>6, <2>2, <3>2, <3>4 DEF Fit, KeysFit
  <2> QED BY <2>1, <2>2
<1>11. Queued'
  <2>1. \A k \in Hosts \X Slots : IsInjective(queue'[k])
    BY <1>2 DEF Fit, Queued
  <2>2. ASSUME NEW k \in Hosts \X Slots, NEW x \in Calls
        PROVE  On(queue'[k], x) <=> Locked(x)' /\ \E i \in 1 .. at'[x] : keys'[x][i] = k
    BY <1>2, <1>6, <1>7 DEF Fit, Queued
  <2>3. ASSUME NEW x \in Calls, Locked(x)', NEW i \in 1 .. at'[x], i < at'[x] \/ pc'[x] # "waiting"
        PROVE  Head(queue'[keys'[x][i]]) = x
    BY <1>2, <1>6, <1>7, <2>3 DEF Fit, Queued
  <2> QED BY <2>1, <2>2, <2>3 DEF Queued
<1> QED BY <1>5, <1>8, <1>9, <1>10, <1>11 DEF Fit

LEMMA NextLockFit ==
  ASSUME Fit, NEW c \in Calls, NextLock(c)
  PROVE  Fit'
<1> DEFINE n == at[c] + 1
           k1 == keys[c][n]
<1>1. /\ pc[c] = "waiting" /\ Head(queue[keys[c][at[c]]]) = c /\ at[c] < Len(keys[c])
      /\ at' = [at EXCEPT ![c] = @ + 1]
      /\ queue' = [queue EXCEPT ![k1] = Append(@, c)]
      /\ UNCHANGED <<job, pc, keys, busy, bookings, events, missed, unseen, shifted, clashed>>
  BY DEF NextLock, Granted, Chained
<1>2. Locked(c)
  <2>1. job[c].do # "cancel"
    BY <1>1 DEF Fit, JobsFit
  <2> QED BY <1>1, <2>1 DEF Locked
<1>3. /\ at[c] \in Nat /\ at[c] > 0 /\ n \in 1 .. Len(keys[c]) /\ Len(keys[c]) \in Nat
      /\ Len(keys[c]) <= Cardinality(Hosts) /\ k1 \in Hosts \X Slots
      /\ \A i \in 1 .. at[c] : keys[c][i] # k1
  <2>1. /\ at[c] \in Nat /\ at[c] > 0 /\ n \in 1 .. Len(keys[c]) /\ Len(keys[c]) \in Nat
        /\ Len(keys[c]) <= Cardinality(Hosts)
    BY <1>1, <1>2, KeyTypes
  <2>2. k1 \in Hosts \X Slots /\ k1[1] \in Nat
    BY <1>2, <2>1, KeyTypes, HostsTypes
  <2>3. ASSUME NEW i \in 1 .. at[c] PROVE keys[c][i][1] < k1[1] /\ keys[c][i][1] \in Nat
    <3>1. i \in 1 .. Len(keys[c]) /\ i < n
      BY <2>1
    <3> QED BY <1>2, <2>1, <3>1, KeyTypes, HostsTypes
  <2>4. \A i \in 1 .. at[c] : keys[c][i] # k1
    BY <2>2, <2>3
  <2> QED BY <2>1, <2>2, <2>4
<1>4. ~On(queue[k1], c) /\ queue[k1] \in Seq(Calls) /\ IsInjective(queue[k1])
  <2> HIDE DEF n, k1
  <2>1. queue[k1] \in Seq(Calls) /\ IsInjective(queue[k1])
    BY <1>3 DEF Fit, Queued, Shapes
  <2>2. On(queue[k1], c) => \E i \in 1 .. at[c] : keys[c][i] = k1
    BY <1>3 DEF Fit, Queued
  <2> QED BY <1>3, <2>1, <2>2
<1>5. /\ Append(queue[k1], c) \in Seq(Calls) /\ IsInjective(Append(queue[k1], c))
      /\ \A d : On(Append(queue[k1], c), d) <=> On(queue[k1], d) \/ d = c
      /\ \A d : On(queue[k1], d) => Head(Append(queue[k1], c)) = Head(queue[k1])
  BY <1>4, ChainJoined
<1>6. at'[c] = n /\ \A x \in Calls \ {c} : at'[x] = at[x]
  BY <1>1 DEF Fit, Shapes
<1> HIDE DEF n, k1
<1>7. /\ \A k \in Hosts \X Slots : queue'[k] = IF k = k1 THEN Append(queue[k], c) ELSE queue[k]
      /\ queue' \in [Hosts \X Slots -> Seq(Calls)]
  BY <1>1, <1>3, <1>5 DEF Fit, Shapes
<1>8. Shapes'
  <2>1. n \in 1 .. Cardinality(Hosts) + 1
    BY <1>3, HostsTypes
  <2>2. at' \in [Calls -> 1 .. Cardinality(Hosts) + 1]
    BY <1>1, <2>1 DEF Fit, Shapes, n
  <2> QED BY <1>1, <1>7, <2>2 DEF Fit, Shapes
<1>9. \A x \in Calls : Locked(x)' <=> Locked(x)
  BY <1>1 DEF Locked
<1>10. JobsFit' /\ BookingsFit'
  BY <1>1 DEF Fit, JobsFit, BookingsFit, JobFits, TypeOf
<1>11. KeysFit'
  <2> SUFFICES ASSUME NEW x \in Calls
      PROVE  /\ Locked(x)' => /\ keys'[x] = LockKeys(job[x])' /\ at'[x] \in 1 .. Len(keys'[x])
                              /\ pc'[x] # "waiting" => at'[x] = Len(keys'[x])
             /\ ~Locked(x)' => keys'[x] = <<>> /\ at'[x] = 1
    BY DEF KeysFit
  <2>1. PICK i : i = job[x]
    OBVIOUS
  <2>2. TypesKept /\ job'[x] = i
    BY <1>1, <2>1 DEF TypesKept
  <2>3. Locked(x) => LockKeys(i)' = LockKeys(i)
    BY <2>1, <2>2, JobKept DEF Fit, JobsFit, Locked
  <2>4. CASE x = c
    BY <1>1, <1>2, <1>3, <1>6, <1>9, <2>1, <2>2, <2>3, <2>4 DEF Fit, KeysFit
  <2>5. CASE x # c
    BY <1>1, <1>6, <1>9, <2>1, <2>2, <2>3, <2>5 DEF Fit, KeysFit
  <2> QED BY <2>4, <2>5
<1>12. Queued'
  <2>1. ASSUME NEW k \in Hosts \X Slots PROVE IsInjective(queue'[k])
    <3>1. CASE k = k1
      <4>1. queue'[k] = Append(queue[k1], c)
        BY ONLY <1>7, <3>1
      <4> QED BY ONLY <1>5, <4>1
    <3>2. CASE k # k1
      <4>1. queue'[k] = queue[k]
        BY ONLY <1>7, <3>2
      <4> QED BY <4>1 DEF Fit, Queued
    <3> QED BY <3>1, <3>2
  <2>2. ASSUME NEW k \in Hosts \X Slots, NEW x \in Calls
        PROVE  On(queue'[k], x) <=> Locked(x)' /\ \E i \in 1 .. at'[x] : keys'[x][i] = k
    <3>1. On(queue'[k], x) <=> On(queue[k], x) \/ (k = k1 /\ x = c)
      BY <1>5, <1>7
    <3>2. CASE x # c
      BY <1>1, <1>6, <1>9, <3>1, <3>2 DEF Fit, Queued
    <3>3. CASE x = c
      <4>1. On(queue[k], c) <=> \E i \in 1 .. at[c] : keys[c][i] = k
        BY <1>2 DEF Fit, Queued
      <4>2. (\E i \in 1 .. n : keys[c][i] = k) <=> (\E i \in 1 .. at[c] : keys[c][i] = k) \/ k = k1
        <5>1. \A i : i \in 1 .. n <=> i \in 1 .. at[c] \/ i = n
          BY <1>3 DEF n
        <5>2. keys[c][n] = k1
          BY DEF k1
        <5> QED BY <5>1, <5>2
      <4>3. keys' = keys /\ Locked(c)'
        BY <1>1, <1>2, <1>9
      <4> QED BY <1>6, <3>1, <3>3, <4>1, <4>2, <4>3
    <3> QED BY <3>2, <3>3
  <2>3. ASSUME NEW x \in Calls, Locked(x)', NEW i \in 1 .. at'[x], i < at'[x] \/ pc'[x] # "waiting"
        PROVE  Head(queue'[keys'[x][i]]) = x
    <3>1. Locked(x) /\ keys'[x] = keys[x] /\ i \in 1 .. at[x] /\ Head(queue[keys[x][i]]) = x
      <4>1. CASE x = c
        <5>1. i \in 1 .. at[c]
          BY <1>1, <1>3, <1>6, <2>3, <4>1 DEF n
        <5>2. CASE i < at[c]
          BY <1>1, <1>2, <4>1, <5>1, <5>2 DEF Fit, Queued
        <5>3. CASE i = at[c]
          BY <1>1, <1>2, <4>1, <5>1, <5>3
        <5> QED BY <1>3, <5>1, <5>2, <5>3
      <4>2. CASE x # c
        BY <1>1, <1>6, <1>9, <2>3, <4>2 DEF Fit, Queued
      <4> QED BY <4>1, <4>2
    <3>2. keys[x][i] \in Hosts \X Slots
      BY <3>1, KeyTypes
    <3>3. On(queue[keys[x][i]], x)
      BY <3>1, <3>2 DEF Fit, Queued
    <3> QED BY <1>5, <1>7, <3>1, <3>2, <3>3
  <2> QED BY <2>1, <2>2, <2>3 DEF Queued
<1> QED BY <1>8, <1>10, <1>11, <1>12 DEF Fit

LEMMA LeavesFit ==
  ASSUME Fit, NEW c \in Calls, Leaves(c)
  PROVE  Fit'
<1>1. /\ (Granted(c) /\ at[c] = Len(keys[c])) \/ pc[c] \in {"listing", "calling", "telling"}
      /\ pc' = [pc EXCEPT ![c] = "done"] /\ keys' = [keys EXCEPT ![c] = <<>>]
      /\ at' = [at EXCEPT ![c] = 1] /\ busy' = [busy EXCEPT ![c] = {}]
      /\ missed' = [missed EXCEPT ![c] = {}]
      /\ queue' = [k \in DOMAIN queue |->
                     IF queue[k] # <<>> /\ Head(queue[k]) = c THEN Tail(queue[k]) ELSE queue[k]]
      /\ UNCHANGED <<job, bookings, events, unseen, shifted, clashed>>
  BY DEF Leaves, Ends, Release
<1>2. pc[c] \in {"waiting", "listing", "calling", "telling"}
  BY <1>1 DEF Granted
<1>3. ASSUME NEW k \in Hosts \X Slots, On(queue[k], c) PROVE queue[k] # <<>> /\ Head(queue[k]) = c
  <2>1. Locked(c)
    BY <1>3 DEF Fit, Queued
  <2>2. PICK i \in 1 .. at[c] : keys[c][i] = k
    BY <1>3 DEF Fit, Queued
  <2>3. CASE i < at[c] \/ pc[c] # "waiting"
    BY <1>3, <2>1, <2>2, <2>3 DEF Fit, Queued, On
  <2>4. CASE i = at[c] /\ pc[c] = "waiting"
    BY <1>1, <1>3, <2>2, <2>4 DEF Granted, On
  <2> QED BY <2>1, <2>2, <2>3, <2>4, KeyTypes
<1>4. ASSUME NEW k \in Hosts \X Slots
      PROVE  /\ queue'[k] \in Seq(Calls) /\ IsInjective(queue'[k])
             /\ \A d : On(queue'[k], d) <=> On(queue[k], d) /\ d # c
             /\ Head(queue[k]) # c => queue'[k] = queue[k]
  <2>1. queue[k] \in Seq(Calls) /\ IsInjective(queue[k])
    BY DEF Fit, Shapes, Queued
  <2>2. queue'[k] = IF queue[k] # <<>> /\ Head(queue[k]) = c THEN Tail(queue[k]) ELSE queue[k]
    BY <1>1 DEF Fit, Shapes
  <2>3. CASE queue[k] # <<>> /\ Head(queue[k]) = c
    BY <2>1, <2>2, <2>3, ChainLeft
  <2>4. CASE ~(queue[k] # <<>> /\ Head(queue[k]) = c)
    BY <1>3, <2>1, <2>2, <2>4
  <2> QED BY <2>3, <2>4
<1>5. Shapes'
  <2>1. queue' \in [Hosts \X Slots -> Seq(Calls)]
    <3>1. queue' = [k \in Hosts \X Slots |-> queue'[k]]
      BY <1>1 DEF Fit, Shapes
    <3> QED BY <1>4, <3>1
  <2>2. 1 \in 1 .. Cardinality(Hosts) + 1 /\ <<>> \in Seq(Hosts \X Slots)
    BY HostsTypes
  <2> QED BY <1>1, <2>1, <2>2 DEF Fit, Shapes
<1>6. \A x \in Calls \ {c} : /\ pc'[x] = pc[x] /\ keys'[x] = keys[x] /\ at'[x] = at[x]
                             /\ (Locked(x)' <=> Locked(x))
  BY <1>1 DEF Fit, Shapes, Locked
<1>7. pc'[c] = "done" /\ keys'[c] = <<>> /\ at'[c] = 1 /\ ~Locked(c)'
  BY <1>1 DEF Fit, Shapes, Locked
<1>8. JobsFit' /\ BookingsFit'
  <2>1. pc[c] # "idle" /\ (pc[c] = "telling" \/ bookings[c] = None)
    BY <1>2 DEF Fit, BookingsFit
  <2>2. bookings' = bookings /\ job' = job
    BY <1>1
  <2>3. JobsFit'
    BY <1>6, <1>7, <2>1, <2>2 DEF Fit, JobsFit, JobFits, TypeOf
  <2>4. BookingsFit'
    BY <1>6, <1>7, <2>1, <2>2 DEF Fit, BookingsFit
  <2> QED BY <2>3, <2>4
<1>9. KeysFit'
  <2> SUFFICES ASSUME NEW x \in Calls
      PROVE  /\ Locked(x)' => /\ keys'[x] = LockKeys(job[x])' /\ at'[x] \in 1 .. Len(keys'[x])
                              /\ pc'[x] # "waiting" => at'[x] = Len(keys'[x])
             /\ ~Locked(x)' => keys'[x] = <<>> /\ at'[x] = 1
    BY DEF KeysFit
  <2>1. PICK i : i = job[x]
    OBVIOUS
  <2>2. TypesKept /\ job'[x] = i
    BY <1>1, <2>1 DEF TypesKept
  <2>3. Locked(x) => LockKeys(i)' = LockKeys(i)
    BY <2>1, <2>2, JobKept DEF Fit, JobsFit, Locked
  <2>4. CASE x = c
    BY <1>7, <2>4
  <2>5. CASE x # c
    BY <1>6, <2>1, <2>2, <2>3, <2>5 DEF Fit, KeysFit
  <2> QED BY <2>4, <2>5
<1>10. Queued'
  <2>1. \A k \in Hosts \X Slots : IsInjective(queue'[k])
    BY <1>4
  <2>2. ASSUME NEW k \in Hosts \X Slots, NEW x \in Calls
        PROVE  On(queue'[k], x) <=> Locked(x)' /\ \E i \in 1 .. at'[x] : keys'[x][i] = k
    <3>1. On(queue'[k], x) <=> On(queue[k], x) /\ x # c
      BY <1>4
    <3>2. CASE x # c
      BY <1>6, <3>1, <3>2 DEF Fit, Queued
    <3>3. CASE x = c
      BY <1>7, <3>1, <3>3
    <3> QED BY <3>2, <3>3
  <2>3. ASSUME NEW x \in Calls, Locked(x)', NEW i \in 1 .. at'[x], i < at'[x] \/ pc'[x] # "waiting"
        PROVE  Head(queue'[keys'[x][i]]) = x
    <3>1. x # c
      BY <1>7, <2>3
    <3>2. Locked(x) /\ i \in 1 .. at[x] /\ keys'[x] = keys[x] /\ Head(queue[keys[x][i]]) = x
      BY <1>6, <2>3, <3>1 DEF Fit, Queued
    <3>3. keys[x][i] \in Hosts \X Slots
      BY <3>2, KeyTypes
    <3> QED BY <1>4, <3>1, <3>2, <3>3
  <2> QED BY <2>1, <2>2, <2>3 DEF Queued
<1> QED BY <1>5, <1>8, <1>9, <1>10 DEF Fit

LEMMA EnterFit ==
  ASSUME Fit, NEW c \in Calls, Enter(c)
  PROVE  Fit'
<1>1. /\ Granted(c) /\ at[c] = Len(keys[c]) /\ pc[c] = "waiting"
      /\ busy' = [busy EXCEPT ![c] = ExtraBusy(c)] /\ missed' = [missed EXCEPT ![c] = {}]
      /\ pc' = [pc EXCEPT ![c] = "listing"] /\ NowAt(c, About(c))
      /\ UNCHANGED <<job, keys, at, queue, bookings, events, unseen, shifted>>
  BY DEF Enter, Granted
<1>2. pc'[c] = "listing" /\ \A x \in Calls \ {c} : pc'[x] = pc[x]
  BY <1>1 DEF Fit, Shapes
<1>3. TypesKept
  BY <1>1 DEF TypesKept
<1>4. KeysFit' /\ Queued'
  BY <1>1, <1>2, <1>3, LocksKept
<1>5. JobsFit'
  BY <1>1, <1>2 DEF Fit, JobsFit, JobFits, TypeOf
<1>6. BookingsFit'
  BY <1>1, <1>2 DEF Fit, BookingsFit
<1>7. Shapes'
  <2>1. About(c) \in Calls
    <3>1. JobFits(job[c]) /\ bookings \in [Calls -> Bookings \cup {None}]
      BY <1>1 DEF Fit, JobsFit, Shapes
    <3> QED BY <3>1, JobTypes DEF About
  <2>2. clashed' \subseteq Calls
    BY <1>1, <2>1 DEF NowAt, Fit, Shapes
  <2> QED BY <1>1, <2>2, BusyTypes DEF Fit, Shapes
<1> QED BY <1>4, <1>5, <1>6, <1>7 DEF Fit

LEMMA AcceptedFit ==
  ASSUME Fit, NEW c \in Calls, Accepted(c)
  PROVE  Fit'
<1>1. /\ pc[c] = "listing" /\ pc' = [pc EXCEPT ![c] = "calling"]
      /\ UNCHANGED <<job, keys, at, queue, busy, bookings, events, missed, unseen, shifted, clashed>>
  BY DEF Accepted
<1>2. pc'[c] = "calling" /\ \A x \in Calls \ {c} : pc'[x] = pc[x]
  BY <1>1 DEF Fit, Shapes
<1>3. TypesKept
  BY <1>1 DEF TypesKept
<1>4. KeysFit' /\ Queued'
  BY <1>1, <1>2, <1>3, LocksKept
<1>5. JobsFit'
  BY <1>1, <1>2 DEF Fit, JobsFit, JobFits, TypeOf
<1>6. BookingsFit'
  BY <1>1, <1>2 DEF Fit, BookingsFit
<1>7. Shapes'
  BY <1>1 DEF Fit, Shapes
<1> QED BY <1>4, <1>5, <1>6, <1>7 DEF Fit

LEMMA CalendarDoesFit ==
  ASSUME Fit, NEW c \in Calls, CalendarDoes(c)
  PROVE  Fit'
<1>1. /\ pc[c] = "calling" /\ pc' = [pc EXCEPT ![c] = "recording"]
      /\ events' = [events EXCEPT ![About(c)] = IF job[c].do = "cancel" THEN Gone ELSE job[c].start]
      /\ UNCHANGED <<job, keys, at, queue, busy, bookings, missed, unseen, shifted, clashed>>
  BY DEF CalendarDoes
<1>2. pc'[c] = "recording" /\ \A x \in Calls \ {c} : pc'[x] = pc[x]
  BY <1>1 DEF Fit, Shapes
<1>3. TypesKept
  BY <1>1 DEF TypesKept
<1>4. KeysFit' /\ Queued'
  BY <1>1, <1>2, <1>3, LocksKept
<1>5. JobsFit'
  BY <1>1, <1>2 DEF Fit, JobsFit, JobFits, TypeOf
<1>6. BookingsFit'
  BY <1>1, <1>2 DEF Fit, BookingsFit
<1>7. Shapes'
  <2>1. JobFits(job[c]) /\ bookings \in [Calls -> Bookings \cup {None}]
    BY <1>1 DEF Fit, JobsFit, Shapes
  <2>2. job[c].do # "cancel" => job[c].start \in Slots
    BY <2>1, JobTypes
  <2>3. events' \in [Calls -> Slots \cup {None, Gone}]
    BY <1>1, <2>2 DEF Fit, Shapes
  <2> QED BY <1>1, <2>3 DEF Fit, Shapes
<1> QED BY <1>4, <1>5, <1>6, <1>7 DEF Fit

\* What a call at its write writes: the booking of its type, at the start it asks for.
LEMMA WrittenTypes ==
  ASSUME Fit, NEW c \in Calls, pc[c] \in Deciding
  PROVE  /\ About(c) \in Calls /\ Written(c) \in Bookings /\ JobFits(job[c])
         /\ job[c].do \in {"create", "move", "cancel"}
         /\ Written(c).type = TypeOf(job[c]) /\ Written(c).start \in GridStarts(Written(c).type)
         /\ job[c].do # "cancel" => Written(c).start = job[c].start
         /\ job[c].do = "create" => bookings[c] = None /\ Written(c).status = "confirmed"
         /\ job[c].do = "move" => Written(c).status = bookings[job[c].of].status
         /\ job[c].do = "cancel" => Written(c).start = bookings[job[c].of].start
                                    /\ Written(c).status = "cancelled"
         /\ job[c].do # "create" => bookings[job[c].of] # None /\ job[c].of # c
                                    /\ Written(c).type = bookings[job[c].of].type
<1>1. /\ pc[c] \in {"listing", "calling", "recording"} /\ JobFits(job[c])
      /\ bookings \in [Calls -> Bookings \cup {None}] /\ bookings[c] = None
  BY DEF Fit, JobsFit, BookingsFit, Shapes, Deciding
<1>2. /\ job[c].do \in {"create", "move", "cancel"}
      /\ job[c].do # "create" => job[c].of \in Calls /\ bookings[job[c].of] \in Bookings
      /\ TypeOf(job[c]) \in Types
      /\ job[c].do # "cancel" => job[c].start \in Slots /\ job[c].start \in GridStarts(TypeOf(job[c]))
  BY <1>1, JobTypes
<1>3. CASE job[c].do = "create"
  <2>1. Written(c) = [type |-> job[c].type, start |-> job[c].start, status |-> "confirmed"]
    BY <1>3 DEF Written
  <2>2. About(c) = c /\ TypeOf(job[c]) = job[c].type
    BY <1>3 DEF About, TypeOf
  <2> QED BY <1>1, <1>2, <1>3, <2>1, <2>2 DEF Bookings
<1>4. CASE job[c].do # "create"
  <2>1. /\ About(c) = job[c].of /\ TypeOf(job[c]) = bookings[job[c].of].type
        /\ bookings[job[c].of] \in Bookings /\ bookings[job[c].of] # None /\ job[c].of \in Calls
        /\ job[c].of # c
    BY <1>1, <1>2, <1>4, NoneIsNoBooking DEF About, TypeOf
  <2>2. bookings[job[c].of].start \in GridStarts(bookings[job[c].of].type)
    BY <2>1 DEF Fit, BookingsFit
  <2> DEFINE old == bookings[job[c].of]
  <2>3. CASE job[c].do = "move"
    <3>1. Written(c) = [old EXCEPT !.start = job[c].start]
      BY <2>3 DEF Written
    <3> QED BY <1>1, <1>2, <2>1, <2>3, <3>1 DEF Bookings
  <2>4. CASE job[c].do = "cancel"
    <3>1. Written(c) = [old EXCEPT !.status = "cancelled"]
      BY <2>4 DEF Written
    <3> QED BY <1>1, <1>2, <2>1, <2>2, <2>4, <3>1 DEF Bookings
  <2> QED BY <1>2, <1>4, <2>3, <2>4
<1> QED BY <1>3, <1>4

LEMMA RecordFit ==
  ASSUME Fit, NEW c \in Calls, Record(c)
  PROVE  Fit' /\ TypesKept
<1> DEFINE b == About(c)
           w == Written(c)
<1>1. /\ pc[c] = "recording" /\ pc' = [pc EXCEPT ![c] = "telling"]
      /\ bookings' = [bookings EXCEPT ![b] = w]
      /\ UNCHANGED <<job, keys, at, queue, busy, events, clashed>>
  BY DEF Record
<1>2. /\ b \in Calls /\ w \in Bookings /\ w # None
      /\ w.type = TypeOf(job[c]) /\ w.start \in GridStarts(w.type)
      /\ job[c].do = "create" => bookings[c] = None /\ b = c /\ w.type = job[c].type
      /\ job[c].do # "create" => bookings[b] # None /\ b # c /\ w.type = bookings[b].type
  <2>1. pc[c] \in Deciding
    BY <1>1 DEF Deciding
  <2> QED BY <2>1, WrittenTypes, NoneIsNoBooking DEF About, TypeOf
<1> HIDE DEF b, w
<1>3. pc'[c] = "telling" /\ \A x \in Calls \ {c} : pc'[x] = pc[x]
  BY <1>1 DEF Fit, Shapes
<1>4. bookings'[b] = w /\ \A x \in Calls \ {b} : bookings'[x] = bookings[x]
  BY <1>1, <1>2 DEF Fit, Shapes
<1>5. TypesKept
  BY <1>2, <1>4 DEF TypesKept
<1>6. KeysFit' /\ Queued'
  BY <1>1, <1>3, <1>5, LocksKept
<1>7. JobsFit'
  <2> SUFFICES ASSUME NEW x \in Calls, pc'[x] # "idle"
               PROVE  JobFits(job[x])' /\ (pc'[x] \in {"waiting", "listing"} => job'[x].do # "cancel")
    BY DEF JobsFit
  <2>1. PICK j : j = job[x]
    OBVIOUS
  <2>2. JobFits(j) /\ job'[x] = j
    BY <1>1, <1>3, <2>1 DEF Fit, JobsFit
  <2>3. JobFits(j)'
    BY <1>5, <2>2, JobKept
  <2> QED BY <1>1, <1>3, <2>1, <2>2, <2>3 DEF Fit, JobsFit
<1>8. BookingsFit'
  <2> SUFFICES ASSUME NEW x \in Calls, bookings'[x] # None
      PROVE  /\ pc'[x] \in {"telling", "done"} /\ job'[x].do = "create"
             /\ bookings'[x].type = job'[x].type
             /\ bookings'[x].start \in GridStarts(bookings'[x].type)
    BY DEF BookingsFit
  <2>1. CASE x # b
    BY <1>1, <1>3, <1>4, <2>1 DEF Fit, BookingsFit
  <2>2. CASE x = b /\ job[c].do = "create"
    BY <1>1, <1>2, <1>3, <1>4, <2>2
  <2>3. CASE x = b /\ job[c].do # "create"
    BY <1>1, <1>2, <1>3, <1>4, <2>3 DEF Fit, BookingsFit
  <2> QED BY <2>1, <2>2, <2>3
<1>9. Shapes'
  <2>1. bookings' \in [Calls -> Bookings \cup {None}]
    BY <1>1, <1>2 DEF Fit, Shapes
  <2>2. missed' \in [Calls -> SUBSET Calls]
    BY <1>2 DEF Fit, Shapes, Record, b
  <2>3. unseen' \in [Calls -> SUBSET Calls] /\ shifted' \subseteq Calls
    <3>1. /\ unseen' = (IF job[c].do # "cancel" THEN [unseen EXCEPT ![b] = missed[c]] ELSE unseen)
          /\ shifted' = (IF job[c].do = "move" THEN shifted \cup {b} ELSE shifted)
      BY DEF Record, b
    <3> QED BY <1>2, <3>1 DEF Fit, Shapes
  <2> QED BY <1>1, <2>1, <2>2, <2>3 DEF Fit, Shapes
<1> QED BY <1>5, <1>6, <1>7, <1>8, <1>9 DEF Fit

-----------------------------------------------------------------------------
(* Types, and no waiting circle.                                            *)

LEMMA InitFit ==
  ASSUME Init
  PROVE  Fit
<1>1. Shapes
  <2>1. 1 \in 1 .. Cardinality(Hosts) + 1
    BY HostsTypes
  <2> QED BY <2>1 DEF Init, Shapes
<1>2. JobsFit /\ BookingsFit /\ KeysFit
  BY DEF Init, JobsFit, BookingsFit, KeysFit, Locked
<1>3. Queued
  BY DEF Init, Queued, On, IsInjective, Locked
<1> QED BY <1>1, <1>2, <1>3 DEF Fit

LEMMA FitKept ==
  ASSUME Fit, [Next]_vars
  PROVE  Fit'
<1>1. CASE Next
  <2>1. PICK c \in Calls : Steps(c)
    BY <1>1, EveryStep
  <2> QED BY <2>1, BeginsFit, CancelBeginsFit, NextLockFit, EnterFit, LeavesFit, AcceptedFit,
             CalendarDoesFit, RecordFit DEF Steps
<1>2. CASE UNCHANGED vars
  <2>1. UNCHANGED <<job, pc, keys, at, queue, busy, bookings, events, missed, unseen, shifted, clashed>>
    BY <1>2 DEF vars
  <2>2. \A c \in Calls : Locked(c)' <=> Locked(c)
    BY <2>1 DEF Locked
  <2>3. Shapes' /\ BookingsFit'
    BY <2>1 DEF Fit, Shapes, BookingsFit
  <2>4. JobsFit'
    BY <2>1 DEF Fit, JobsFit, JobFits, TypeOf
  <2>5. KeysFit'
    <3>1. ASSUME NEW j PROVE LockKeys(j)' = LockKeys(j)
      BY <2>1 DEF LockKeys, LockHosts, TypeOf
    <3>2. ASSUME NEW c \in Calls PROVE LockKeys(job[c])' = LockKeys(job[c])
      <4>1. PICK j : j = job[c]
        OBVIOUS
      <4>2. LockKeys(j)' = LockKeys(j) /\ job'[c] = j
        BY <2>1, <3>1, <4>1
      <4> QED BY <4>1, <4>2
    <3> QED BY <2>1, <2>2, <3>2 DEF Fit, KeysFit
  <2>6. Queued'
    BY <2>1, <2>2 DEF Fit, Queued
  <2> QED BY <2>3, <2>4, <2>5, <2>6 DEF Fit
<1> QED BY <1>1, <1>2

LEMMA FitTypes ==
  ASSUME Fit
  PROVE  TypeOK
<1>1. ASSUME NEW k \in DOMAIN queue, NEW i \in DOMAIN queue[k]
      PROVE  pc[queue[k][i]] \notin {"idle", "done"}
  <2>1. k \in Hosts \X Slots /\ queue[k] \in Seq(Calls)
    BY <1>1 DEF Fit, Shapes
  <2>2. queue[k][i] \in Calls /\ On(queue[k], queue[k][i])
    BY <1>1, <2>1 DEF On
  <2>3. Locked(queue[k][i])
    BY <2>1, <2>2 DEF Fit, Queued
  <2> QED BY <2>3 DEF Locked
<1>2. \A k \in DOMAIN queue : IsInjective(queue[k])
  BY DEF Fit, Shapes, Queued
<1> QED BY <1>1, <1>2 DEF Fit, Shapes, TypeOK

\* In every behaviour the variables have their types: what a call reads as busy are slots of
\* the day, it never asks for more locks than there are hosts, and a chain of withSlotLock
\* holds calls that have begun and not ended, each once.
THEOREM FixtureTypes == Spec => []TypeOK
<1>1. Init => Fit
  BY InitFit
<1>2. Fit /\ [Next]_vars => Fit'
  BY FitKept
<1>3. Fit => TypeOK
  BY FitTypes
<1> QED BY <1>1, <1>2, <1>3, PTL DEF Spec

\* Who heads the chain a call waits on is granted it, or waits for a later host.
LEMMA HeadIsFurther ==
  ASSUME Fit, \A x \in Calls : Underway(x) => pc[x] = "waiting",
         NEW c \in Calls, pc[c] = "waiting"
  PROVE  \E d \in Calls : /\ pc[d] = "waiting"
                          /\ Granted(d) \/ keys[c][at[c]][1] < keys[d][at[d]][1]
<1>1. Locked(c)
  BY DEF Fit, JobsFit, Locked
<1> DEFINE k == keys[c][at[c]]
           d == Head(queue[k])
<1>2. k \in Hosts \X Slots /\ at[c] \in 1 .. at[c] /\ at[c] \in 1 .. Len(keys[c])
  BY <1>1, KeyTypes
<1>3. On(queue[k], c) /\ queue[k] \in Seq(Calls)
  BY <1>1, <1>2 DEF Fit, Queued, Shapes
<1>4. d \in Calls /\ On(queue[k], d)
  <2>1. queue[k] # <<>> /\ 1 \in 1 .. Len(queue[k])
    BY <1>3 DEF On
  <2>2. d = queue[k][1]
    BY <1>3, <2>1
  <2> QED BY <1>3, <2>1, <2>2 DEF On
<1> HIDE DEF k, d
<1>5. Locked(d) /\ \E i \in 1 .. at[d] : keys[d][i] = k
  BY <1>2, <1>4 DEF Fit, Queued
<1>6. pc[d] = "waiting"
  BY <1>4, <1>5 DEF Locked, Underway
<1>7. PICK i \in 1 .. at[d] : keys[d][i] = k
  BY <1>5
<1>8. CASE i = at[d]
  BY <1>4, <1>6, <1>7, <1>8 DEF Granted, d
<1>9. CASE i < at[d]
  <2>1. i \in 1 .. Len(keys[d]) /\ at[d] \in 1 .. Len(keys[d])
    BY <1>4, <1>5, <1>7, KeyTypes
  <2>2. keys[d][i][1] < keys[d][at[d]][1]
    BY <1>4, <1>5, <1>9, <2>1, KeyTypes
  <2> QED BY <1>4, <1>6, <1>7, <2>2 DEF k
<1>10. at[d] \in Nat
  BY <1>4, <1>5, KeyTypes
<1> QED BY <1>7, <1>8, <1>9, <1>10

\* While a call has begun and not ended, one that has begun can take its next step: the chains
\* of withHostStartLocks are asked for in the order of the hosts, so of the calls that wait,
\* one that waits for the latest host is behind nobody who waits.
THEOREM NobodyWaitsInACircle == Spec => []NoWaitingCircle
<1>1. Fit => NoWaitingCircle
  <2> SUFFICES ASSUME Fit, NEW c \in Calls, Underway(c), \A x \in Calls : Underway(x) => pc[x] = "waiting"
               PROVE  \E d \in Calls : pc[d] = "waiting" /\ Granted(d)
    BY DEF NoWaitingCircle, Underway
  <2> DEFINE Waiting == {x \in Calls : pc[x] = "waiting"}
             Further(x) == {y \in Waiting : keys[x][at[x]][1] < keys[y][at[y]][1]}
             R == StrictSubsetOrdering(Calls)
             T == {Further(x) : x \in Waiting}
  <2>1. IsWellFoundedOn(R, SUBSET Calls)
    BY CallsFinite, FS_StrictSubsetOrderingWellFounded, FS_FiniteSubsetsOfFinite
  <2>2. T \subseteq SUBSET Calls /\ T # {}
    <3>1. c \in Waiting /\ \A x : Further(x) \subseteq Calls
      OBVIOUS
    <3> HIDE DEF Waiting, Further
    <3> QED BY <3>1
  <2>3. \E X \in T : \A Y \in T : <<Y, X>> \notin R
    <3> HIDE DEF R, T
    <3> QED BY <2>1, <2>2, WFMin
  <2>4. PICK m \in Waiting : \A y \in Waiting : <<Further(y), Further(m)>> \notin R
    BY <2>3
  <2>5. PICK d \in Waiting : Granted(d) \/ d \in Further(m)
    BY <2>4, HeadIsFurther
  <2>6. ASSUME d \in Further(m) PROVE FALSE
    <3>1. \A x \in Waiting : keys[x][at[x]][1] \in Nat
      <4>1. ASSUME NEW x \in Waiting PROVE keys[x][at[x]][1] \in Nat
        <5>1. Locked(x)
          BY DEF Fit, JobsFit, Locked
        <5>2. at[x] \in 1 .. Len(keys[x])
          BY <5>1, KeyTypes
        <5>3. keys[x][at[x]] \in Hosts \X Slots
          BY <5>1, <5>2, KeyTypes
        <5> QED BY <5>3, HostsTypes
      <4> QED BY <4>1
    <3>2. Further(d) \subseteq Further(m)
      BY <2>6, <3>1
    <3>3. d \notin Further(d)
      BY <3>1
    <3>4. <<Further(d), Further(m)>> \in R
      BY <2>6, <3>2, <3>3 DEF StrictSubsetOrdering
    <3> QED BY <2>4, <3>4
  <2> QED BY <2>5, <2>6
<1>2. Init => Fit
  BY InitFit
<1>3. Fit /\ [Next]_vars => Fit'
  BY FitKept
<1> QED BY <1>1, <1>2, <1>3, PTL DEF Spec

-----------------------------------------------------------------------------
(* Every calendar event is with its booking.                                *)

EventFits(b) == b \notin clashed =>
  /\ \A c, d \in AtWork(b) : c = d
  /\ AtWork(b) = {} /\ bookings[b] # None =>
        events[b] = IF Confirmed(b) THEN bookings[b].start ELSE Gone
  /\ \A c \in AtWork(b) :
        /\ job[c].do # "create" => Confirmed(b)
        /\ pc[c] # "recording" /\ job[c].do # "create" => events[b] = bookings[b].start
        /\ pc[c] = "recording" =>
              events[b] = IF job[c].do = "cancel" THEN Gone ELSE job[c].start

\* A booking that a step does not work on.
LEMMA EventElsewhere ==
  ASSUME NEW b \in Calls, NEW c \in Calls, EventFits(b),
         bookings'[b] = bookings[b], events'[b] = events[b], clashed \subseteq clashed',
         \A x \in Calls \ {c} : pc'[x] = pc[x] /\ job'[x] = job[x],
         c \notin AtWork(b), c \notin AtWork(b)'
  PROVE  EventFits(b)'
<1>1. AtWork(b)' = AtWork(b)
  BY DEF AtWork, About
<1>2. \A x \in AtWork(b) : x \in Calls \ {c}
  BY DEF AtWork
<1>3. Confirmed(b)' <=> Confirmed(b)
  BY DEF Confirmed
<1> QED BY <1>1, <1>2, <1>3 DEF EventFits

LEMMA EventStep ==
  ASSUME Fit, NEW c \in Calls, Steps(c), \A x \in Calls : EventFits(x), NEW b \in Calls
  PROVE  EventFits(b)'
<1>1. EventFits(b)
  OBVIOUS
<1>2. CASE Begins(c)
  <2>1. PICK j \in Jobs : Locks(c, j)
    BY <1>2 DEF Begins
  <2>2. /\ pc[c] = "idle" /\ pc' = [pc EXCEPT ![c] = "waiting"] /\ job' = [job EXCEPT ![c] = j]
        /\ UNCHANGED <<bookings, events, clashed>>
    BY <1>2, <2>1 DEF Begins, Arrived, Locks
  <2>3. pc'[c] = "waiting" /\ \A x \in Calls \ {c} : pc'[x] = pc[x] /\ job'[x] = job[x]
    BY <2>2 DEF Fit, Shapes
  <2>4. c \notin AtWork(b) /\ c \notin AtWork(b)'
    BY <2>2, <2>3 DEF AtWork, Deciding
  <2> QED BY <1>1, <2>2, <2>3, <2>4, EventElsewhere
<1>3. CASE NextLock(c)
  <2>1. pc[c] = "waiting" /\ UNCHANGED <<job, pc, bookings, events, clashed>>
    BY <1>3 DEF NextLock, Granted
  <2>2. c \notin AtWork(b) /\ c \notin AtWork(b)'
    BY <2>1 DEF AtWork, Deciding
  <2> QED BY <1>1, <2>1, <2>2, EventElsewhere
<1>4. CASE BeginCancel(c)
  <2>1. PICK a \in Calls : /\ Confirmed(a) /\ NowAt(c, a)
                           /\ job' = [job EXCEPT ![c] = [do |-> "cancel", of |-> a]]
    BY <1>4 DEF BeginCancel
  <2>2. /\ pc[c] = "idle" /\ pc' = [pc EXCEPT ![c] = "calling"] /\ UNCHANGED <<bookings, events>>
    BY <1>4 DEF BeginCancel, Arrived
  <2>3. /\ pc'[c] = "calling" /\ job'[c].do = "cancel" /\ job'[c].of = a
        /\ \A x \in Calls \ {c} : pc'[x] = pc[x] /\ job'[x] = job[x]
    BY <2>1, <2>2 DEF Fit, Shapes
  <2>4. c \notin AtWork(b) /\ (c \in AtWork(b)' <=> a = b) /\ clashed \subseteq clashed'
    BY <2>1, <2>2, <2>3 DEF AtWork, Deciding, About, NowAt
  <2>5. CASE a # b
    BY <1>1, <2>2, <2>3, <2>4, <2>5, EventElsewhere
  <2>6. CASE a = b /\ AtWork(b) = {}
    <3>1. AtWork(b)' = {c}
      BY <2>3, <2>4, <2>6 DEF AtWork, About
    <3>2. Confirmed(b) /\ Confirmed(b)' /\ bookings[b] # None
      BY <2>1, <2>2, <2>6 DEF Confirmed
    <3>3. b \notin clashed' => events[b] = bookings[b].start
      BY <1>1, <2>4, <2>6, <3>2 DEF EventFits
    <3> QED BY <2>2, <2>3, <3>1, <3>2, <3>3 DEF EventFits
  <2>7. CASE a = b /\ AtWork(b) # {}
    <3>1. b \in clashed'
      BY <2>1, <2>7 DEF NowAt
    <3> QED BY <3>1 DEF EventFits
  <2> QED BY <2>5, <2>6, <2>7
<1>5. CASE Enter(c)
  <2> DEFINE a == About(c)
  <2>1. /\ pc[c] = "waiting" /\ pc' = [pc EXCEPT ![c] = "listing"] /\ NowAt(c, a)
        /\ job[c].do = "move" => Confirmed(job[c].of)
        /\ UNCHANGED <<job, bookings, events>>
    BY <1>5 DEF Enter, Granted
  <2>2. pc'[c] = "listing" /\ \A x \in Calls \ {c} : pc'[x] = pc[x] /\ job'[x] = job[x]
    BY <2>1 DEF Fit, Shapes
  <2>3. c \notin AtWork(b) /\ (c \in AtWork(b)' <=> a = b) /\ clashed \subseteq clashed'
    BY <2>1, <2>2 DEF AtWork, Deciding, About, NowAt
  <2>4. job[c].do # "create" => a = job[c].of /\ Confirmed(a)
    <3>1. JobFits(job[c]) /\ job[c].do # "cancel"
      BY <2>1 DEF Fit, JobsFit
    <3>2. job[c].do \in {"create", "move"}
      BY <3>1, JobTypes DEF Fit, Shapes
    <3> QED BY <2>1, <3>2 DEF About
  <2>5. CASE a # b
    BY <1>1, <2>1, <2>2, <2>3, <2>5, EventElsewhere
  <2>6. CASE a = b /\ AtWork(b) = {}
    <3>1. AtWork(b)' = {c}
      BY <2>1, <2>2, <2>3, <2>6 DEF AtWork, About
    <3>2. job[c].do # "create" => Confirmed(b) /\ Confirmed(b)' /\ bookings[b] # None
      BY <2>1, <2>4, <2>6 DEF Confirmed
    <3>3. b \notin clashed' /\ job[c].do # "create" => events[b] = bookings[b].start
      BY <1>1, <2>3, <2>6, <3>2 DEF EventFits
    <3> QED BY <2>1, <2>2, <3>1, <3>2, <3>3 DEF EventFits
  <2>7. CASE a = b /\ AtWork(b) # {}
    <3>1. b \in clashed'
      BY <2>1, <2>7 DEF NowAt
    <3> QED BY <3>1 DEF EventFits
  <2> QED BY <2>5, <2>6, <2>7
<1>6. CASE Leaves(c)
  <2>1. /\ pc[c] \in {"waiting", "listing", "calling", "telling"} /\ pc' = [pc EXCEPT ![c] = "done"]
        /\ UNCHANGED <<job, bookings, events, clashed>>
    BY <1>6 DEF Leaves, Ends, Granted
  <2>2. pc'[c] = "done" /\ \A x \in Calls \ {c} : pc'[x] = pc[x] /\ job'[x] = job[x]
    BY <2>1 DEF Fit, Shapes
  <2>3. c \notin AtWork(b)'
    BY <2>2 DEF AtWork, Deciding
  <2>4. CASE c \notin AtWork(b)
    BY <1>1, <2>1, <2>2, <2>3, <2>4, EventElsewhere
  <2>5. CASE c \in AtWork(b) /\ b \notin clashed
    <3>1. AtWork(b)' = {} /\ (Confirmed(b)' <=> Confirmed(b))
      BY <1>1, <2>1, <2>2, <2>3, <2>5 DEF EventFits, AtWork, About, Confirmed
    <3>2. job[c].do = "create" => bookings[b] = None
      BY <2>1, <2>5 DEF AtWork, Deciding, About, Fit, BookingsFit
    <3>3. job[c].do # "create" => Confirmed(b) /\ events[b] = bookings[b].start
      BY <1>1, <2>1, <2>5 DEF EventFits
    <3> QED BY <2>1, <3>1, <3>2, <3>3 DEF EventFits
  <2> QED BY <2>1, <2>4, <2>5 DEF EventFits
<1>7. CASE Accepted(c)
  <2>1. /\ pc[c] = "listing" /\ pc' = [pc EXCEPT ![c] = "calling"]
        /\ UNCHANGED <<job, bookings, events, clashed>>
    BY <1>7 DEF Accepted
  <2>2. pc'[c] = "calling" /\ \A x \in Calls \ {c} : pc'[x] = pc[x]
    BY <2>1 DEF Fit, Shapes
  <2>3. AtWork(b)' = AtWork(b) /\ (Confirmed(b)' <=> Confirmed(b))
    BY <2>1, <2>2 DEF AtWork, About, Deciding, Confirmed
  <2>4. \A x \in AtWork(b) : x \in Calls
    BY DEF AtWork
  <2>5. \A x \in Calls : pc'[x] # "recording" <=> pc[x] # "recording"
    BY <2>1, <2>2
  <2> QED BY <1>1, <2>1, <2>3, <2>4, <2>5 DEF EventFits
<1>8. CASE CalendarDoes(c)
  <2> DEFINE a == About(c)
  <2>1. /\ pc[c] = "calling" /\ pc' = [pc EXCEPT ![c] = "recording"]
        /\ events' = [events EXCEPT ![a] = IF job[c].do = "cancel" THEN Gone ELSE job[c].start]
        /\ UNCHANGED <<job, bookings, clashed>>
    BY <1>8 DEF CalendarDoes
  <2>2. pc'[c] = "recording" /\ \A x \in Calls \ {c} : pc'[x] = pc[x] /\ job'[x] = job[x]
    BY <2>1 DEF Fit, Shapes
  <2>3. c \in AtWork(a) /\ (c \in AtWork(b) <=> a = b) /\ (c \in AtWork(b)' <=> a = b)
    BY <2>1, <2>2 DEF AtWork, About, Deciding
  <2>4. CASE a # b
    <3>1. events'[b] = events[b]
      BY <2>1, <2>4 DEF Fit, Shapes
    <3> QED BY <1>1, <2>1, <2>2, <2>3, <2>4, <3>1, EventElsewhere
  <2>5. CASE a = b /\ b \notin clashed
    <3>1. AtWork(b)' = {c} /\ (Confirmed(b)' <=> Confirmed(b))
      BY <1>1, <2>1, <2>2, <2>3, <2>5 DEF EventFits, AtWork, About, Confirmed
    <3>2. job[c].do # "create" => Confirmed(b)
      BY <1>1, <2>3, <2>5 DEF EventFits
    <3>3. events'[b] = IF job[c].do = "cancel" THEN Gone ELSE job[c].start
      BY <2>1, <2>5 DEF Fit, Shapes
    <3> QED BY <2>1, <2>2, <3>1, <3>2, <3>3 DEF EventFits
  <2> QED BY <2>1, <2>4, <2>5 DEF EventFits
<1>9. CASE Record(c)
  <2> DEFINE a == About(c)
             w == Written(c)
  <2>1. /\ pc[c] = "recording" /\ pc' = [pc EXCEPT ![c] = "telling"]
        /\ bookings' = [bookings EXCEPT ![a] = w] /\ UNCHANGED <<job, events, clashed>>
    BY <1>9 DEF Record
  <2>2. pc'[c] = "telling" /\ \A x \in Calls \ {c} : pc'[x] = pc[x] /\ job'[x] = job[x]
    BY <2>1 DEF Fit, Shapes
  <2>3. c \in AtWork(a) /\ (c \in AtWork(b) <=> a = b) /\ c \notin AtWork(b)'
    BY <2>1, <2>2 DEF AtWork, About, Deciding
  <2>4. CASE a # b
    <3>1. bookings'[b] = bookings[b]
      BY <2>1, <2>4 DEF Fit, Shapes
    <3> QED BY <1>1, <2>1, <2>2, <2>3, <2>4, <3>1, EventElsewhere
  <2>5. CASE a = b /\ b \notin clashed
    <3>1. AtWork(b)' = {}
      BY <1>1, <2>1, <2>2, <2>3, <2>5 DEF EventFits, AtWork, About
    <3>2. bookings'[b] = w
      BY <2>1, <2>5 DEF Fit, Shapes
    <3>3. events'[b] = IF job[c].do = "cancel" THEN Gone ELSE job[c].start
      BY <1>1, <2>1, <2>3, <2>5 DEF EventFits
    <3>4. /\ w # None
          /\ job[c].do = "cancel" => w.status = "cancelled"
          /\ job[c].do # "cancel" => w.status = "confirmed" /\ w.start = job[c].start
      <4>1. pc[c] \in Deciding
        BY <2>1 DEF Deciding
      <4>2. /\ w \in Bookings /\ job[c].do \in {"create", "move", "cancel"}
            /\ job[c].do # "cancel" => w.start = job[c].start
            /\ job[c].do = "create" => w.status = "confirmed"
            /\ job[c].do = "move" => w.status = bookings[job[c].of].status
            /\ job[c].do = "cancel" => w.status = "cancelled"
        BY <4>1, WrittenTypes
      <4>3. job[c].do = "move" => bookings[job[c].of].status = "confirmed"
        BY <1>1, <2>3, <2>5 DEF EventFits, Confirmed, About
      <4> QED BY <4>2, <4>3, NoneIsNoBooking
    <3>5. Confirmed(b)' <=> job[c].do # "cancel"
      BY <3>2, <3>4 DEF Confirmed
    <3> QED BY <3>1, <3>2, <3>3, <3>4, <3>5 DEF EventFits
  <2> QED BY <2>1, <2>4, <2>5 DEF EventFits
<1> QED BY <1>2, <1>3, <1>4, <1>5, <1>6, <1>7, <1>8, <1>9 DEF Steps

\* While no call works on it, a booking's calendar event is where the map says and a cancelled
\* booking has none, unless two calls once worked on it at the same time: the calendar is
\* changed first and the map only after it answered, so a throw leaves both as they were.
THEOREM EventsFollow == Spec => []EventFollowsBooking
<1> DEFINE I == Fit /\ \A b \in Calls : EventFits(b)
<1>1. Init => I
  <2> SUFFICES ASSUME Init PROVE I
    OBVIOUS
  <2>1. \A b \in Calls : EventFits(b)
    BY DEF Init, EventFits, AtWork, Deciding
  <2> QED BY <2>1, InitFit
<1>2. I /\ [Next]_vars => I'
  <2> SUFFICES ASSUME I, [Next]_vars PROVE I'
    OBVIOUS
  <2>1. CASE Next
    <3>1. PICK c \in Calls : Steps(c)
      BY <2>1, EveryStep
    <3>2. \A b \in Calls : EventFits(b)'
      BY <3>1, EventStep
    <3> QED BY <3>2, FitKept
  <2>2. CASE UNCHANGED vars
    <3>1. \A b \in Calls : EventFits(b)'
      BY <2>2 DEF vars, EventFits, AtWork, About, Confirmed
    <3> QED BY <3>1, FitKept
  <2> QED BY <2>1, <2>2
<1>3. I => EventFollowsBooking
  BY DEF EventFits, EventFollowsBooking
<1> QED BY <1>1, <1>2, <1>3, PTL DEF Spec

-----------------------------------------------------------------------------
(* No host in two meetings at once.                                         *)

\* A call that has read what is busy and will place a booking; a group's own sessions it skips.
Placing(c) == pc[c] \in Deciding /\ job[c].do # "cancel"
OwnSession(c, a) == job[c].do = "create" /\ IsGroup(job[c].type) /\ bookings[a].type = job[c].type
Common(c, a) == HostsOfBooking(a) \cap LockHosts(job[c])
At(e, t) == {b \in Calls : Confirmed(b) /\ bookings[b].type = e /\ bookings[b].start = t}

\* What is confirmed and not missed was read; what is missed is at another start, or meets the
\* call at co-hosts only; and what the call was offered is free of what it read.
SeenFits(c) == \A a \in Calls \ missed[c] :
  Confirmed(a) /\ a # About(c) /\ ~OwnSession(c, a) /\ Common(c, a) # {} => SlotsOf(a) \subseteq busy[c]
MissedFits(c) == \A a \in missed[c] :
  Confirmed(a) /\ bookings[a].start = job[c].start => \A h \in Common(c, a) : CoHost(h, a)
OfferFits(c) == pc[c] \in {"calling", "recording"} =>
  /\ Span(TypeOf(job[c]), job[c].start) \cap busy[c] = {}
  /\ job[c].do = "create" /\ IsGroup(job[c].type) =>
        CountConfirmedAt(job[c].type, job[c].start) < Seats[job[c].type]
PlaceFits(c) == Placing(c) => SeenFits(c) /\ MissedFits(c) /\ OfferFits(c)

\* Two calls between their locks and their end share no host at one start.
LEMMA Exclusive ==
  ASSUME Fit, NEW c \in Calls, NEW d \in Calls, Placing(c), Placing(d),
         job[c].start = job[d].start, NEW h \in LockHosts(job[c]), h \in LockHosts(job[d])
  PROVE  c = d
<1>1. ASSUME NEW x \in Calls, Placing(x), h \in LockHosts(job[x])
      PROVE  Head(queue[<<h, job[x].start>>]) = x
  <2>1. Locked(x) /\ pc[x] # "waiting"
    BY <1>1 DEF Placing, Locked, Deciding
  <2>2. PICK i \in 1 .. Len(keys[x]) : keys[x][i] = <<h, job[x].start>>
    BY <1>1, <2>1, KeyTypes
  <2>3. i \in 1 .. at[x]
    BY <2>1, <2>2 DEF Fit, KeysFit
  <2> QED BY <2>1, <2>2, <2>3 DEF Fit, Queued
<1> QED BY <1>1

LEMMA JobOf ==
  ASSUME Fit, NEW x \in Calls, pc[x] # "idle"
  PROVE  /\ JobFits(job[x])
         /\ job[x].do \in {"create", "move", "cancel"}
         /\ job[x].do = "create" => LockHosts(job[x]) =
                (IF IsGroup(job[x].type) THEN {Organizer(job[x].type)} ELSE Assigned(job[x].type))
         /\ job[x].do = "create" => TypeOf(job[x]) = job[x].type
         /\ job[x].do # "create" => LockHosts(job[x]) = {Organizer(TypeOf(job[x]))}
         /\ Organizer(TypeOf(job[x])) \in LockHosts(job[x])
         /\ TypeOf(job[x]) \in Types
<1>1. JobFits(job[x]) /\ bookings \in [Calls -> Bookings \cup {None}]
  BY DEF Fit, JobsFit, Shapes
<1>2. job[x].do \in {"create", "move", "cancel"} /\ Organizer(TypeOf(job[x])) \in LockHosts(job[x])
      /\ TypeOf(job[x]) \in Types
  BY <1>1, JobTypes
<1> QED BY <1>1, <1>2 DEF LockHosts, TypeOf

LEMMA JobOfKept ==
  ASSUME Fit, TypesKept, NEW x \in Calls, pc[x] # "idle", job'[x] = job[x]
  PROVE  LockHosts(job[x])' = LockHosts(job[x]) /\ TypeOf(job[x])' = TypeOf(job[x])
<1>1. PICK j : j = job[x]
  OBVIOUS
<1>2. JobFits(j)
  BY <1>1 DEF Fit, JobsFit
<1>3. LockHosts(j)' = LockHosts(j) /\ TypeOf(j)' = TypeOf(j) /\ job'[x] = j
  BY <1>1, <1>2, JobKept
<1> QED BY <1>1, <1>3

LEMMA SameBooking ==
  ASSUME NEW a \in Calls, bookings'[a] = bookings[a]
  PROVE  /\ Confirmed(a)' <=> Confirmed(a)
         /\ SlotsOf(a)' = SlotsOf(a) /\ HostsOfBooking(a)' = HostsOfBooking(a)
BY DEF Confirmed, SlotsOf, HostsOfBooking

LEMMA AtTypes ==
  ASSUME NEW e, NEW t
  PROVE  /\ IsFiniteSet(At(e, t)) /\ Cardinality(At(e, t)) \in Nat
         /\ CountConfirmedAt(e, t) = Cardinality(At(e, t))
<1>1. At(e, t) \in SUBSET Calls
  BY DEF At
<1>2. IsFiniteSet(At(e, t))
  BY <1>1, CallsFinite
<1> QED BY <1>2, FS_CardinalityType DEF CountConfirmedAt, At

\* The read under the locks covers the confirmed bookings that meet the call's hosts.
LEMMA BusyCovers ==
  ASSUME Fit, NEW c \in Calls, pc[c] = "waiting", NEW a \in Calls,
         Confirmed(a), a # About(c), ~OwnSession(c, a), NEW h \in Common(c, a)
  PROVE  SlotsOf(a) \subseteq ExtraBusy(c)
<1>1. job[c].do \in {"create", "move"}
  BY JobOf DEF Fit, JobsFit
<1>2. ASSUME NEW skip, a \notin skip PROVE SlotsOf(a) \subseteq HostBusy(h, skip)
  BY <1>2 DEF HostBusy, Common
<1>3. CASE job[c].do = "move"
  <2>1. h = Organizer(TypeOf(job[c])) /\ a \notin {About(c)}
    BY <1>3, JobOf DEF Common
  <2>2. ExtraBusy(c) = HostBusy(h, {About(c)})
    BY <1>3, <2>1 DEF ExtraBusy
  <2> QED BY <1>2, <2>1, <2>2
<1>4. CASE job[c].do = "create" /\ IsGroup(job[c].type)
  <2> DEFINE own == {b \in Calls : bookings[b] # None /\ bookings[b].type = job[c].type}
  <2>1. h = Organizer(job[c].type) /\ TypeOf(job[c]) = job[c].type
    BY <1>4, JobOf DEF Common
  <2>2. ExtraBusy(c) = HostBusy(h, own)
    BY <1>4, <2>1 DEF ExtraBusy
  <2>3. a \notin own
    BY <1>4 DEF OwnSession
  <2> HIDE DEF own
  <2> QED BY <1>2, <2>2, <2>3
<1>5. CASE job[c].do = "create" /\ ~IsGroup(job[c].type)
  <2>1. h \in Assigned(job[c].type) /\ TypeOf(job[c]) = job[c].type
    BY <1>5, JobOf DEF Common
  <2>2. ExtraBusy(c) = UNION {HostBusy(g, {}) : g \in Assigned(job[c].type)}
    BY <1>5, <2>1 DEF ExtraBusy
  <2>3. SlotsOf(a) \subseteq HostBusy(h, {})
    BY <1>2
  <2> QED BY <2>1, <2>2, <2>3
<1> QED BY <1>1, <1>3, <1>4, <1>5

\* A step that writes no booking keeps what every other call read and was offered.
LEMMA PlaceElsewhere ==
  ASSUME Fit, NEW x \in Calls, PlaceFits(x), pc'[x] = pc[x], job'[x] = job[x],
         busy'[x] = busy[x], missed'[x] = missed[x], UNCHANGED <<bookings, shifted>>
  PROVE  PlaceFits(x)'
<1> SUFFICES ASSUME Placing(x)' PROVE SeenFits(x)' /\ MissedFits(x)' /\ OfferFits(x)'
  BY DEF PlaceFits
<1>1. Placing(x) /\ pc[x] # "idle"
  BY DEF Placing, Deciding
<1>2. SeenFits(x) /\ MissedFits(x) /\ OfferFits(x)
  BY <1>1 DEF PlaceFits
<1>3. LockHosts(job[x])' = LockHosts(job[x]) /\ TypeOf(job[x])' = TypeOf(job[x])
  BY <1>1, JobOfKept DEF TypesKept
<1>4. \A a \in Calls : /\ Confirmed(a)' <=> Confirmed(a)
                       /\ SlotsOf(a)' = SlotsOf(a) /\ HostsOfBooking(a)' = HostsOfBooking(a)
                       /\ \A h : CoHost(h, a)' <=> CoHost(h, a)
  BY SameBooking DEF CoHost
<1>5. \A a \in Calls : Common(x, a)' = Common(x, a) /\ (OwnSession(x, a)' <=> OwnSession(x, a))
  BY <1>3, <1>4 DEF Common, OwnSession
<1>6. About(x)' = About(x)
  BY DEF About
<1>7. SeenFits(x)'
  BY <1>2, <1>4, <1>5, <1>6 DEF SeenFits
<1>8. missed[x] \subseteq Calls
  BY DEF Fit, Shapes
<1>9. MissedFits(x)'
  BY <1>2, <1>4, <1>5, <1>8 DEF MissedFits
<1>10. \A e, t : CountConfirmedAt(e, t)' = CountConfirmedAt(e, t)
  BY <1>4 DEF CountConfirmedAt
<1>11. OfferFits(x)'
  BY <1>2, <1>3, <1>10 DEF OfferFits
<1> QED BY <1>7, <1>9, <1>11

\* The bookings are what they were, so hosts are held as they were.
LEMMA HeldElsewhere ==
  ASSUME HostsHeldOnce, UNCHANGED <<bookings, unseen, shifted>>
  PROVE  HostsHeldOnce'
BY DEF HostsHeldOnce, Overlapping, SameSession, CoHost, Confirmed, SlotsOf, HostsOfBooking,
       CountConfirmedAt

\* The steps that write no booking.
LEMMA PlaceQuiet ==
  ASSUME Fit, NEW c \in Calls, Steps(c), ~Record(c), \A x \in Calls : PlaceFits(x), NEW x \in Calls
  PROVE  PlaceFits(x)' /\ UNCHANGED <<bookings, unseen, shifted>>
<1>1. PlaceFits(x)
  OBVIOUS
<1>2. CASE Begins(c)
  <2>1. PICK j \in Jobs : Locks(c, j)
    BY <1>2 DEF Begins
  <2>2. /\ pc' = [pc EXCEPT ![c] = "waiting"] /\ job' = [job EXCEPT ![c] = j]
        /\ UNCHANGED <<busy, missed, bookings, unseen, shifted>>
    BY <2>1 DEF Locks
  <2>3. CASE x = c
    BY <2>2, <2>3 DEF Fit, Shapes, PlaceFits, Placing, Deciding
  <2>4. CASE x # c
    <3>1. pc'[x] = pc[x] /\ job'[x] = job[x] /\ busy'[x] = busy[x] /\ missed'[x] = missed[x]
      BY <2>2, <2>4 DEF Fit, Shapes
    <3> QED BY <1>1, <2>2, <3>1, PlaceElsewhere
  <2> QED BY <2>2, <2>3, <2>4
<1>3. CASE BeginCancel(c)
  <2>1. PICK a \in Calls : job' = [job EXCEPT ![c] = [do |-> "cancel", of |-> a]]
    BY <1>3 DEF BeginCancel
  <2>2. /\ pc' = [pc EXCEPT ![c] = "calling"]
        /\ UNCHANGED <<busy, missed, bookings, unseen, shifted>>
    BY <1>3 DEF BeginCancel
  <2>3. CASE x = c
    <3>1. job'[c].do = "cancel"
      BY <2>1 DEF Fit, Shapes
    <3> QED BY <2>2, <2>3, <3>1 DEF PlaceFits, Placing
  <2>4. CASE x # c
    <3>1. pc'[x] = pc[x] /\ job'[x] = job[x] /\ busy'[x] = busy[x] /\ missed'[x] = missed[x]
      BY <2>1, <2>2, <2>4 DEF Fit, Shapes
    <3> QED BY <1>1, <2>2, <3>1, PlaceElsewhere
  <2> QED BY <2>2, <2>3, <2>4
<1>4. CASE NextLock(c)
  <2>1. UNCHANGED <<job, pc, busy, missed, bookings, unseen, shifted>>
    BY <1>4 DEF NextLock
  <2> QED BY <1>1, <2>1, PlaceElsewhere
<1>5. CASE Enter(c)
  <2>1. /\ pc[c] = "waiting" /\ pc' = [pc EXCEPT ![c] = "listing"]
        /\ busy' = [busy EXCEPT ![c] = ExtraBusy(c)] /\ missed' = [missed EXCEPT ![c] = {}]
        /\ UNCHANGED <<job, bookings, unseen, shifted>>
    BY <1>5 DEF Enter, Granted
  <2>2. CASE x = c
    <3>1. pc'[c] = "listing" /\ busy'[c] = ExtraBusy(c) /\ missed'[c] = {} /\ job'[c] = job[c]
      BY <2>1 DEF Fit, Shapes
    <3>2. LockHosts(job[c])' = LockHosts(job[c])
      BY <2>1, JobOfKept DEF TypesKept
    <3>3. \A a \in Calls : /\ Confirmed(a)' <=> Confirmed(a)
                           /\ SlotsOf(a)' = SlotsOf(a) /\ HostsOfBooking(a)' = HostsOfBooking(a)
      BY <2>1, SameBooking
    <3>4. \A a \in Calls : Common(c, a)' = Common(c, a) /\ (OwnSession(c, a)' <=> OwnSession(c, a))
      BY <2>1, <3>2, <3>3 DEF Common, OwnSession
    <3>5. About(c)' = About(c)
      BY <2>1 DEF About
    <3>6. SeenFits(c)'
      BY <2>1, <3>1, <3>3, <3>4, <3>5, BusyCovers DEF SeenFits
    <3>7. MissedFits(c)' /\ OfferFits(c)'
      BY <3>1 DEF MissedFits, OfferFits
    <3> QED BY <2>1, <2>2, <3>6, <3>7 DEF PlaceFits
  <2>3. CASE x # c
    <3>1. pc'[x] = pc[x] /\ busy'[x] = busy[x] /\ missed'[x] = missed[x]
      BY <2>1, <2>3 DEF Fit, Shapes
    <3> QED BY <1>1, <2>1, <3>1, PlaceElsewhere
  <2> QED BY <2>1, <2>2, <2>3
<1>6. CASE Leaves(c)
  <2>1. /\ pc' = [pc EXCEPT ![c] = "done"]
        /\ busy' = [busy EXCEPT ![c] = {}] /\ missed' = [missed EXCEPT ![c] = {}]
        /\ UNCHANGED <<job, bookings, unseen, shifted>>
    BY <1>6 DEF Leaves, Ends
  <2>2. CASE x = c
    BY <2>1, <2>2 DEF Fit, Shapes, PlaceFits, Placing, Deciding
  <2>3. CASE x # c
    <3>1. pc'[x] = pc[x] /\ busy'[x] = busy[x] /\ missed'[x] = missed[x]
      BY <2>1, <2>3 DEF Fit, Shapes
    <3> QED BY <1>1, <2>1, <3>1, PlaceElsewhere
  <2> QED BY <2>1, <2>2, <2>3
<1>7. CASE Accepted(c) \/ CalendarDoes(c)
  <2>1. /\ pc[c] \in {"listing", "calling"}
        /\ pc' = [pc EXCEPT ![c] = IF pc[c] = "listing" THEN "calling" ELSE "recording"]
        /\ pc[c] = "listing" => Offered(c)
        /\ UNCHANGED <<job, busy, missed, bookings, unseen, shifted>>
    BY <1>7 DEF Accepted, CalendarDoes
  <2>2. CASE x = c /\ Placing(c)
    <3>1. Placing(c)' /\ pc'[c] \in {"calling", "recording"} /\ pc[c] # "idle"
      BY <2>1, <2>2 DEF Fit, Shapes, Placing, Deciding
    <3>2. SeenFits(c) /\ MissedFits(c) /\ OfferFits(c)
      BY <2>2 DEF PlaceFits
    <3>3. LockHosts(job[c])' = LockHosts(job[c]) /\ TypeOf(job[c])' = TypeOf(job[c])
      BY <2>1, <3>1, JobOfKept DEF TypesKept
    <3>4. \A a \in Calls : /\ Confirmed(a)' <=> Confirmed(a)
                           /\ SlotsOf(a)' = SlotsOf(a) /\ HostsOfBooking(a)' = HostsOfBooking(a)
                           /\ \A h : CoHost(h, a)' <=> CoHost(h, a)
      BY <2>1, SameBooking DEF CoHost
    <3>5. \A a \in Calls : Common(c, a)' = Common(c, a) /\ (OwnSession(c, a)' <=> OwnSession(c, a))
      BY <2>1, <3>3, <3>4 DEF Common, OwnSession
    <3>6. About(c)' = About(c)
      BY <2>1 DEF About
    <3>7. SeenFits(c)'
      BY <2>1, <3>2, <3>4, <3>5, <3>6 DEF SeenFits
    <3>8. MissedFits(c)'
      <4>1. missed[c] \subseteq Calls
        BY DEF Fit, Shapes
      <4> QED BY <2>1, <3>2, <3>4, <3>5, <4>1 DEF MissedFits
    <3>9. /\ Span(TypeOf(job[c]), job[c].start) \cap busy[c] = {}
          /\ job[c].do = "create" /\ IsGroup(job[c].type) =>
                CountConfirmedAt(job[c].type, job[c].start) < Seats[job[c].type]
      <4>1. CASE pc[c] = "calling"
        BY <3>2, <4>1 DEF OfferFits
      <4>2. CASE pc[c] = "listing"
        <5>1. job[c].do = "create" => TypeOf(job[c]) = job[c].type
          BY <3>1, JobOf
        <5> QED BY <2>1, <4>2, <5>1 DEF Offered
      <4> QED BY <2>1, <4>1, <4>2
    <3>10. \A e, t : CountConfirmedAt(e, t)' = CountConfirmedAt(e, t)
      BY <2>1, <3>4 DEF CountConfirmedAt
    <3>11. OfferFits(c)'
      BY <2>1, <3>3, <3>9, <3>10 DEF OfferFits
    <3> QED BY <2>1, <2>2, <3>7, <3>8, <3>11 DEF PlaceFits
  <2>3. CASE x = c /\ ~Placing(c)
    <3>1. ~Placing(c)'
      BY <2>1, <2>3 DEF Placing, Deciding
    <3> QED BY <2>1, <2>3, <3>1 DEF PlaceFits
  <2>4. CASE x # c
    <3>1. pc'[x] = pc[x]
      BY <2>1, <2>4 DEF Fit, Shapes
    <3> QED BY <1>1, <2>1, <3>1, PlaceElsewhere
  <2> QED BY <2>1, <2>2, <2>3, <2>4
<1> QED BY <1>2, <1>3, <1>4, <1>5, <1>6, <1>7 DEF Steps

\* What a write writes: a booking whose hosts, at its new start, the call has to itself.
LEMMA RecordWrites ==
  ASSUME Fit, NEW c \in Calls, Record(c), NEW b, b = About(c)
  PROVE  /\ b \in Calls /\ pc[c] = "recording" /\ pc[c] # "idle"
         /\ \A x \in Calls \ {c} : pc'[x] = pc[x]
         /\ pc'[c] = "telling"
         /\ UNCHANGED <<job, busy, events>>
         /\ bookings'[b] = Written(c)
         /\ \A a \in Calls \ {b} : bookings'[a] = bookings[a]
         /\ SlotsOf(b)' = Span(TypeOf(job[c]), Written(c).start)
         /\ Written(c).type = TypeOf(job[c]) /\ Written(c).start \in GridStarts(Written(c).type)
         /\ job[c].do \in {"create", "move", "cancel"}
         /\ job[c].do # "cancel" => Written(c).start = job[c].start
         /\ job[c].do = "create" => HostsOfBooking(b)' = LockHosts(job[c]) /\ bookings[b] = None
         /\ job[c].do = "move" => LockHosts(job[c]) = {Organizer(Written(c).type)}
                                  /\ shifted' = shifted \cup {b}
         /\ shifted \subseteq shifted'
         /\ job[c].do # "cancel" =>
               /\ unseen'[b] = missed[c] /\ \A a \in Calls \ {b} : unseen'[a] = unseen[a]
               /\ \A x \in Calls \ {c} : pc[x] \in Deciding => missed'[x] = missed[x] \cup {b}
         /\ job[c].do = "cancel" =>
               ~Confirmed(b)' /\ unseen' = unseen /\ shifted' = shifted /\ missed' = missed
<1> DEFINE w == Written(c)
<1>1. /\ pc[c] = "recording" /\ pc' = [pc EXCEPT ![c] = "telling"]
      /\ bookings' = [bookings EXCEPT ![b] = w]
      /\ UNCHANGED <<job, keys, at, queue, busy, events, clashed>>
      /\ missed' = [d \in Calls |->
                      IF job[c].do # "cancel" /\ pc[d] \in Deciding /\ d # c THEN missed[d] \cup {b}
                      ELSE missed[d]]
      /\ unseen' = (IF job[c].do # "cancel" THEN [unseen EXCEPT ![b] = missed[c]] ELSE unseen)
      /\ shifted' = (IF job[c].do = "move" THEN shifted \cup {b} ELSE shifted)
  BY DEF Record
<1>2. /\ b \in Calls /\ w \in Bookings /\ job[c].do \in {"create", "move", "cancel"}
      /\ w.type = TypeOf(job[c]) /\ w.start \in GridStarts(w.type)
      /\ job[c].do # "cancel" => w.start = job[c].start
      /\ job[c].do = "create" => bookings[b] = None
      /\ job[c].do = "cancel" => w.status = "cancelled"
  BY <1>1, WrittenTypes DEF Deciding, About
<1> HIDE DEF w
<1>3. bookings'[b] = w /\ \A a \in Calls \ {b} : bookings'[a] = bookings[a]
  BY <1>1, <1>2 DEF Fit, Shapes
<1>4. pc'[c] = "telling" /\ \A x \in Calls \ {c} : pc'[x] = pc[x]
  BY <1>1 DEF Fit, Shapes
<1>5. SlotsOf(b)' = Span(TypeOf(job[c]), w.start)
  BY <1>2, <1>3 DEF SlotsOf
<1>6. job[c].do = "create" => HostsOfBooking(b)' = LockHosts(job[c])
  <2>1. job[c].do = "create" => w.type = job[c].type
    BY <1>2 DEF TypeOf
  <2> QED BY <1>1, <1>3, <2>1, JobOf DEF HostsOfBooking
<1>7. job[c].do = "move" => LockHosts(job[c]) = {Organizer(w.type)}
  BY <1>1, <1>2, JobOf
<1>8. job[c].do = "cancel" => ~Confirmed(b)'
  BY <1>2, <1>3 DEF Confirmed
<1>9. job[c].do # "cancel" =>
        /\ unseen'[b] = missed[c] /\ \A a \in Calls \ {b} : unseen'[a] = unseen[a]
        /\ \A x \in Calls \ {c} : pc[x] \in Deciding => missed'[x] = missed[x] \cup {b}
  BY <1>1, <1>2 DEF Fit, Shapes
<1>10. job[c].do = "cancel" => unseen' = unseen /\ shifted' = shifted /\ missed' = missed
  BY <1>1 DEF Fit, Shapes
<1>11. shifted \subseteq shifted' /\ (job[c].do = "move" => shifted' = shifted \cup {b})
  BY <1>1
<1> QED BY <1>1, <1>2, <1>3, <1>4, <1>5, <1>6, <1>7, <1>8, <1>9, <1>10, <1>11 DEF w

\* A booking that is not confirmed after a step is where it was, or was not there.
LEMMA OtherBookings ==
  ASSUME Fit, NEW c \in Calls, Record(c), NEW b, b = About(c), NEW a \in Calls, a # b
  PROVE  /\ Confirmed(a)' <=> Confirmed(a)
         /\ SlotsOf(a)' = SlotsOf(a) /\ HostsOfBooking(a)' = HostsOfBooking(a)
         /\ bookings'[a] = bookings[a]
         /\ \A h : CoHost(h, a) => CoHost(h, a)'
<1>1. bookings'[a] = bookings[a] /\ shifted \subseteq shifted'
  BY RecordWrites
<1> QED BY <1>1, SameBooking DEF CoHost

\* The write of one call, seen by another that is between its read and its write.
LEMMA PlaceSeesRecord ==
  ASSUME Fit, NEW c \in Calls, Record(c), NEW x \in Calls, PlaceFits(x)
  PROVE  PlaceFits(x)'
<1> SUFFICES ASSUME Placing(x)' PROVE SeenFits(x)' /\ MissedFits(x)' /\ OfferFits(x)'
  BY DEF PlaceFits
<1>1. PICK b \in Calls : b = About(c)
  BY RecordWrites
<1>2. /\ pc[c] = "recording" /\ pc'[c] = "telling" /\ UNCHANGED <<job, busy>>
      /\ \A y \in Calls \ {c} : pc'[y] = pc[y]
  BY <1>1, RecordWrites
<1>3. x # c /\ pc'[x] = pc[x] /\ Placing(x) /\ pc[x] \in Deciding /\ pc[x] # "idle"
  BY <1>2 DEF Placing, Deciding
<1>4. SeenFits(x) /\ MissedFits(x) /\ OfferFits(x)
  BY <1>3 DEF PlaceFits
<1>5. LockHosts(job[x])' = LockHosts(job[x]) /\ TypeOf(job[x])' = TypeOf(job[x])
  BY <1>2, <1>3, RecordFit, JobOfKept
<1>6. /\ job[c].do = "cancel" => missed'[x] = missed[x] /\ ~Confirmed(b)'
      /\ job[c].do # "cancel" => missed'[x] = missed[x] \cup {b}
  BY <1>1, <1>3, RecordWrites
<1>7. ASSUME NEW a \in Calls, a # b
      PROVE  /\ Confirmed(a)' <=> Confirmed(a)
             /\ SlotsOf(a)' = SlotsOf(a) /\ bookings'[a] = bookings[a]
             /\ \A h : CoHost(h, a) => CoHost(h, a)'
             /\ Common(x, a)' = Common(x, a) /\ (OwnSession(x, a)' <=> OwnSession(x, a))
  BY <1>1, <1>2, <1>5, <1>7, OtherBookings DEF Common, OwnSession
<1>8. About(x)' = About(x)
  BY <1>2 DEF About
<1>9. SeenFits(x)'
  <2> SUFFICES ASSUME NEW a \in Calls, a \notin missed'[x], Confirmed(a)', a # About(x)',
                      ~OwnSession(x, a)', Common(x, a)' # {}
               PROVE  SlotsOf(a)' \subseteq busy'[x]
    BY DEF SeenFits
  <2>1. a # b /\ a \notin missed[x]
    BY <1>6
  <2> QED BY <1>2, <1>4, <1>7, <1>8, <2>1 DEF SeenFits
<1>10. MissedFits(x)'
  <2> SUFFICES ASSUME NEW a \in missed'[x], Confirmed(a)', bookings'[a].start = job'[x].start,
                      NEW h \in Common(x, a)'
               PROVE  CoHost(h, a)'
    BY DEF MissedFits
  <2>1. missed[x] \subseteq Calls
    BY DEF Fit, Shapes
  <2>2. CASE a # b
    <3>1. a \in missed[x] /\ a \in Calls
      BY <1>6, <2>1, <2>2
    <3> QED BY <1>2, <1>4, <1>7, <2>2, <3>1 DEF MissedFits
  <2>3. CASE a = b
    <3>1. job[c].do # "cancel"
      BY <1>6, <2>3
    <3>2. bookings'[b] = Written(c) /\ Written(c).start = job[c].start
          /\ job[c].do \in {"create", "move"}
      BY <1>1, <3>1, RecordWrites
    <3>3. Placing(c) /\ job[c].start = job[x].start
      BY <1>2, <2>3, <3>1, <3>2 DEF Placing, Deciding
    <3>4. h \in LockHosts(job[x]) /\ h \in HostsOfBooking(b)'
      BY <1>5, <2>3 DEF Common
    <3>5. h \notin LockHosts(job[c])
      BY <1>3, <3>3, <3>4, Exclusive
    <3>6. job[c].do = "move"
      BY <1>1, <3>2, <3>4, <3>5, RecordWrites
    <3>7. h # Organizer(Written(c).type) /\ b \in shifted'
      BY <1>1, <3>5, <3>6, RecordWrites
    <3> QED BY <2>3, <3>2, <3>7 DEF CoHost
  <2> QED BY <2>2, <2>3
<1>11. OfferFits(x)'
  <2> SUFFICES ASSUME pc'[x] \in {"calling", "recording"}
      PROVE  /\ Span(TypeOf(job[x])', job'[x].start) \cap busy'[x] = {}
             /\ job'[x].do = "create" /\ IsGroup(job'[x].type) =>
                   CountConfirmedAt(job[x].type, job[x].start)' < Seats[job'[x].type]
    BY DEF OfferFits
  <2>1. Span(TypeOf(job[x])', job'[x].start) \cap busy'[x] = {}
    BY <1>2, <1>3, <1>4, <1>5 DEF OfferFits
  <2>2. ASSUME job[x].do = "create", IsGroup(job[x].type)
        PROVE  CountConfirmedAt(job[x].type, job[x].start)' < Seats[job[x].type]
    <3>1. PICK e, t : e = job[x].type /\ t = job[x].start
      OBVIOUS
    <3>2. CountConfirmedAt(e, t) < Seats[e] /\ job'[x].type = e /\ job'[x].start = t
      BY <1>2, <1>3, <1>4, <2>2, <3>1 DEF OfferFits
    <3>3. e \in Types /\ Organizer(e) \in LockHosts(job[x]) /\ Seats[e] \in Nat
      BY <1>3, <2>2, <3>1, JobOf, TypesAreSane
    <3>4. ~(Confirmed(b)' /\ bookings'[b].type = e /\ bookings'[b].start = t)
      <4> SUFFICES ASSUME Confirmed(b)', bookings'[b].type = e, bookings'[b].start = t PROVE FALSE
        OBVIOUS
      <4>1. job[c].do # "cancel"
        BY <1>6
      <4>2. TypeOf(job[c]) = e /\ job[c].start = t
        BY <1>1, <4>1, RecordWrites
      <4>3. Organizer(e) \in LockHosts(job[c]) /\ Placing(c)
        BY <1>2, <4>1, <4>2, JobOf DEF Placing, Deciding
      <4> QED BY <1>3, <3>1, <3>3, <4>2, <4>3, Exclusive
    <3>5. At(e, t)' \in SUBSET At(e, t)
      BY <1>7, <3>4 DEF At
    <3>6. Cardinality(At(e, t)') <= Cardinality(At(e, t)) /\ IsFiniteSet(At(e, t)')
      BY <3>5, AtTypes, FS_Subset
    <3>7. CountConfirmedAt(e, t)' = Cardinality(At(e, t)')
      BY DEF CountConfirmedAt, At
    <3>8. Cardinality(At(e, t)') \in Nat
      BY <3>6, FS_CardinalityType
    <3>9. CountConfirmedAt(e, t) = Cardinality(At(e, t)) /\ Cardinality(At(e, t)) \in Nat
      BY AtTypes
    <3>10. CountConfirmedAt(e, t)' < Seats[e]
      BY <3>2, <3>3, <3>6, <3>7, <3>8, <3>9
    <3> QED BY <3>1, <3>2, <3>10
  <2> QED BY <1>2, <2>1, <2>2
<1> QED BY <1>9, <1>10, <1>11

\* How two overlapping bookings may come about, in either order.
Together(a, b) ==
  \/ SameSession(a, b)
  \/ bookings[a].start # bookings[b].start /\ (a \in unseen[b] \/ b \in unseen[a])
  \/ \A h \in HostsOfBooking(a) \cap HostsOfBooking(b) : CoHost(h, a) \/ CoHost(h, b)

\* What a call places overlaps others in those ways only.
LEMMA PlacedApart ==
  ASSUME Fit, NEW c \in Calls, Record(c), PlaceFits(c), NEW b \in Calls, b = About(c),
         NEW a \in Calls, a # b, Confirmed(a)', Confirmed(b)', SlotsOf(a)' \cap SlotsOf(b)' # {}
  PROVE  Together(a, b)'
<1> DEFINE e == TypeOf(job[c])
<1>1. job[c].do \in {"create", "move"} /\ Placing(c) /\ pc[c] = "recording"
  BY RecordWrites DEF Placing, Deciding
<1>2. SeenFits(c) /\ MissedFits(c) /\ OfferFits(c)
  BY <1>1 DEF PlaceFits
<1>3. /\ bookings'[b].type = e /\ bookings'[b].start = job[c].start
      /\ SlotsOf(b)' = Span(e, job[c].start) /\ job[c].start \in GridStarts(e)
      /\ unseen'[b] = missed[c]
  BY <1>1, RecordWrites
<1>4. /\ Confirmed(a) /\ SlotsOf(a)' = SlotsOf(a) /\ HostsOfBooking(a)' = HostsOfBooking(a)
      /\ bookings'[a] = bookings[a] /\ \A h : CoHost(h, a) => CoHost(h, a)'
  BY OtherBookings
<1>5. Span(e, job[c].start) \cap busy[c] = {}
  BY <1>1, <1>2 DEF OfferFits
\* The hosts it did not lock are the co-hosts of a booking it moves.
<1>6. ASSUME NEW h \in HostsOfBooking(b)', h \notin LockHosts(job[c]) PROVE CoHost(h, b)'
  <2>1. job[c].do = "move" /\ LockHosts(job[c]) = {Organizer(e)} /\ b \in shifted'
    BY <1>1, <1>3, <1>6, RecordWrites
  <2> QED BY <1>3, <1>6, <2>1 DEF CoHost
<1>7. CASE a \notin missed[c]
  <2>1. CASE OwnSession(c, a)
    <3>1. bookings[a].type = e /\ IsGroup(e)
      BY <1>1, <2>1, RecordWrites, JobOf DEF OwnSession
    <3>2. bookings[a].start \in GridStarts(e) /\ e \in Types
      BY <1>1, <1>4, <3>1, RecordWrites, JobOf DEF Fit, BookingsFit, Confirmed
    <3>3. Span(e, bookings[a].start) \cap Span(e, job[c].start) # {}
      BY <1>3, <1>4, <3>1 DEF SlotsOf
    <3>4. /\ LengthOf[e] \in Nat \ {0} /\ bookings[a].start \in Nat /\ job[c].start \in Nat
          /\ bookings[a].start % LengthOf[e] = 0 /\ job[c].start % LengthOf[e] = 0
      BY <1>3, <3>2, TypesAreSane DEF GridStarts
    <3>5. bookings[a].start = job[c].start
      BY <3>3, <3>4, GridApart DEF Span
    <3> QED BY <1>3, <1>4, <3>1, <3>5 DEF Together, SameSession
  <2>2. CASE ~OwnSession(c, a)
    <3>1. Common(c, a) = {}
      BY <1>2, <1>3, <1>4, <1>5, <1>7, <2>2 DEF SeenFits
    <3>2. ASSUME NEW h \in HostsOfBooking(a)' \cap HostsOfBooking(b)' PROVE CoHost(h, b)'
      BY <1>4, <1>6, <3>1 DEF Common
    <3> QED BY <3>2 DEF Together
  <2> QED BY <2>1, <2>2
<1>8. CASE a \in missed[c] /\ bookings[a].start # job[c].start
  BY <1>3, <1>4, <1>8 DEF Together
<1>9. CASE a \in missed[c] /\ bookings[a].start = job[c].start
  <2>1. ASSUME NEW h \in HostsOfBooking(a)' \cap HostsOfBooking(b)' PROVE CoHost(h, a)' \/ CoHost(h, b)'
    BY <1>2, <1>4, <1>6, <1>9 DEF MissedFits, Common
  <2> QED BY <2>1 DEF Together
<1> QED BY <1>7, <1>8, <1>9

\* A group session is written within its seats.
LEMMA PlacedSeats ==
  ASSUME Fit, NEW c \in Calls, Record(c), PlaceFits(c), HostsHeldOnce,
         NEW e \in Types, IsGroup(e), NEW t \in Slots
  PROVE  CountConfirmedAt(e, t)' <= Seats[e]
<1>1. PICK b \in Calls : b = About(c)
  BY RecordWrites
<1>2. Seats[e] \in Nat /\ Seats[e] > 0
  BY TypesAreSane DEF IsGroup
<1>3. /\ CountConfirmedAt(e, t) <= Seats[e] /\ IsFiniteSet(At(e, t))
      /\ CountConfirmedAt(e, t) = Cardinality(At(e, t)) /\ Cardinality(At(e, t)) \in Nat
  BY AtTypes DEF HostsHeldOnce
<1>4. CountConfirmedAt(e, t)' = Cardinality(At(e, t)')
  BY DEF CountConfirmedAt, At
<1>5. ASSUME NEW a \in Calls, a # b
      PROVE  (Confirmed(a)' <=> Confirmed(a)) /\ bookings'[a] = bookings[a]
  BY <1>1, <1>5, OtherBookings
<1>6. CASE ~(Confirmed(b)' /\ bookings'[b].type = e /\ bookings'[b].start = t)
  <2>1. At(e, t)' \in SUBSET At(e, t)
    BY <1>5, <1>6 DEF At
  <2>2. Cardinality(At(e, t)') <= Cardinality(At(e, t)) /\ IsFiniteSet(At(e, t)')
    BY <1>3, <2>1, FS_Subset
  <2>3. Cardinality(At(e, t)') \in Nat
    BY <2>2, FS_CardinalityType
  <2> QED BY <1>2, <1>3, <1>4, <2>2, <2>3
<1>7. CASE Confirmed(b)' /\ bookings'[b].type = e /\ bookings'[b].start = t
  <2>1. /\ job[c].do \in {"create", "move"} /\ TypeOf(job[c]) = e /\ job[c].start = t
        /\ Placing(c) /\ pc[c] = "recording" /\ t \in GridStarts(e)
    BY <1>1, <1>7, RecordWrites DEF Placing, Deciding
  <2>2. SeenFits(c) /\ MissedFits(c) /\ OfferFits(c)
    BY <2>1 DEF PlaceFits
  <2>3. CASE job[c].do = "create"
    <3>1. CountConfirmedAt(e, t) < Seats[e]
      <4>1. job[c].type = e
        BY <2>1, <2>3, JobOf
      <4> QED BY <2>1, <2>2, <2>3, <4>1 DEF OfferFits
    <3>2. At(e, t)' \in SUBSET (At(e, t) \cup {b})
      BY <1>5 DEF At
    <3>3. /\ IsFiniteSet(At(e, t) \cup {b})
          /\ Cardinality(At(e, t) \cup {b}) =
                IF b \in At(e, t) THEN Cardinality(At(e, t)) ELSE Cardinality(At(e, t)) + 1
      BY <1>3, FS_AddElement
    <3>4. Cardinality(At(e, t)') <= Cardinality(At(e, t) \cup {b}) /\ IsFiniteSet(At(e, t)')
      BY <3>2, <3>3, FS_Subset
    <3>5. Cardinality(At(e, t)') \in Nat
      BY <3>4, FS_CardinalityType
    <3> QED BY <1>2, <1>3, <1>4, <3>1, <3>3, <3>4, <3>5
  \* A move reads its own type too, so nobody else sits where it goes.
  <2>4. CASE job[c].do = "move"
    <3>1. ASSUME NEW a \in Calls, a # b, Confirmed(a), bookings[a].type = e, bookings[a].start = t
          PROVE  FALSE
      <4>1. HostsOfBooking(a) = {Organizer(e)} /\ LockHosts(job[c]) = {Organizer(e)}
        BY <2>1, <2>4, <3>1, JobOf DEF HostsOfBooking
      <4>2. Organizer(e) \in Common(c, a)
        BY <4>1 DEF Common
      <4>3. ~CoHost(Organizer(e), a) /\ ~OwnSession(c, a)
        BY <2>4, <3>1 DEF CoHost, OwnSession
      <4>4. a \notin missed[c]
        BY <2>1, <2>2, <3>1, <4>2, <4>3 DEF MissedFits
      <4>5. SlotsOf(a) \subseteq busy[c] /\ SlotsOf(a) = Span(e, t)
        BY <1>1, <2>2, <3>1, <4>2, <4>3, <4>4 DEF SeenFits, SlotsOf
      <4>6. Span(e, t) \cap busy[c] = {}
        BY <2>1, <2>2 DEF OfferFits
      <4>7. t \in Span(e, t)
        <5>1. t \in Nat /\ LengthOf[e] \in Nat \ {0}
          BY TypesAreSane
        <5> QED BY <5>1 DEF Span
      <4> QED BY <4>5, <4>6, <4>7
    <3>2. At(e, t)' \in SUBSET {b}
      BY <1>5, <3>1 DEF At
    <3>3. IsFiniteSet({b}) /\ Cardinality({b}) = 1
      BY FS_Singleton
    <3>4. Cardinality(At(e, t)') <= 1 /\ IsFiniteSet(At(e, t)')
      BY <3>2, <3>3, FS_Subset
    <3>5. Cardinality(At(e, t)') \in Nat
      BY <3>4, FS_CardinalityType
    <3> QED BY <1>2, <1>4, <3>4, <3>5
  <2> QED BY <2>1, <2>3, <2>4
<1> QED BY <1>6, <1>7

LEMMA HeldStep ==
  ASSUME Fit, NEW c \in Calls, Record(c), PlaceFits(c), HostsHeldOnce
  PROVE  HostsHeldOnce'
<1>1. PICK b \in Calls : b = About(c)
  BY RecordWrites
<1>2. ASSUME NEW x \in Calls, NEW y \in Calls, x # b, y # b, Overlapping(x, y)'
      PROVE  Together(x, y)'
  <2>1. /\ Confirmed(x)' <=> Confirmed(x)
        /\ SlotsOf(x)' = SlotsOf(x) /\ HostsOfBooking(x)' = HostsOfBooking(x)
        /\ bookings'[x] = bookings[x] /\ \A h : CoHost(h, x) => CoHost(h, x)'
    BY <1>1, <1>2, OtherBookings
  <2>2. /\ Confirmed(y)' <=> Confirmed(y)
        /\ SlotsOf(y)' = SlotsOf(y) /\ HostsOfBooking(y)' = HostsOfBooking(y)
        /\ bookings'[y] = bookings[y] /\ \A h : CoHost(h, y) => CoHost(h, y)'
    BY <1>1, <1>2, OtherBookings
  <2>3. unseen'[x] = unseen[x] /\ unseen'[y] = unseen[y]
    BY <1>1, <1>2, RecordWrites
  <2>4. Overlapping(x, y)
    BY <1>2, <2>1, <2>2 DEF Overlapping
  <2>5. Together(x, y)
    BY <2>4 DEF HostsHeldOnce, Together
  <2>6. CASE SameSession(x, y)
    BY <2>1, <2>2, <2>6 DEF Together, SameSession
  <2>7. CASE bookings[x].start # bookings[y].start /\ (x \in unseen[y] \/ y \in unseen[x])
    BY <2>1, <2>2, <2>3, <2>7 DEF Together
  <2>8. CASE \A h \in HostsOfBooking(x) \cap HostsOfBooking(y) : CoHost(h, x) \/ CoHost(h, y)
    BY <2>1, <2>2, <2>8 DEF Together
  <2> QED BY <2>5, <2>6, <2>7, <2>8 DEF Together
<1>3. ASSUME NEW a \in Calls, a # b, Confirmed(a)', Confirmed(b)', SlotsOf(a)' \cap SlotsOf(b)' # {}
      PROVE  Together(a, b)'
  BY <1>1, <1>3, PlacedApart
<1>4. ASSUME NEW a \in Calls, Together(a, b)' PROVE Together(b, a)'
  BY <1>4 DEF Together, SameSession
<1>5. ASSUME NEW x \in Calls, NEW y \in Calls, Overlapping(x, y)' PROVE Together(x, y)'
  <2>1. x # y /\ Confirmed(x)' /\ Confirmed(y)' /\ SlotsOf(x)' \cap SlotsOf(y)' # {}
    BY <1>5 DEF Overlapping
  <2>2. CASE x # b /\ y # b
    BY <1>2, <1>5, <2>2
  <2>3. CASE y = b
    BY <1>3, <2>1, <2>3
  <2>4. CASE x = b
    <3>1. SlotsOf(y)' \cap SlotsOf(x)' # {}
      BY <2>1
    <3> QED BY <1>3, <1>4, <2>1, <2>4, <3>1
  <2> QED BY <2>2, <2>3, <2>4
<1>6. \A e \in Types : IsGroup(e) => \A t \in Slots : CountConfirmedAt(e, t)' <= Seats[e]
  BY PlacedSeats
<1> QED BY <1>5, <1>6 DEF HostsHeldOnce, Together

\* No host is in two confirmed meetings at once and no group session holds more than its seats:
\* what a call reads under its locks leaves out only what others place at other starts
\* meanwhile, or a booking moved onto its co-hosts (withHostStartLocks, extraBusy).
THEOREM HostsHeld == Spec => []HostsHeldOnce
<1> DEFINE I == Fit /\ (\A c \in Calls : PlaceFits(c)) /\ HostsHeldOnce
<1>1. Init => I
  <2> SUFFICES ASSUME Init PROVE I
    OBVIOUS
  <2>1. \A c \in Calls : PlaceFits(c)
    BY DEF Init, PlaceFits, Placing, Deciding
  <2>2. \A c \in Calls : ~Confirmed(c)
    BY DEF Init, Confirmed
  <2>3. ASSUME NEW e \in Types, NEW t \in Slots PROVE CountConfirmedAt(e, t) <= Seats[e]
    <3>1. At(e, t) = {}
      BY <2>2 DEF At
    <3>2. CountConfirmedAt(e, t) = 0
      BY <3>1, AtTypes, FS_EmptySet
    <3> QED BY <3>2, TypesAreSane
  <2>4. HostsHeldOnce
    BY <2>2, <2>3 DEF HostsHeldOnce, Overlapping
  <2> QED BY <2>1, <2>4, InitFit
<1>2. I /\ [Next]_vars => I'
  <2> SUFFICES ASSUME I, [Next]_vars PROVE I'
    OBVIOUS
  <2>1. CASE Next
    <3>1. PICK c \in Calls : Steps(c)
      BY <2>1, EveryStep
    <3>2. CASE Record(c)
      <4>1. \A x \in Calls : PlaceFits(x)'
        BY <3>2, PlaceSeesRecord
      <4>2. HostsHeldOnce'
        BY <3>2, HeldStep
      <4> QED BY <4>1, <4>2, FitKept
    <3>3. CASE ~Record(c)
      <4>1. ASSUME NEW x \in Calls PROVE PlaceFits(x)' /\ UNCHANGED <<bookings, unseen, shifted>>
        BY <3>1, <3>3, PlaceQuiet
      <4>2. HostsHeldOnce'
        BY <4>1, HeldElsewhere
      <4> QED BY <4>1, <4>2, FitKept
    <3> QED BY <3>2, <3>3
  <2>2. CASE UNCHANGED vars
    <3>1. UNCHANGED <<job, pc, busy, missed, bookings, unseen, shifted>>
      BY <2>2 DEF vars
    <3>2. ASSUME NEW x \in Calls PROVE PlaceFits(x)'
      BY <3>1, PlaceElsewhere
    <3>3. HostsHeldOnce'
      BY <3>1, HeldElsewhere
    <3> QED BY <3>2, <3>3, FitKept
  <2> QED BY <2>1, <2>2
<1>3. I => HostsHeldOnce
  OBVIOUS
<1> QED BY <1>1, <1>2, <1>3, PTL DEF Spec
=============================================================================
