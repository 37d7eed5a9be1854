------------------------ MODULE DeliveryLedgerProofs ------------------------
(***************************************************************************)
(* What DeliveryLedger promises for any number of calls and of changes.    *)
(*                                                                         *)
(* The bound on copies is not inductive: an attempt may still turn into a  *)
(* copy.  Budget charges each attempt to what it has become or may become: *)
(* a copy, a claim in flight, a refusal not written yet, or the failure    *)
(* that is written.  OneHolder says no generation is held twice, which is  *)
(* why settling the latest one leaves nobody sending on it.                *)
(***************************************************************************)
EXTENDS DeliveryLedger, FiniteSetTheorems, TLAPS

\* The state after a step of a call, as far as the delivery rows go.
LEMMA GrantEffect ==
  ASSUME TypeOK, NEW ks \in SUBSET Keys, Grant(ks)
  PROVE  /\ state' \in [Keys -> {"none", "claimed", "sent", "failed"}]
         /\ attempts' \in [Keys -> Nat]
         /\ stale' \subseteq Keys
         /\ \A k \in ks : state'[k] = "claimed" /\ attempts'[k] = attempts[k] + 1
         /\ \A k \in Keys \ ks : state'[k] = state[k] /\ attempts'[k] = attempts[k]
  BY DEF TypeOK, Grant

LEMMA ClaimsTyped ==
  ASSUME TypeOK, NEW c \in Callers, NEW ks \in SUBSET Keys
  PROVE  ClaimsFor(c, ks) \subseteq Callers \X Keys \X (Nat \ {0})
<1>1. \A k \in ks : attempts[k] + 1 \in Nat \ {0}
  BY DEF TypeOK
<1>2. QED
  BY <1>1 DEF ClaimsFor

LEMMA GmailTyped ==
  ASSUME TypeOK, NEW c \in Callers, NEW k \in Keys, NEW g \in Nat \ {0}, GmailAnswers(c, k, g)
  PROVE  /\ copies' \in [Keys -> Nat]
         /\ settling' \subseteq Callers \X Keys \X (Nat \ {0}) \X {"sent", "failed"}
  BY DEF TypeOK, GmailAnswers, CopySent

LEMMA TypeStep == ASSUME TypeOK, [Next]_vars PROVE TypeOK'
<1>1. ASSUME NEW c \in Callers, Claim(c) PROVE TypeOK'
  <2>1. PICK ks \in SUBSET Keys : Grant(ks) /\ claims' = claims \cup ClaimsFor(c, ks)
    BY <1>1 DEF Claim
  <2>2. claims' \subseteq Callers \X Keys \X (Nat \ {0})
    BY <2>1, ClaimsTyped DEF TypeOK
  <2>3. QED
    BY <1>1, <2>1, <2>2, GrantEffect DEF Claim, Goto, TypeOK
<1>2. ASSUME NEW c \in Callers, ClaimLost(c) PROVE TypeOK'
  <2>1. CASE UNCHANGED ledger
    BY <1>2, <2>1 DEF ClaimLost, Goto, TypeOK, ledger
  <2>2. CASE Grant({k \in Keys : k[1] = PairOf(c) /\ Claimable(k)})
    BY <1>2, <2>2, GrantEffect DEF ClaimLost, Goto, TypeOK
  <2>3. QED
    BY <1>2, <2>1, <2>2 DEF ClaimLost
<1>3. ASSUME NEW c \in Callers, Send(c) PROVE TypeOK'
  <2>1. PICK d \in claims : claims' = claims \ {d} /\ GmailAnswers(c, d[2], d[3])
    BY <1>3 DEF Send
  <2>2. d[2] \in Keys /\ d[3] \in Nat \ {0}
    BY <2>1 DEF TypeOK
  <2>3. QED
    BY <1>3, <2>1, <2>2, GmailTyped DEF Send, TypeOK, ledger
<1>4. ASSUME NEW c \in Callers, Settle(c) PROVE TypeOK'
  <2>1. PICK s \in settling : /\ settling' = settling \ {s}
                              /\ Finalize(s[2], s[3], s[4]) \/ UNCHANGED state
    BY <1>4 DEF Settle
  <2>2. s[2] \in Keys /\ s[4] \in {"sent", "failed"}
    BY <2>1 DEF TypeOK
  <2>3. state' \in [Keys -> {"none", "claimed", "sent", "failed"}]
    BY <2>1, <2>2 DEF TypeOK, Finalize
  <2>4. QED
    BY <1>4, <2>1, <2>3 DEF Settle, TypeOK
<1>5. ASSUME NEW c \in Callers, Begin(c) \/ ClaimRefused(c) \/ Return(c) PROVE TypeOK'
  <2>1. CASE Begin(c)
    <3>1. PICK p \in 0 .. current : expected' = [expected EXCEPT ![c] = p]
      BY <2>1 DEF Begin
    <3>2. p \in 0 .. Pairs
      BY PairsCounted DEF TypeOK
    <3>3. expected' \in [Callers -> 0 .. Pairs]
      BY <3>1, <3>2 DEF TypeOK
    <3>4. QED
      BY <2>1, <3>3 DEF Begin, Goto, TypeOK, ledger
  <2>2. CASE ClaimRefused(c) \/ Return(c)
    BY <2>2 DEF ClaimRefused, Return, Goto, TypeOK, ledger
  <2>3. QED
    BY <1>5, <2>1, <2>2
<1>6. ASSUME Advance \/ \E k \in Keys : ClaimGoesStale(k) PROVE TypeOK'
  BY <1>6, PairsCounted DEF Advance, ClaimGoesStale, TypeOK, ledger
<1>7. CASE UNCHANGED vars
  BY <1>7 DEF vars, TypeOK
<1>8. QED
  BY <1>1, <1>2, <1>3, <1>4, <1>5, <1>6, <1>7 DEF Next, CallStep

LEMMA TypeInit == Init => TypeOK
  BY PairsCounted DEF Init, TypeOK

\* The ledger and the calls stay in their types.
THEOREM LedgerTyping == Spec => []TypeOK
  BY TypeInit, TypeStep, PTL DEF Spec

-----------------------------------------------------------------------------
\* Claims in flight and refusals not written yet, of one delivery.
InFlight(k) == {d \in claims : d[2] = k}
Refusals(k) == {s \in settling : s[2] = k /\ s[4] = "failed"}

Charged(k) ==
  copies[k] + Cardinality(InFlight(k)) + Cardinality(Refusals(k))
    + (IF state[k] = "failed" THEN 1 ELSE 0)

\* One more element adds at most one to a finite set.
LEMMA AtMostOneMore ==
  ASSUME NEW S, NEW x, IsFiniteSet(S)
  PROVE  /\ IsFiniteSet(S \cup {x})
         /\ Cardinality(S) \in Nat /\ Cardinality(S \cup {x}) \in Nat
         /\ Cardinality(S \cup {x}) <= Cardinality(S) + 1
<1>1. Cardinality(S) \in Nat
  BY FS_CardinalityType
<1>2. IsFiniteSet(S \cup {x}) /\ Cardinality(S \cup {x}) \in {Cardinality(S), Cardinality(S) + 1}
  BY FS_AddElement
<1>3. QED
  BY <1>1, <1>2

\* A delivery within its attempts: what Budget says of one.
Within(k) ==
  /\ IsFiniteSet(InFlight(k)) /\ IsFiniteSet(Refusals(k))
  /\ Charged(k) <= attempts[k]

\* A delivery none of whose charges grew is still within its attempts.
LEMMA WithinKept ==
  ASSUME TypeOK, NEW k \in Keys, Within(k),
         InFlight(k)' \subseteq InFlight(k), Refusals(k)' \subseteq Refusals(k),
         copies'[k] = copies[k], attempts'[k] = attempts[k],
         state'[k] = "failed" => state[k] = "failed"
  PROVE  Within(k)'
<1>1. /\ IsFiniteSet(InFlight(k)')
      /\ Cardinality(InFlight(k)') <= Cardinality(InFlight(k))
      /\ Cardinality(InFlight(k)) \in Nat /\ Cardinality(InFlight(k)') \in Nat
  BY FS_Subset, FS_CardinalityType DEF Within
<1>2. /\ IsFiniteSet(Refusals(k)')
      /\ Cardinality(Refusals(k)') <= Cardinality(Refusals(k))
      /\ Cardinality(Refusals(k)) \in Nat /\ Cardinality(Refusals(k)') \in Nat
  BY FS_Subset, FS_CardinalityType DEF Within
<1>3. copies[k] \in Nat /\ attempts[k] \in Nat
  BY DEF TypeOK
<1>4. Charged(k)' <= attempts'[k]
  BY <1>1, <1>2, <1>3 DEF Within, Charged
<1>5. QED
  BY <1>1, <1>2, <1>4 DEF Within

\* A grant pays for the claim it puts in flight with the attempt it counts.
LEMMA WithinGranted ==
  ASSUME TypeOK, NEW c \in Callers, NEW ks \in SUBSET Keys, Grant(ks),
         claims' = claims \cup ClaimsFor(c, ks), UNCHANGED <<settling, copies>>,
         NEW k \in Keys, Within(k)
  PROVE  Within(k)'
<1>1. CASE k \notin ks
  <2>1. InFlight(k)' = InFlight(k) /\ Refusals(k)' = Refusals(k)
    BY <1>1 DEF InFlight, Refusals, ClaimsFor
  <2>2. state'[k] = state[k] /\ attempts'[k] = attempts[k]
    BY <1>1, GrantEffect
  <2>3. QED
    BY <2>1, <2>2, WithinKept
<1>2. CASE k \in ks
  <2>1. InFlight(k)' = InFlight(k) \cup {<<c, k, attempts[k] + 1>>}
    BY <1>2 DEF InFlight, ClaimsFor
  <2>2. /\ IsFiniteSet(InFlight(k)')
        /\ Cardinality(InFlight(k)') <= Cardinality(InFlight(k)) + 1
        /\ Cardinality(InFlight(k)) \in Nat /\ Cardinality(InFlight(k)') \in Nat
    BY <2>1, AtMostOneMore DEF Within
  <2>3. Refusals(k)' = Refusals(k)
    BY DEF Refusals
  <2>4. Cardinality(Refusals(k)) \in Nat
    BY FS_CardinalityType DEF Within
  <2>5. state'[k] = "claimed" /\ attempts'[k] = attempts[k] + 1
    BY <1>2, GrantEffect
  <2>6. copies[k] \in Nat /\ attempts[k] \in Nat
    BY DEF TypeOK
  <2>7. Charged(k)' <= attempts'[k]
    BY <2>2, <2>3, <2>4, <2>5, <2>6 DEF Within, Charged
  <2>8. QED
    BY <2>2, <2>3, <2>7 DEF Within
<1>3. QED
  BY <1>1, <1>2

\* Gmail's answer turns a claim in flight into at most one copy or one refusal.
LEMMA WithinSent ==
  ASSUME TypeOK, NEW c \in Callers, NEW d \in claims, claims' = claims \ {d},
         GmailAnswers(c, d[2], d[3]), UNCHANGED <<state, attempts>>,
         NEW k \in Keys, Within(k)
  PROVE  Within(k)'
<1>1. CASE d[2] # k
  <2>1. InFlight(k)' = InFlight(k) /\ Refusals(k)' = Refusals(k)
    BY <1>1 DEF InFlight, Refusals, GmailAnswers
  <2>2. copies'[k] = copies[k]
    BY <1>1 DEF GmailAnswers, CopySent, TypeOK
  <2>3. QED
    BY <2>1, <2>2, WithinKept
<1>2. CASE d[2] = k
  <2>1. InFlight(k)' = InFlight(k) \ {d} /\ d \in InFlight(k)
    BY <1>2 DEF InFlight
  <2>2. /\ IsFiniteSet(InFlight(k)')
        /\ Cardinality(InFlight(k)') = Cardinality(InFlight(k)) - 1
        /\ Cardinality(InFlight(k)) \in Nat
    BY <2>1, FS_RemoveElement, FS_CardinalityType DEF Within
  <2>3. copies[k] \in Nat /\ attempts[k] \in Nat /\ Cardinality(Refusals(k)) \in Nat
    BY FS_CardinalityType DEF TypeOK, Within
  <2>4. CASE copies' = copies /\ settling' = settling \cup {<<c, k, d[3], "failed">>}
    <3>1. Refusals(k)' = Refusals(k) \cup {<<c, k, d[3], "failed">>}
      BY <2>4 DEF Refusals
    <3>2. /\ IsFiniteSet(Refusals(k)')
          /\ Cardinality(Refusals(k)') <= Cardinality(Refusals(k)) + 1
          /\ Cardinality(Refusals(k)') \in Nat
      BY <3>1, AtMostOneMore DEF Within
    <3>3. Charged(k)' <= attempts'[k]
      BY <2>2, <2>3, <2>4, <3>2 DEF Within, Charged
    <3>4. QED
      BY <2>2, <3>2, <3>3 DEF Within
  <2>5. CASE /\ copies'[k] \in {copies[k], copies[k] + 1}
             /\ settling' \in {settling, settling \cup {<<c, k, d[3], "sent">>}}
    <3>1. Refusals(k)' = Refusals(k)
      BY <2>5 DEF Refusals
    <3>2. Charged(k)' <= attempts'[k]
      BY <2>2, <2>3, <2>5, <3>1 DEF Within, Charged
    <3>3. QED
      BY <2>2, <3>1, <3>2 DEF Within
  <2>6. QED
    BY <1>2, <2>4, <2>5 DEF GmailAnswers, CopySent, TypeOK
<1>3. QED
  BY <1>1, <1>2

\* Writing an answer down, or failing to, charges nothing twice.
LEMMA WithinSettled ==
  ASSUME TypeOK, NEW s \in settling, settling' = settling \ {s},
         Finalize(s[2], s[3], s[4]) \/ UNCHANGED state,
         UNCHANGED <<claims, copies, attempts>>,
         NEW k \in Keys, Within(k)
  PROVE  Within(k)'
<1>1. InFlight(k)' = InFlight(k) /\ Refusals(k)' \subseteq Refusals(k)
  BY DEF InFlight, Refusals
<1>2. CASE state'[k] = "failed" /\ state[k] # "failed"
  <2>1. s[2] = k /\ s[4] = "failed" /\ state[k] = "claimed"
    BY <1>2 DEF Finalize, TypeOK
  <2>2. Refusals(k)' = Refusals(k) \ {s} /\ s \in Refusals(k)
    BY <2>1 DEF Refusals
  <2>3. /\ IsFiniteSet(Refusals(k)')
        /\ Cardinality(Refusals(k)') = Cardinality(Refusals(k)) - 1
        /\ Cardinality(Refusals(k)) \in Nat
    BY <2>2, FS_RemoveElement, FS_CardinalityType DEF Within
  <2>4. copies[k] \in Nat /\ attempts[k] \in Nat /\ Cardinality(InFlight(k)) \in Nat
    BY FS_CardinalityType DEF TypeOK, Within
  <2>5. Charged(k)' <= attempts'[k]
    BY <1>1, <1>2, <2>3, <2>4 DEF Within, Charged
  <2>6. QED
    BY <1>1, <2>3, <2>5 DEF Within
<1>3. CASE ~(state'[k] = "failed" /\ state[k] # "failed")
  BY <1>1, <1>3, WithinKept
<1>4. QED
  BY <1>2, <1>3

Budget == \A k \in Keys : Within(k)

LEMMA BudgetStep == ASSUME TypeOK, Budget, [Next]_vars PROVE Budget'
<1> SUFFICES ASSUME NEW k \in Keys PROVE Within(k)'
  BY DEF Budget
<1>1. Within(k)
  BY DEF Budget
<1>2. ASSUME NEW c \in Callers, Claim(c) PROVE Within(k)'
  <2>1. PICK ks \in SUBSET Keys : Grant(ks) /\ claims' = claims \cup ClaimsFor(c, ks)
    BY <1>2 DEF Claim
  <2>2. QED
    BY <1>1, <1>2, <2>1, WithinGranted DEF Claim
<1>3. ASSUME NEW ks \in SUBSET Keys, Grant(ks), UNCHANGED <<claims, settling, copies>>
      PROVE  Within(k)'
  <2>1. InFlight(k)' = InFlight(k) /\ Refusals(k)' = Refusals(k)
    BY <1>3 DEF InFlight, Refusals
  <2>2. copies[k] \in Nat /\ attempts[k] \in Nat
        /\ Cardinality(InFlight(k)) \in Nat /\ Cardinality(Refusals(k)) \in Nat
    BY <1>1, FS_CardinalityType DEF TypeOK, Within
  <2>3. /\ attempts'[k] \in {attempts[k], attempts[k] + 1}
        /\ state'[k] \in {state[k], "claimed"}
    BY <1>3, GrantEffect
  <2>4. copies'[k] = copies[k]
    BY <1>3
  <2>5. Charged(k)' <= attempts'[k]
    BY <1>1, <2>1, <2>2, <2>3, <2>4 DEF Within, Charged
  <2>6. QED
    BY <1>1, <2>1, <2>5 DEF Within
<1>4. ASSUME NEW c \in Callers, Send(c) PROVE Within(k)'
  <2>1. PICK d \in claims : claims' = claims \ {d} /\ d[1] = c /\ GmailAnswers(c, d[2], d[3])
    BY <1>4 DEF Send
  <2>2. QED
    BY <1>1, <1>4, <2>1, WithinSent DEF Send, ledger
<1>5. ASSUME NEW c \in Callers, Settle(c) PROVE Within(k)'
  <2>1. PICK s \in settling : /\ settling' = settling \ {s}
                              /\ Finalize(s[2], s[3], s[4]) \/ UNCHANGED state
    BY <1>5 DEF Settle
  <2>2. QED
    BY <1>1, <1>5, <2>1, WithinSettled DEF Settle
<1>6. ASSUME UNCHANGED <<state, attempts, claims, settling, copies>> PROVE Within(k)'
  <2>1. InFlight(k)' = InFlight(k) /\ Refusals(k)' = Refusals(k)
    BY <1>6 DEF InFlight, Refusals
  <2>2. QED
    BY <1>1, <1>6, <2>1, WithinKept
<1>7. ASSUME NEW c \in Callers, ClaimLost(c) PROVE Within(k)'
  BY <1>3, <1>6, <1>7 DEF ClaimLost, ledger
<1>8. ASSUME NEW c \in Callers, Begin(c) \/ ClaimRefused(c) \/ Return(c) PROVE Within(k)'
  BY <1>6, <1>8 DEF Begin, ClaimRefused, Return, ledger
<1>9. ASSUME Advance \/ (\E j \in Keys : ClaimGoesStale(j)) \/ UNCHANGED vars PROVE Within(k)'
  BY <1>6, <1>9 DEF Advance, ClaimGoesStale, ledger, vars
<1>10. QED
  BY <1>2, <1>4, <1>5, <1>7, <1>8, <1>9 DEF Next, CallStep

LEMMA BudgetInit == Init => Budget
<1> SUFFICES ASSUME Init, NEW k \in Keys PROVE Within(k)
  BY DEF Budget
<1>1. InFlight(k) = {} /\ Refusals(k) = {}
  BY DEF Init, InFlight, Refusals
<1>2. copies[k] = 0 /\ attempts[k] = 0 /\ state[k] = "none"
  BY DEF Init
<1>3. QED
  BY <1>1, <1>2, FS_EmptySet DEF Within, Charged

LEMMA BudgetBounds == ASSUME TypeOK, Budget PROVE CopiesBounded
<1> SUFFICES ASSUME NEW k \in Keys
             PROVE  /\ copies[k] <= attempts[k]
                    /\ state[k] = "failed" => copies[k] < attempts[k]
  BY DEF CopiesBounded
<1>1. /\ copies[k] \in Nat /\ attempts[k] \in Nat
      /\ Cardinality(InFlight(k)) \in Nat /\ Cardinality(Refusals(k)) \in Nat
  BY FS_CardinalityType DEF TypeOK, Budget, Within
<1>2. QED
  BY <1>1 DEF Budget, Within, Charged

\* A recipient never gets more copies of an email than attempts are recorded, however
\* many calls retry it, overtake each other and lose their answers (README, Duplicates).
THEOREM CopiesWithinAttempts == Spec => []CopiesBounded
<1>1. Spec => [](TypeOK /\ Budget)
  BY TypeInit, TypeStep, BudgetInit, BudgetStep, PTL DEF Spec
<1>2. QED
  BY <1>1, BudgetBounds, PTL
-----------------------------------------------------------------------------
\* No generation of a delivery is held by two calls, nor sent on again once Gmail has
\* answered, and none is ahead of the row.
OneHolder ==
  /\ \A d \in claims : d[3] <= attempts[d[2]]
  /\ \A s \in settling : s[3] <= attempts[s[2]]
  /\ \A d, e \in claims : d[2] = e[2] /\ d[3] = e[3] => d = e
  /\ \A d \in claims, s \in settling : ~(d[2] = s[2] /\ d[3] = s[3])

LEMMA OneHolderGranted ==
  ASSUME TypeOK, OneHolder, NEW c \in Callers, NEW ks \in SUBSET Keys, Grant(ks),
         claims' = claims \cup ClaimsFor(c, ks), UNCHANGED settling
  PROVE  OneHolder'
<1>1. \A k \in Keys : attempts[k] \in Nat /\ attempts'[k] \in {attempts[k], attempts[k] + 1}
  BY GrantEffect DEF TypeOK
<1>2. \A d \in ClaimsFor(c, ks) :
        d[2] \in ks /\ d[3] = attempts[d[2]] + 1 /\ d[3] = attempts'[d[2]] /\ d[1] = c /\ d = <<c, d[2], d[3]>>
  BY GrantEffect DEF ClaimsFor
<1>3. \A d \in claims : d[2] \in Keys /\ d[3] \in Nat /\ d[3] <= attempts[d[2]]
  BY DEF TypeOK, OneHolder
<1>4. \A s \in settling : s[2] \in Keys /\ s[3] \in Nat /\ s[3] <= attempts[s[2]]
  BY DEF TypeOK, OneHolder
<1>5. \A d \in claims' : d[3] <= attempts'[d[2]]
  BY <1>1, <1>2, <1>3
<1>6. \A s \in settling' : s[3] <= attempts'[s[2]]
  BY <1>1, <1>4
<1>7. ASSUME NEW d \in claims', NEW e \in claims', d[2] = e[2], d[3] = e[3] PROVE d = e
  BY <1>1, <1>2, <1>3, <1>7 DEF OneHolder
<1>8. ASSUME NEW d \in claims', NEW s \in settling', d[2] = s[2], d[3] = s[3] PROVE FALSE
  BY <1>1, <1>2, <1>4, <1>8 DEF OneHolder
<1>9. QED
  BY <1>5, <1>6, <1>7, <1>8 DEF OneHolder

LEMMA OneHolderStep == ASSUME TypeOK, OneHolder, [Next]_vars PROVE OneHolder'
<1>1. ASSUME NEW c \in Callers, Claim(c) PROVE OneHolder'
  BY <1>1, OneHolderGranted DEF Claim
<1>2. ASSUME UNCHANGED attempts, claims' \subseteq claims, settling' \subseteq settling PROVE OneHolder'
  BY <1>2 DEF OneHolder
<1>3. ASSUME NEW c \in Callers, ClaimLost(c) PROVE OneHolder'
  <2>1. CASE UNCHANGED ledger
    BY <1>2, <1>3, <2>1 DEF ClaimLost, ledger
  <2>2. CASE Grant({k \in Keys : k[1] = PairOf(c) /\ Claimable(k)})
    <3>1. \A k \in Keys : attempts[k] \in Nat /\ attempts'[k] \in {attempts[k], attempts[k] + 1}
      BY <2>2, GrantEffect DEF TypeOK
    <3>2. UNCHANGED <<claims, settling>>
      BY <1>3 DEF ClaimLost
    <3>3. ASSUME NEW d \in claims PROVE d[3] <= attempts'[d[2]]
      <4>1. d[2] \in Keys /\ d[3] \in Nat /\ d[3] <= attempts[d[2]]
        BY DEF TypeOK, OneHolder
      <4>2. QED
        BY <3>1, <4>1
    <3>4. ASSUME NEW s \in settling PROVE s[3] <= attempts'[s[2]]
      <4>1. s[2] \in Keys /\ s[3] \in Nat /\ s[3] <= attempts[s[2]]
        BY DEF TypeOK, OneHolder
      <4>2. QED
        BY <3>1, <4>1
    <3>5. QED
      BY <3>2, <3>3, <3>4 DEF OneHolder
  <2>3. QED
    BY <1>3, <2>1, <2>2 DEF ClaimLost
<1>4. ASSUME NEW c \in Callers, Send(c) PROVE OneHolder'
  <2>1. PICK d \in claims : claims' = claims \ {d} /\ d[1] = c /\ GmailAnswers(c, d[2], d[3])
    BY <1>4 DEF Send
  <2>2. /\ claims' \subseteq claims /\ UNCHANGED attempts
        /\ \A s \in settling' : s \in settling \/ (s[2] = d[2] /\ s[3] = d[3])
    BY <1>4, <2>1 DEF Send, ledger, GmailAnswers
  <2>3. \A e \in claims' : ~(e[2] = d[2] /\ e[3] = d[3])
    BY <2>1 DEF OneHolder
  <2>4. QED
    BY <2>1, <2>2, <2>3 DEF OneHolder
<1>5. ASSUME NEW c \in Callers, Settle(c) PROVE OneHolder'
  BY <1>2, <1>5 DEF Settle
<1>6. ASSUME NEW c \in Callers, Begin(c) \/ ClaimRefused(c) \/ Return(c) PROVE OneHolder'
  BY <1>2, <1>6 DEF Begin, ClaimRefused, Return, ledger
<1>7. ASSUME Advance \/ (\E j \in Keys : ClaimGoesStale(j)) \/ UNCHANGED vars PROVE OneHolder'
  BY <1>2, <1>7 DEF Advance, ClaimGoesStale, ledger, vars
<1>8. QED
  BY <1>1, <1>3, <1>4, <1>5, <1>6, <1>7 DEF Next, CallStep

LEMMA SettledStep ==
  ASSUME TypeOK, OneHolder, SettledByLatest, [Next]_vars PROVE SettledByLatest'
<1>1. ASSUME NEW ks \in SUBSET Keys, Grant(ks), NEW c \in Callers,
             claims' \subseteq claims \cup ClaimsFor(c, ks)
      PROVE  SettledByLatest'
  <2>1. SUFFICES ASSUME NEW d \in claims', state'[d[2]] \in {"sent", "failed"}
                 PROVE  d[3] < attempts'[d[2]]
    BY DEF SettledByLatest
  <2>2. d[2] \in Keys
    BY <1>1, ClaimsTyped DEF TypeOK
  <2>3. d[2] \notin ks
    BY <1>1, <2>1, GrantEffect
  <2>4. d \in claims /\ state'[d[2]] = state[d[2]] /\ attempts'[d[2]] = attempts[d[2]]
    BY <1>1, <2>2, <2>3, GrantEffect DEF ClaimsFor
  <2>5. QED
    BY <2>1, <2>4 DEF SettledByLatest
<1>2. ASSUME claims' \subseteq claims, UNCHANGED <<state, attempts>> PROVE SettledByLatest'
  BY <1>2 DEF SettledByLatest
<1>3. ASSUME NEW c \in Callers, Claim(c) PROVE SettledByLatest'
  BY <1>1, <1>3 DEF Claim
<1>4. ASSUME NEW c \in Callers, ClaimLost(c) PROVE SettledByLatest'
  BY <1>1, <1>2, <1>4 DEF ClaimLost, ledger
<1>5. ASSUME NEW c \in Callers, Send(c) PROVE SettledByLatest'
  BY <1>2, <1>5 DEF Send, ledger
<1>6. ASSUME NEW c \in Callers, Settle(c) PROVE SettledByLatest'
  <2>1. PICK s \in settling : Finalize(s[2], s[3], s[4]) \/ UNCHANGED state
    BY <1>6 DEF Settle
  <2>2. UNCHANGED <<claims, attempts>>
    BY <1>6 DEF Settle
  <2>3. CASE UNCHANGED state
    BY <1>2, <2>2, <2>3
  <2>4. CASE attempts[s[2]] = s[3] /\ state' = [state EXCEPT ![s[2]] = s[4]]
    <3>1. SUFFICES ASSUME NEW d \in claims, state'[d[2]] \in {"sent", "failed"}
                   PROVE  d[3] < attempts[d[2]]
      BY <2>2 DEF SettledByLatest
    <3>2. d[2] \in Keys /\ d[3] \in Nat /\ attempts[d[2]] \in Nat /\ d[3] <= attempts[d[2]]
      BY DEF TypeOK, OneHolder
    <3>3. CASE d[2] = s[2]
      BY <2>4, <3>2, <3>3 DEF OneHolder
    <3>4. CASE d[2] # s[2]
      BY <2>4, <3>1, <3>2, <3>4 DEF SettledByLatest, TypeOK
    <3>5. QED
      BY <3>3, <3>4
  <2>5. QED
    BY <2>1, <2>3, <2>4 DEF Finalize
<1>7. ASSUME NEW c \in Callers, Begin(c) \/ ClaimRefused(c) \/ Return(c) PROVE SettledByLatest'
  BY <1>2, <1>7 DEF Begin, ClaimRefused, Return, ledger
<1>8. ASSUME Advance \/ (\E j \in Keys : ClaimGoesStale(j)) \/ UNCHANGED vars PROVE SettledByLatest'
  BY <1>2, <1>8 DEF Advance, ClaimGoesStale, ledger, vars
<1>9. QED
  BY <1>3, <1>4, <1>5, <1>6, <1>7, <1>8 DEF Next, CallStep

\* Once a delivery is marked sent or failed nobody is sending on the claim that was
\* settled: a call overtaken while it waited for Gmail settles nothing (REV2-06).
THEOREM OnlyLatestSettles == Spec => []SettledByLatest
<1>1. Init => TypeOK /\ OneHolder /\ SettledByLatest
  BY TypeInit DEF Init, OneHolder, SettledByLatest
<1>2. QED
  BY <1>1, TypeStep, OneHolderStep, SettledStep, PTL DEF Spec
-----------------------------------------------------------------------------
\* An answer "sent" that waits to be written has its copy.
SentHasCopy == \A s \in settling : s[4] = "sent" => copies[s[2]] > 0

LEMMA SentStep ==
  ASSUME TypeOK, SentHasCopy, SentWasAccepted, [Next]_vars
  PROVE  SentHasCopy' /\ SentWasAccepted'
<1>1. \A k \in Keys : copies[k] \in Nat
  BY DEF TypeOK
<1>2. \A s \in settling : s[2] \in Keys
  BY DEF TypeOK
<1>3. ASSUME UNCHANGED copies, settling' \subseteq settling,
             \A k \in Keys : state'[k] = "sent" => copies[k] > 0
      PROVE  SentHasCopy' /\ SentWasAccepted'
  BY <1>3 DEF SentHasCopy, SentWasAccepted
<1>4. ASSUME NEW ks \in SUBSET Keys, Grant(ks), UNCHANGED <<copies, settling>>
      PROVE  SentHasCopy' /\ SentWasAccepted'
  <2>1. \A k \in Keys : state'[k] = "sent" => state[k] = "sent"
    BY <1>4, GrantEffect
  <2>2. QED
    BY <1>3, <1>4, <2>1 DEF SentWasAccepted
<1>5. ASSUME UNCHANGED <<copies, settling, state>> PROVE SentHasCopy' /\ SentWasAccepted'
  BY <1>3, <1>5 DEF SentWasAccepted
<1>6. ASSUME NEW c \in Callers, Claim(c) \/ ClaimLost(c) PROVE SentHasCopy' /\ SentWasAccepted'
  BY <1>4, <1>5, <1>6 DEF Claim, ClaimLost, ledger
<1>7. ASSUME NEW c \in Callers, Send(c) PROVE SentHasCopy' /\ SentWasAccepted'
  <2>1. PICK d \in claims : GmailAnswers(c, d[2], d[3])
    BY <1>7 DEF Send
  <2>2. d[2] \in Keys /\ UNCHANGED state
    BY <1>7, <2>1 DEF TypeOK, Send, ledger
  <2>3. \A k \in Keys : copies[k] > 0 => copies'[k] > 0
    BY <1>1, <2>1, <2>2 DEF GmailAnswers, CopySent, TypeOK
  <2>4. \A s \in settling' : s[4] = "sent" => s \in settling \/ (s[2] = d[2] /\ copies'[d[2]] > 0)
    BY <1>1, <2>1, <2>2 DEF GmailAnswers, CopySent, TypeOK
  <2>5. SentWasAccepted'
    BY <2>2, <2>3 DEF SentWasAccepted
  <2>6. SentHasCopy'
    BY <1>2, <2>3, <2>4 DEF SentHasCopy
  <2>7. QED
    BY <2>5, <2>6
<1>8. ASSUME NEW c \in Callers, Settle(c) PROVE SentHasCopy' /\ SentWasAccepted'
  <2>1. PICK s \in settling : /\ settling' = settling \ {s}
                              /\ Finalize(s[2], s[3], s[4]) \/ UNCHANGED state
    BY <1>8 DEF Settle
  <2>2. \A k \in Keys : state'[k] = state[k] \/ (k = s[2] /\ state'[k] = s[4])
    BY <1>2, <2>1 DEF Finalize, TypeOK
  <2>3. \A k \in Keys : state'[k] = "sent" => copies[k] > 0
    BY <2>1, <2>2 DEF SentHasCopy, SentWasAccepted
  <2>4. QED
    BY <1>3, <1>8, <2>1, <2>3 DEF Settle
<1>9. ASSUME NEW c \in Callers, Begin(c) \/ ClaimRefused(c) \/ Return(c)
      PROVE  SentHasCopy' /\ SentWasAccepted'
  BY <1>5, <1>9 DEF Begin, ClaimRefused, Return, ledger
<1>10. ASSUME Advance \/ (\E j \in Keys : ClaimGoesStale(j)) \/ UNCHANGED vars
       PROVE  SentHasCopy' /\ SentWasAccepted'
  BY <1>5, <1>10 DEF Advance, ClaimGoesStale, ledger, vars
<1>11. QED
  BY <1>6, <1>7, <1>8, <1>9, <1>10 DEF Next, CallStep

\* What the ledger calls sent Gmail has accepted, for each recipient of its own.
THEOREM SentMeansAccepted == Spec => []SentWasAccepted
<1>1. Init => TypeOK /\ SentHasCopy /\ SentWasAccepted
  BY TypeInit DEF Init, SentHasCopy, SentWasAccepted
<1>2. QED
  BY <1>1, TypeStep, SentStep, PTL DEF Spec

\* No recipient gets more copies than attempts, and what is called sent was accepted.
THEOREM CopiesAlwaysAgree == Spec => []CopiesAgree
  BY CopiesWithinAttempts, SentMeansAccepted, PTL DEF CopiesAgree

\* No claim is granted for a change of the booking that another has superseded.
THEOREM ClaimsStayCurrent == Spec => ClaimsAreCurrent
<1>1. ASSUME TypeOK, [Next]_vars, NEW k \in Keys, attempts'[k] > attempts[k] PROVE k[1] = current
  <2>1. attempts[k] \in Nat /\ attempts'[k] # attempts[k]
    BY <1>1 DEF TypeOK
  <2>2. PICK c \in Callers : Claim(c) \/ (ClaimLost(c) /\ ~UNCHANGED ledger)
    BY <1>1, <2>1 DEF Next, CallStep, Advance, ClaimGoesStale, Begin, ClaimRefused,
                      Send, Settle, Return, ledger, vars
  <2>3. PICK ks \in SUBSET {j \in Keys : j[1] = PairOf(c) /\ Claimable(j)} : Valid(c) /\ Grant(ks)
    BY <2>2 DEF Claim, ClaimLost
  <2>4. k \in ks
    BY <1>1, <2>1, <2>3, GrantEffect
  <2>5. QED
    BY <2>3, <2>4 DEF Valid, PairOf
<1>2. TypeOK /\ [Next]_vars => [\A k \in Keys : attempts'[k] > attempts[k] => k[1] = current]_vars
  BY <1>1
<1>3. QED
  BY <1>2, LedgerTyping, PTL DEF Spec, ClaimsAreCurrent
=============================================================================
