--------------------------- MODULE DeliveryLedger ---------------------------
(***************************************************************************)
(* The emails of one booking: notification_deliveries, the ledger a call   *)
(* claims a delivery in before it sends (CLAIM_SQL, FINALIZE_SQL), the     *)
(* calls that send (lib/notify/send.ts) and notify's N-3                   *)
(* (lib/notify/route-order.ts).  There is no delivery worker: a call that  *)
(* commits a change sends its own emails, a notify retries them.           *)
(*                                                                         *)
(* A pair is a (revision, action) the booking has had, numbered in order;  *)
(* 0 stands for latest_action NULL.  A claim of a delivery is the attempts *)
(* count it was granted at.  Gmail may accept an email, refuse it, or give *)
(* no answer, having sent it or not.                                       *)
(***************************************************************************)
EXTENDS Integers

CONSTANTS
  Callers,  \* the calls that send or retry
  Pairs     \* how many pairs the booking goes through

ASSUME PairsCounted == Pairs \in Nat

Recipients == {"invitee", "owner"}
Keys == (1 .. Pairs) \X Recipients

VARIABLES
  current,   \* the pair on the bookings row
  state,     \* notification_deliveries.state, "none" where there is no row
  attempts,  \* notification_deliveries.attempts
  stale,     \* the deliveries claimed more than two minutes ago
  pc,        \* how far each call has got
  expected,  \* the pair a call means to send for; 0 for notify's latest form
  claims,    \* <<caller, delivery, gen>>: granted, not sent yet
  settling,  \* <<caller, delivery, gen, state>>: answered by Gmail, not written yet
  copies     \* how many emails of each delivery Gmail has sent or may have

vars == <<current, state, attempts, stale, pc, expected, claims, settling, copies>>

TypeOK ==
  /\ current \in 0 .. Pairs
  /\ state \in [Keys -> {"none", "claimed", "sent", "failed"}]
  /\ attempts \in [Keys -> Nat]
  /\ stale \subseteq Keys
  /\ pc \in [Callers -> {"new", "claim", "send", "done"}]
  /\ expected \in [Callers -> 0 .. Pairs]
  /\ claims \subseteq Callers \X Keys \X (Nat \ {0})
  /\ settling \subseteq Callers \X Keys \X (Nat \ {0}) \X {"sent", "failed"}
  /\ copies \in [Keys -> Nat]

Init ==
  /\ current = 0
  /\ state = [k \in Keys |-> "none"]
  /\ attempts = [k \in Keys |-> 0]
  /\ stale = {}
  /\ pc = [c \in Callers |-> "new"]
  /\ expected = [c \in Callers |-> 0]
  /\ claims = {} /\ settling = {}
  /\ copies = [k \in Keys |-> 0]
-----------------------------------------------------------------------------
ledger == <<state, attempts, stale>>

Goto(c, p) == pc' = [pc EXCEPT ![c] = p]

\* A T2 commits the booking's next revision and action.
Advance ==
  /\ current < Pairs
  /\ current' = current + 1
  /\ UNCHANGED <<ledger, pc, expected, claims, settling, copies>>

ClaimGoesStale(k) ==
  /\ state[k] = "claimed" /\ k \notin stale
  /\ stale' = stale \cup {k}
  /\ UNCHANGED <<current, state, attempts, pc, expected, claims, settling, copies>>

\* The caller has committed a pair, or read one, or asks for the latest whatever it is.
Begin(c) ==
  /\ pc[c] = "new"
  /\ \E p \in 0 .. current : expected' = [expected EXCEPT ![c] = p]
  /\ Goto(c, "claim")
  /\ UNCHANGED <<current, ledger, claims, settling, copies>>

\* Mutant: the pair is not read again under the lock.
ValidWhenRead(c) == current > 0

\* The pair is compared with the locked row in the claims' own transaction.
Valid(c) == current > 0 /\ expected[c] \in {0, current}

Claimable(k) == state[k] \in {"none", "failed"} \/ (state[k] = "claimed" /\ k \in stale)

PairOf(c) == IF expected[c] = 0 THEN current ELSE expected[c]

\* CLAIM_SQL for each delivery of the set; a row's attempts is the claim's generation.
Grant(ks) ==
  /\ state' = [k \in Keys |-> IF k \in ks THEN "claimed" ELSE state[k]]
  /\ attempts' = [k \in Keys |-> IF k \in ks THEN attempts[k] + 1 ELSE attempts[k]]
  /\ stale' = stale \ ks

\* Mutant: the claim carries the attempts there were before it.
ClaimsBefore(c, ks) == {<<c, k, attempts[k]>> : k \in ks}

ClaimsFor(c, ks) == {<<c, k, attempts[k] + 1>> : k \in ks}

\* Each recipient is claimed in a savepoint of its own: any of them may fail alone.
Claim(c) ==
  /\ pc[c] = "claim" /\ Valid(c)
  /\ \E ks \in SUBSET {k \in Keys : k[1] = PairOf(c) /\ Claimable(k)} :
       /\ Grant(ks)
       /\ claims' = claims \cup ClaimsFor(c, ks)
  /\ Goto(c, "send")
  /\ UNCHANGED <<current, expected, settling, copies>>

\* The claim transaction's COMMIT fails, or its response is lost: nothing is sent.
ClaimLost(c) ==
  /\ pc[c] = "claim" /\ Valid(c)
  /\ \/ Grant({k \in Keys : k[1] = PairOf(c) /\ Claimable(k)})
     \/ UNCHANGED ledger
  /\ Goto(c, "done")
  /\ UNCHANGED <<current, expected, claims, settling, copies>>

\* stale_revision, or a mismatch that is logged.
ClaimRefused(c) ==
  /\ pc[c] = "claim" /\ ~Valid(c)
  /\ Goto(c, "done")
  /\ UNCHANGED <<current, ledger, expected, claims, settling, copies>>
-----------------------------------------------------------------------------
CopySent(k) == copies' = [copies EXCEPT ![k] = @ + 1]

\* Mutant: an email nobody answered for is taken for a refused one.
GmailAnswersHastily(c, k, g) ==
  \/ CopySent(k) /\ settling' = settling \cup {<<c, k, g, "sent">>}
  \/ UNCHANGED copies /\ settling' = settling \cup {<<c, k, g, "failed">>}
  \/ CopySent(k) /\ settling' = settling \cup {<<c, k, g, "failed">>}

\* Accepted, refused for certain, or neither.
GmailAnswers(c, k, g) ==
  \/ CopySent(k) /\ settling' = settling \cup {<<c, k, g, "sent">>}
  \/ UNCHANGED copies /\ settling' = settling \cup {<<c, k, g, "failed">>}
  \/ CopySent(k) /\ UNCHANGED settling
  \/ UNCHANGED <<copies, settling>>

Settling(c) == \E s \in settling : s[1] = c

\* deliver: one recipient after the other, the invitee first.
Send(c) ==
  /\ pc[c] = "send" /\ ~Settling(c)
  /\ \E d \in claims :
       /\ d[1] = c
       /\ d[2][2] = "owner" => ~\E e \in claims : e[1] = c /\ e[2][2] = "invitee"
       /\ claims' = claims \ {d}
       /\ GmailAnswers(c, d[2], d[3])
  /\ UNCHANGED <<current, ledger, pc, expected>>

\* Mutant: FINALIZE_SQL without its generation.
FinalizeAny(k, g, s) ==
  state' = IF state[k] = "claimed" THEN [state EXCEPT ![k] = s] ELSE state

Finalize(k, g, s) ==
  state' = IF state[k] = "claimed" /\ attempts[k] = g THEN [state EXCEPT ![k] = s] ELSE state

\* The write may fail: the delivery stays claimed until it goes stale.
Settle(c) ==
  /\ \E s \in settling :
       /\ s[1] = c
       /\ settling' = settling \ {s}
       /\ Finalize(s[2], s[3], s[4]) \/ UNCHANGED state
  /\ UNCHANGED <<current, attempts, stale, pc, expected, claims, copies>>

Return(c) ==
  /\ pc[c] = "send" /\ ~Settling(c) /\ ~\E d \in claims : d[1] = c
  /\ Goto(c, "done")
  /\ UNCHANGED <<current, ledger, expected, claims, settling, copies>>

CallStep(c) ==
  \/ Begin(c) \/ Claim(c) \/ ClaimLost(c) \/ ClaimRefused(c)
  \/ Send(c) \/ Settle(c) \/ Return(c)

Next == Advance \/ (\E k \in Keys : ClaimGoesStale(k)) \/ (\E c \in Callers : CallStep(c))

Spec == Init /\ [][Next]_vars
-----------------------------------------------------------------------------
\* The README's bound on duplicates: a recipient never gets more copies of an email
\* than its delivery has attempts, and a delivery marked failed has an attempt to
\* spare, so that retrying it at once cannot exceed the bound (send.ts:203).
CopiesBounded ==
  \A k \in Keys :
    /\ copies[k] <= attempts[k]
    /\ state[k] = "failed" => copies[k] < attempts[k]

\* A delivery is final only by its latest claim: a call that was overtaken while Gmail
\* kept it waiting settles nothing, and no one is still sending on the claim that was
\* settled (FINALIZE_SQL, REV2-06).
SettledByLatest ==
  \A d \in claims : state[d[2]] \in {"sent", "failed"} => d[3] < attempts[d[2]]

\* What the page reports as sent Gmail has accepted, for each recipient.
SentWasAccepted == \A k \in Keys : state[k] = "sent" => copies[k] > 0

\* What the ledger says of an email bounds the copies its recipient got on both sides.
CopiesAgree == CopiesBounded /\ SentWasAccepted

\* Only the booking's latest change is ever claimed, by a retry or by a call that was
\* paused after its own commit: a cancelled booking grants no new confirmation (C5).
ClaimsAreCurrent ==
  [][\A k \in Keys : attempts'[k] > attempts[k] => k[1] = current]_vars
=============================================================================
