-------------------------- MODULE MCDeliveryLedger --------------------------
(* Two calls over two changes of one booking: a claim can be overtaken and  *)
(* a call paused across a change.  The theorems cover more calls.           *)
EXTENDS DeliveryLedger, TLC

CONSTANTS c1, c2

AnyOrder == Permutations({c1, c2})
=============================================================================
