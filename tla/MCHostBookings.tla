--------------------------- MODULE MCHostBookings ---------------------------
(* Three requests, two keys, two payloads, and windows that overlap in a    *)
(* chain: a with b, b with c, a not with c.  Both payloads ask for time b   *)
(* overlaps, so every race for a key is also a race for time.               *)
EXTENDS HostBookings, TLC

CONSTANTS r1, r2, r3, k1, k2, p1, p2

A == [start |-> 0, end |-> 2]
B == [start |-> 1, end |-> 3]
C == [start |-> 2, end |-> 4]

MCRequests == {r1, r2, r3}
MCKeys == {k1, k2}
MCPrints == {p1, p2}
MCWindows == {A, B, C}
MCWindowOf == [p \in MCPrints |-> IF p = p1 THEN A ELSE B]

\* Requests and keys are interchangeable; payloads are not, their windows differ.
MCSymmetry == Permutations(MCRequests) \cup Permutations(MCKeys)
=============================================================================
