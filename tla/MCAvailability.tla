--------------------------- MODULE MCAvailability ---------------------------
(* Places where things happen, in a zone without changes: a booking that moves while one  *)
(* page reads, late inserts while two do, and three leftovers that five reads reap.  And  *)
(* many where only the clocks do something: every window of a weekday against every       *)
(* change of offset around it.                                                            *)
EXTENDS Availability, TLC

MCLeftovers == 1 .. 3
Plot(ids, there, reads, moves, edits, still) ==
    [zone |-> [before |-> 0, after |-> 0, at |-> 0],
     windows |-> {[weekday |-> 0, start |-> 0, end |-> 3]},
     len |-> 1, slots |-> 0 .. 2, asks |-> {<<0, 3>>}, ids |-> ids, there |-> there,
     reads |-> reads, moves |-> moves, edits |-> edits, still |-> still]
Plots == {Plot({1}, {}, 1, 2, 1, FALSE), Plot({1, 2}, {1}, 2, 0, 1, FALSE),
          Plot({1, 2, 3}, {1, 2, 3}, 5, 0, 0, TRUE)}
Study(z, w, l) ==
    [zone |-> z, windows |-> {w}, len |-> l, slots |-> {12},
     asks |-> {<<0, 24>>, <<9, 20>>, <<11, 14>>}, ids |-> {}, there |-> {},
     reads |-> 1, moves |-> 0, edits |-> 0, still |-> TRUE]
Zones == {[before |-> b, after |-> b + d, at |-> a] : b \in {-2, 2}, d \in {-1, 1}, a \in 6 .. 18}
Windows == {w \in [weekday : {1}, start : 0 .. 7, end : 0 .. 7] : w.start < w.end}
MCPlaces == Plots \cup {Study(z, w, l) : z \in Zones, w \in Windows, l \in 1 .. 2}
AnyReader == Permutations(Readers)
=============================================================================
