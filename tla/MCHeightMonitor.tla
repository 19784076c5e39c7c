---------------------------- MODULE MCHeightMonitor ----------------------------
(* A line of 73.4 and one of 110, and lines spoilt in every way decode checks: *)
(* a digit of an earlier scan, a mask that is no digit, a point lost, moved,   *)
(* doubled or behind the last digit, and a value out of range.                 *)
EXTENDS HeightForDesk

Line(fresh, a, b, c, points) ==
    [fresh |-> fresh, digits |-> [i \in Positions |-> <<a, b, c>>[i]], points |-> points]

MCFrames == {Line(TRUE, 7, 3, 4, {2}), Line(TRUE, 1, 1, 0, {}),
             Line(FALSE, 7, 8, 4, {2}), Line(TRUE, 7, Unknown, 4, {2}),
             Line(TRUE, 7, 3, 4, {}), Line(TRUE, 7, 3, 4, {1}),
             Line(TRUE, 7, 3, 4, {1, 2}), Line(TRUE, 7, 3, 4, {3}),
             Line(TRUE, 1, 3, 1, {})}
=============================================================================
