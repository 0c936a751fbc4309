--------------------------------- MODULE MCTab ---------------------------------
(* A small instance of Tab: three months of 28 to 31 days of which the one   *)
(* in the middle ends on a Sunday, and the two days around its end.          *)
EXTENDS Tab, TLC

\* Day 0 is a Monday.
MCMonths == 1
MCMonthStart == [m \in 0 .. 2 |-> <<-24, 7, 35>>[m + 1]]
MCClock == {6, 7}

MCSymmetry == Permutations(Slots)

=============================================================================
