------------------------------- MODULE MCStreak -------------------------------
(* Small instances of Streak: December 2023 to April 2024, Monday the 1st of *)
(* January being day 0.  The entry days are the ends and middles of months   *)
(* and two weeks on both sides of a Monday.                                  *)
EXTENDS Streak

MCMonths == 4
MCMonthStart == [m \in 0 .. 5 |-> <<-31, 0, 31, 60, 91, 121>>[m + 1]]

\* Jan 31, Feb 1, Feb 29, Mar 1, Mar 2, Mar 4 (a Monday), Mar 5, Mar 12, Apr 1
MCEntryDates == {30, 31, 59, 60, 61, 63, 64, 71, 91}

\* Jan 31, Feb 29, Mar 1, Mar 3 (a Sunday), Mar 5, Mar 13, Mar 30, Mar 31,
\* Apr 1, Apr 28
MCListDates == {30, 59, 60, 62, 64, 72, 89, 90, 91, 118}
=============================================================================
