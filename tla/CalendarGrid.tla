----------------------------- MODULE CalendarGrid ------------------------------
(***************************************************************************)
(* The month grid under the date picker: the days it shows, which of them  *)
(* are links, and the arrows to the months around it.                      *)
(***************************************************************************)
EXTENDS Calendar

\* Time.Weekday: the days since a Sunday.
Weekday(d) == (d + 1) - 7 * ((d + 1) \div 7)

\* Faulty variant: a Sunday is taken for the day before Monday.
SundayFirst(d) == Weekday(d)

\* 1 for a Monday to 7 for a Sunday.
IsoWeekday(d) == IF Weekday(d) = 0 THEN 7 ELSE Weekday(d)

First(m) == MonthStart[m]

Last(m) == MonthStart[m + 1] - 1

\* calendarDays: filled up to whole weeks with days of the months around.
CalendarDays(m) ==
  (First(m) - (IsoWeekday(First(m)) - 1)) .. (Last(m) + (7 - IsoWeekday(Last(m))))

\* calDayCell: neither a future day nor one of another month is a link.
Linked(m, today) == {d \in CalendarDays(m) : d <= today /\ d \in MonthDays(m)}

\* Faulty variant: the arrow to the next month is always there.
HasNextMonthAlways(m, today) == TRUE

\* The arrow to the next month is missing in the current one.
HasNextMonth(m, today) == m # MonthOf(today)

=============================================================================
