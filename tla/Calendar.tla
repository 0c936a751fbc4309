------------------------------- MODULE Calendar -------------------------------
(***************************************************************************)
(* The calendar arithmetic of Go's time package and of PostgreSQL that the *)
(* habit service relies on.  A date is a day number, day 0 is a Monday.    *)
(* The months are numbered; MonthStart gives the first day of each, so the *)
(* lengths of the months are a parameter.                                  *)
(***************************************************************************)
EXTENDS Integers

CONSTANTS
  NMonths,      \* the last month of the window that is looked at
  MonthStart    \* the first day of each month of the window and of the next

Months == 0 .. NMonths

\* A month has 28 to 31 days.
ASSUME CalendarAssumption ==
  /\ NMonths \in Nat
  /\ MonthStart \in [0 .. NMonths + 1 -> Int]
  /\ \A m \in Months : MonthStart[m + 1] <= MonthStart[m] + 31
  /\ \A m, n \in 0 .. NMonths + 1 :
       m < n => MonthStart[m] + 28 <= MonthStart[n]

MonthDays(m) == MonthStart[m] .. MonthStart[m + 1] - 1

Dates == UNION {MonthDays(m) : m \in Months}

MonthOf(d) == CHOOSE m \in Months : d \in MonthDays(m)

\* Counted from 0.
DayOfMonth(d) == d - MonthStart[MonthOf(d)]

-----------------------------------------------------------------------------

\* The period a date belongs to: the keys of periodKey, numbered in order.
PeriodKey(d, period) ==
  CASE period = "week"  -> d \div 7
    [] period = "month" -> MonthOf(d)
    [] OTHER            -> d

\* Faulty variant: a month is taken for 31 days.
PrevPeriodDate31(d, period) ==
  CASE period = "week"  -> d - 7
    [] period = "month" -> d - 31
    [] OTHER            -> d - 1

\* Faulty variant: AddDate's first argument is a number of years.
PrevPeriodDateYear(d, period) ==
  CASE period = "week"  -> d - 7
    [] period = "month" -> d - 365
    [] OTHER            -> d - 1

\* Time.AddDate: one month back is the same day of the month before, and
\* days that month lacks run over into the next.
PrevPeriodDate(d, period) ==
  CASE period = "week"  -> d - 7
    [] period = "month" -> MonthStart[MonthOf(d) - 1] + DayOfMonth(d)
    [] OTHER            -> d - 1

\* Faulty variant: weeks from Sunday to Saturday.
PeriodWindowFromSunday(d, period) ==
  CASE period = "week"  -> LET sunday == 7 * ((d + 1) \div 7) - 1
                           IN  sunday .. sunday + 6
    [] period = "month" -> MonthDays(MonthOf(d))
    [] OTHER            -> {d}

\* The days List counts in SQL: from DATE_TRUNC(period, d) up to, and not
\* including, the same plus one period.
PeriodWindow(d, period) ==
  CASE period = "week"  -> LET monday == 7 * (d \div 7)
                           IN  monday .. monday + 6
    [] period = "month" -> MonthDays(MonthOf(d))
    [] OTHER            -> {d}

=============================================================================
