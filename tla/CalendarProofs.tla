---------------------------- MODULE CalendarProofs -----------------------------
(***************************************************************************)
(* Months and their grid, for every calendar whose months have 28 to 31    *)
(* days.                                                                   *)
(***************************************************************************)
EXTENDS CalendarGrid, TLAPS

\* The lengths of the months, with the types an arithmetic step needs.
LEMMA MonthLength ==
  ASSUME NEW m \in Months
  PROVE  /\ m \in Nat
         /\ MonthStart[m] \in Int
         /\ MonthStart[m + 1] \in Int
         /\ MonthStart[m] + 28 <= MonthStart[m + 1]
         /\ MonthStart[m + 1] <= MonthStart[m] + 31
<1>1. m \in 0 .. NMonths + 1 /\ m + 1 \in 0 .. NMonths + 1 /\ m < m + 1
  BY CalendarAssumption DEF Months
<1>2. MonthStart[m] + 28 <= MonthStart[m + 1]
  BY <1>1, CalendarAssumption
<1>3. QED
  BY <1>1, <1>2, CalendarAssumption

\* A month ends before a later one begins.
LEMMA MonthOrder ==
  ASSUME NEW k \in Months, NEW l \in Months, k < l
  PROVE  MonthStart[k + 1] <= MonthStart[l]
<1>1. /\ k + 1 \in 0 .. NMonths + 1
      /\ l \in 0 .. NMonths + 1
      /\ k + 1 = l \/ k + 1 < l
  BY CalendarAssumption DEF Months
<1>2. MonthStart[k + 1] \in Int /\ MonthStart[l] \in Int
  BY MonthLength
<1>3. CASE k + 1 = l
  BY <1>2, <1>3
<1>4. CASE k + 1 < l
  <2>1. MonthStart[k + 1] + 28 <= MonthStart[l]
    BY <1>1, <1>4, CalendarAssumption
  <2>2. QED
    BY <1>2, <2>1
<1>5. QED
  BY <1>1, <1>3, <1>4

\* The days of a month belong to that month: months do not overlap.
LEMMA MonthOfDay ==
  ASSUME NEW m \in Months, NEW d \in MonthDays(m)
  PROVE  MonthOf(d) = m
<1>1. ASSUME NEW n \in Months, d \in MonthDays(n)
      PROVE  n = m
  <2>1. /\ MonthStart[m] <= d /\ d < MonthStart[m + 1]
        /\ MonthStart[n] <= d /\ d < MonthStart[n + 1]
        /\ d \in Int
    BY <1>1, MonthLength DEF MonthDays
  <2>2. ~(n < m)
    BY <2>1, MonthOrder, MonthLength
  <2>3. ~(m < n)
    BY <2>1, MonthOrder, MonthLength
  <2>4. QED
    BY <2>2, <2>3, MonthLength
<1>2. QED
  BY <1>1 DEF MonthOf

\* Every date lies in its month.
LEMMA MonthOfDate ==
  ASSUME NEW d \in Dates
  PROVE  /\ MonthOf(d) \in Months
         /\ MonthStart[MonthOf(d)] \in Int
         /\ d \in Int
         /\ MonthStart[MonthOf(d)] <= d
         /\ d < MonthStart[MonthOf(d) + 1]
         /\ DayOfMonth(d) \in 0 .. 30
<1>1. PICK m \in Months : d \in MonthDays(m)
  BY DEF Dates
<1>2. MonthOf(d) = m
  BY <1>1, MonthOfDay
<1>3. QED
  BY <1>1, <1>2, MonthLength DEF MonthDays, DayOfMonth

\* Later dates lie in later months.
LEMMA MonthGrows ==
  ASSUME NEW d \in Dates, NEW e \in Dates, d <= e
  PROVE  MonthOf(d) <= MonthOf(e)
<1>1. /\ MonthOf(d) \in Months /\ MonthOf(e) \in Months
      /\ MonthOf(d) \in Nat /\ MonthOf(e) \in Nat
  BY MonthOfDate, MonthLength
<1>2. ASSUME MonthOf(e) < MonthOf(d) PROVE FALSE
  <2>1. MonthStart[MonthOf(e) + 1] <= MonthStart[MonthOf(d)]
    BY <1>1, <1>2, MonthOrder
  <2>2. QED
    BY <1>1, <2>1, MonthOfDate, MonthLength
<1>3. QED
  BY <1>1, <1>2

-----------------------------------------------------------------------------
(* The grid.                                                               *)

\* Two dates are in one week when no Monday lies between them.
LEMMA WeekBounds ==
  ASSUME NEW d \in Int, NEW k \in Int
  PROVE  /\ d \div 7 = k <=> 7 * k <= d /\ d <= 7 * k + 6
         /\ d \div 7 \in Int
OBVIOUS

\* The ISO weekday counts the days of a week from its Monday.
LEMMA WeekdayOfWeek ==
  ASSUME NEW d \in Int
  PROVE  IsoWeekday(d) = d - 7 * (d \div 7) + 1
<1> DEFINE k == d \div 7
           l == (d + 1) \div 7
<1>1. k \in Int /\ 7 * k <= d /\ d <= 7 * k + 6
  BY WeekBounds
<1>2. l \in Int /\ 7 * l <= d + 1 /\ d + 1 <= 7 * l + 6
  BY WeekBounds
<1>3. Weekday(d) = d + 1 - 7 * l
  BY DEF Weekday
<1>4. (d = 7 * k + 6 /\ l = k + 1) \/ (d < 7 * k + 6 /\ l = k)
  <2> HIDE DEF k, l
  <2>1. QED
    BY <1>1, <1>2
<1>5. QED
  <2> HIDE DEF k, l
  <2>1. IsoWeekday(d) = d - 7 * k + 1
    BY <1>1, <1>2, <1>3, <1>4 DEF IsoWeekday
  <2>2. QED
    BY <2>1 DEF k

\* The grid goes from the Monday of the first week to the Sunday of the last.
LEMMA GridBounds ==
  ASSUME NEW m \in Months
  PROVE  /\ First(m) \in Int /\ Last(m) \in Int /\ First(m) <= Last(m)
         /\ CalendarDays(m) = 7 * (First(m) \div 7) .. 7 * (Last(m) \div 7) + 6
<1>1. First(m) \in Int /\ Last(m) \in Int /\ First(m) <= Last(m)
  BY MonthLength DEF First, Last
<1>2. First(m) - (IsoWeekday(First(m)) - 1) = 7 * (First(m) \div 7)
  BY <1>1, WeekdayOfWeek, WeekBounds
<1>3. Last(m) + (7 - IsoWeekday(Last(m))) = 7 * (Last(m) \div 7) + 6
  BY <1>1, WeekdayOfWeek, WeekBounds
<1>4. QED
  BY <1>1, <1>2, <1>3 DEF CalendarDays

\* The grid of a month shows a date exactly when the month has a day in the
\* date's week: every day of the month once, in whole weeks, and no week
\* without a day of the month (dates.go:48-77).
THEOREM GridOfWeeks ==
  ASSUME NEW m \in Months, NEW d \in Int
  PROVE  d \in CalendarDays(m) <=> \E x \in MonthDays(m) : x \div 7 = d \div 7
<1>1. /\ First(m) \in Int /\ Last(m) \in Int /\ First(m) <= Last(m)
      /\ CalendarDays(m) = 7 * (First(m) \div 7) .. 7 * (Last(m) \div 7) + 6
  BY GridBounds
<1>2. MonthDays(m) = First(m) .. Last(m)
  BY DEF MonthDays, First, Last
<1>3. ASSUME NEW x \in MonthDays(m), x \div 7 = d \div 7
      PROVE  d \in CalendarDays(m)
  <2>1. x \in Int /\ First(m) <= x /\ x <= Last(m)
    BY <1>1, <1>2
  <2>2. First(m) \div 7 <= x \div 7 /\ x \div 7 <= Last(m) \div 7
    BY <1>1, <2>1
  <2>3. QED
    BY <1>1, <1>3, <2>2, WeekBounds
<1>4. ASSUME d \in CalendarDays(m)
      PROVE  \E x \in MonthDays(m) : x \div 7 = d \div 7
  <2>1. First(m) \div 7 <= d \div 7 /\ d \div 7 <= Last(m) \div 7
    BY <1>1, <1>4
  <2>2. CASE d < First(m)
    <3>1. First(m) \div 7 = d \div 7
      BY <1>1, <2>1, <2>2
    <3>2. QED
      BY <1>1, <1>2, <3>1
  <2>3. CASE d > Last(m)
    <3>1. Last(m) \div 7 = d \div 7
      BY <1>1, <2>1, <2>3
    <3>2. QED
      BY <1>1, <1>2, <3>1
  <2>4. CASE First(m) <= d /\ d <= Last(m)
    BY <1>1, <1>2, <2>4
  <2>5. QED
    BY <1>1, <2>2, <2>3, <2>4
<1>5. QED
  BY <1>3, <1>4
\* The grid is four to six whole weeks from a Monday on, the last of them
\* included; four only for a month of 28 days (dates.go:48-77).
THEOREM GridOfFourToSixWeeks ==
  ASSUME NEW m \in Months
  PROVE  \E k \in Int, w \in 4 .. 6 :
           /\ CalendarDays(m) = 7 * k .. 7 * (k + w) - 1
           /\ w = 4 => Last(m) - First(m) = 27
<1> DEFINE f == First(m)
           l == Last(m)
           k == f \div 7
           n == l \div 7
           w == n - k + 1
<1>1. /\ f \in Int /\ l \in Int
      /\ f + 27 <= l /\ l <= f + 30
  BY MonthLength DEF First, Last
<1>2. CalendarDays(m) = 7 * k .. 7 * n + 6
  BY GridBounds
<1>3. k \in Int /\ 7 * k <= f /\ f <= 7 * k + 6
  BY <1>1, WeekBounds
<1>4. n \in Int /\ 7 * n <= l /\ l <= 7 * n + 6
  BY <1>1, WeekBounds
<1>5. w \in 4 .. 6 /\ (w = 4 => l - f = 27) /\ 7 * n + 6 = 7 * (k + w) - 1
  <2> HIDE DEF f, l, k, n
  <2>1. QED
    BY <1>1, <1>3, <1>4
<1>6. QED
  <2> HIDE DEF k, n, w
  <2>1. QED
    BY <1>2, <1>3, <1>5

=============================================================================
