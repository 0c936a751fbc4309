----------------------------- MODULE StreakProofs -----------------------------
(***************************************************************************)
(* computeStreak is right for every calendar, set of entries, target and   *)
(* date: what Streak's run checks on a small window of months, proved.     *)
(***************************************************************************)
EXTENDS Streak, CalendarProofs, FiniteSetTheorems

-----------------------------------------------------------------------------
(* Periods.                                                                *)

\* A key is a number.
LEMMA PeriodKeyType ==
  ASSUME NEW p \in Periods, NEW d \in Int, p = "month" => d \in Dates
  PROVE  PeriodKey(d, p) \in Int
BY MonthOfDate DEF PeriodKey, Periods, Months

\* One step back never leaves the window, leads to the period before or
\* stays in the same, and leads to the period before, on the same day of
\* the month, when that day occurs in every month.  When it stays in the
\* same, it comes to a day that occurs in every month.
LEMMA PrevPeriod ==
  ASSUME NEW p \in Periods, NEW d \in Int,
         p = "month" => d \in Dates /\ MonthOf(d) >= 1
  PROVE  LET prev == PrevPeriodDate(d, p)
         IN  /\ prev \in Int
             /\ p = "month" => prev \in Dates
             /\ PeriodKey(prev, p) \in {PeriodKey(d, p) - 1, PeriodKey(d, p)}
             /\ (p = "month" => DayOfMonth(d) < 28) =>
                  /\ PeriodKey(prev, p) = PeriodKey(d, p) - 1
                  /\ p = "month" => DayOfMonth(prev) = DayOfMonth(d)
             /\ PeriodKey(prev, p) = PeriodKey(d, p) =>
                  p = "month" /\ DayOfMonth(prev) < 28
<1> DEFINE prev == PrevPeriodDate(d, p)
<1>1. CASE p = "month"
  <2> DEFINE m == MonthOf(d)
  <2>1. /\ m \in Months
        /\ m >= 1
        /\ d \in Dates
        /\ DayOfMonth(d) \in 0 .. 30
    BY <1>1, MonthOfDate
  <2>2. /\ prev = MonthStart[m - 1] + DayOfMonth(d)
        /\ PeriodKey(d, p) = m
        /\ PeriodKey(prev, p) = MonthOf(prev)
    BY <1>1 DEF PrevPeriodDate, PeriodKey
  <2>3. /\ m - 1 \in Months
        /\ (m - 1) + 1 = m
        /\ MonthStart[m - 1] \in Int
        /\ MonthStart[m] \in Int
        /\ MonthStart[m + 1] \in Int
        /\ MonthStart[m - 1] + 28 <= MonthStart[m]
        /\ MonthStart[m] <= MonthStart[m - 1] + 31
        /\ MonthStart[m] + 28 <= MonthStart[m + 1]
    <3> HIDE DEF m
    <3>1. m - 1 \in Months /\ (m - 1) + 1 = m
      <4>1. NMonths \in Nat
        BY CalendarAssumption
      <4>2. QED
        BY <2>1, <4>1 DEF Months
    <3>2. /\ MonthStart[m - 1] + 28 <= MonthStart[(m - 1) + 1]
          /\ MonthStart[(m - 1) + 1] <= MonthStart[m - 1] + 31
          /\ MonthStart[m - 1] \in Int
      BY <3>1, MonthLength
    <3>3. QED
      BY <2>1, <3>1, <3>2, MonthLength
  <2>4. CASE prev < MonthStart[m]
    <3>1. prev \in MonthDays(m - 1)
      BY <2>1, <2>2, <2>3, <2>4 DEF MonthDays
    <3>2. MonthOf(prev) = m - 1
      BY <2>3, <3>1, MonthOfDay
    <3>3. DayOfMonth(prev) = DayOfMonth(d)
      BY <2>1, <2>2, <2>3, <3>2 DEF DayOfMonth
    <3>4. QED
      BY <2>1, <2>2, <2>3, <3>1, <3>2, <3>3 DEF Dates
  <2>5. CASE prev >= MonthStart[m]
    <3>1. prev \in MonthDays(m) /\ DayOfMonth(d) >= 28
      BY <2>1, <2>2, <2>3, <2>5 DEF MonthDays
    <3>2. MonthOf(prev) = m
      BY <2>1, <3>1, MonthOfDay
    <3>3. DayOfMonth(prev) < 28
      BY <2>1, <2>2, <2>3, <3>2 DEF DayOfMonth
    <3>4. QED
      BY <1>1, <2>1, <2>2, <2>3, <3>1, <3>2, <3>3 DEF Dates
  <2>6. QED
    BY <2>1, <2>2, <2>3, <2>4, <2>5
<1>2. CASE p = "week"
  BY <1>2 DEF PrevPeriodDate, PeriodKey
<1>3. CASE p = "day"
  BY <1>3 DEF PrevPeriodDate, PeriodKey
<1>4. QED
  BY <1>1, <1>2, <1>3 DEF Periods

\* DATE_TRUNC's window around a date holds exactly the dates of its period:
\* the SQL of List and the Go of periodKey cut time alike.
THEOREM WindowIsPeriod ==
  ASSUME NEW p \in Periods, NEW d \in Dates, NEW e \in Dates
  PROVE  e \in PeriodWindow(d, p) <=> PeriodKey(e, p) = PeriodKey(d, p)
<1>1. d \in Int /\ e \in Int
  BY MonthOfDate
<1>2. CASE p = "month"
  <2>1. e \in MonthDays(MonthOf(e)) /\ MonthOf(d) \in Months
    <3>1. PICK m \in Months : e \in MonthDays(m)
      BY DEF Dates
    <3>2. QED
      BY <3>1, MonthOfDay, MonthOfDate
  <2>2. e \in MonthDays(MonthOf(d)) => MonthOf(e) = MonthOf(d)
    BY <2>1, MonthOfDay
  <2>3. QED
    BY <1>2, <2>1, <2>2 DEF PeriodWindow, PeriodKey
<1>3. CASE p = "week"
  BY <1>1, <1>3 DEF PeriodWindow, PeriodKey
<1>4. CASE p = "day"
  BY <1>1, <1>4 DEF PeriodWindow, PeriodKey
<1>5. QED
  BY <1>2, <1>3, <1>4 DEF Periods

-----------------------------------------------------------------------------
(* The walk.                                                               *)

\* Nothing is complete in the month before anything happened.
LEMMA NothingInMonthZero ==
  ASSUME TypeOK, period = "month"
  PROVE  ~Complete(0)
<1>1. ASSUME NEW e \in Fetched
      PROVE  PeriodKey(e, period) # 0
  <2>1. e \in Dates /\ e \notin MonthDays(0)
    BY StreakAssumption DEF TypeOK, Fetched
  <2>2. PICK m \in Months : e \in MonthDays(m)
    BY <2>1 DEF Dates
  <2>3. MonthOf(e) = m
    BY <2>2, MonthOfDay
  <2>4. QED
    BY <2>1, <2>2, <2>3 DEF PeriodKey
<1>2. {e \in Fetched : PeriodKey(e, period) = 0} = {}
  BY <1>1
<1>3. Count(0) = 0
  BY <1>2, FS_EmptySet DEF Count
<1>4. QED
  BY <1>3, StreakAssumption DEF Complete, TypeOK, Targets

\* A position whose period is complete is not in the first month, so that
\* the walk can step back from it.
LEMMA CompleteHasPrevious ==
  ASSUME TypeOK, period = "month", Complete(PeriodKey(current, period))
  PROVE  MonthOf(current) >= 1
<1>1. MonthOf(current) # 0
  BY NothingInMonthZero DEF PeriodKey
<1>2. MonthOf(current) \in Months
  BY MonthOfDate DEF TypeOK
<1>3. QED
  BY <1>1, <1>2 DEF Months

\* Neither is the date of a list.
LEMMA DateHasPrevious ==
  ASSUME TypeOK
  PROVE  /\ date \in Int
         /\ date \in Dates
         /\ MonthOf(date) >= 1
<1>1. date \in Dates /\ date \notin MonthDays(0)
  BY StreakAssumption DEF TypeOK
<1>2. PICK m \in Months : date \in MonthDays(m)
  BY <1>1 DEF Dates
<1>3. MonthOf(date) = m /\ m # 0
  BY <1>1, <1>2, MonthOfDay
<1>4. QED
  BY <1>1, <1>3, MonthOfDate DEF Months

\* The step after which the walk is where it was, or one period earlier.
LEMMA StepBack ==
  ASSUME TypeOK,
         period = "month" => MonthOf(current) >= 1
  PROVE  LET prev == PrevPeriodDate(current, period)
             key  == PeriodKey(current, period)
         IN  /\ prev \in Int
             /\ period = "month" => prev \in Dates
             /\ key \in Int
             /\ PeriodKey(prev, period) \in {key - 1, key}
             /\ (period = "month" => DayOfMonth(current) < 28) =>
                  /\ PeriodKey(prev, period) = key - 1
                  /\ period = "month" => DayOfMonth(prev) = DayOfMonth(current)
             /\ PeriodKey(prev, period) = key =>
                  period = "month" /\ DayOfMonth(prev) < 28
BY PrevPeriod, PeriodKeyType DEF TypeOK

\* One period back for each period counted.
Kept == streak = Base - PeriodKey(current, period)

\* One month was come to twice.
OneBehind ==
  /\ streak = Base - PeriodKey(current, period) + 1
  /\ period = "month" /\ DayOfMonth(current) < 28

\* What the walk has established: it has not moved before it starts, it has
\* bridged complete periods only, it has not left a complete current period
\* without counting it; it has moved one period back for each period counted,
\* or for each but one, and is then on a day that every month has; and on a
\* date whose day every month has it is not one behind.
WalkInv ==
  LET key == PeriodKey(current, period)
  IN  /\ pc = "start" => current = date /\ streak = 0
      /\ pc = "done" => ~Complete(key)
      /\ Complete(PeriodKey(date, period)) /\ streak = 0 => current = date
      /\ StreakBridgesNoGap
      /\ pc # "start" /\ KeepsDayOfMonth =>
           /\ key = Base - streak
           /\ \A k \in 0 .. streak - 1 : Complete(Base - k)
           /\ period = "month" => DayOfMonth(current) = DayOfMonth(date)
      /\ pc # "start" => Kept \/ OneBehind

IInv == TypeOK /\ WalkInv

\* What is fixed while computeStreak runs fixes which periods are complete.
LEMMA Frame ==
  ASSUME UNCHANGED <<entries, period, target, date>>
  PROVE  /\ \A key : Complete(key)' <=> Complete(key)
         /\ Base' = Base
         /\ KeepsDayOfMonth' <=> KeepsDayOfMonth
<1>1. Fetched' = Fetched
  BY DEF Fetched
<1>2. \A key : Count(key)' = Count(key)
  BY <1>1 DEF Count
<1>3. \A key : Complete(key)' <=> Complete(key)
  BY <1>2 DEF Complete
<1>4. QED
  BY <1>3 DEF Base, KeepsDayOfMonth

LEMMA InitIInv == Init => IInv
<1> SUFFICES ASSUME Init PROVE IInv
  OBVIOUS
<1>1. TypeOK
  <2>1. current \in Int /\ current \in Dates
    BY StreakAssumption, MonthOfDate DEF Init
  <2>2. QED
    BY <2>1 DEF Init, TypeOK
<1>2. StreakBridgesNoGap
  <2>1. PeriodKey(date, period) \in Int
    BY <1>1, DateHasPrevious, PeriodKeyType DEF TypeOK
  <2>2. QED
    BY <2>1 DEF Init, StreakBridgesNoGap, Base
<1>3. QED
  BY <1>1, <1>2 DEF Init, IInv, WalkInv

LEMMA NextIInv == IInv /\ [Next]_vars => IInv'
<1> SUFFICES ASSUME IInv, [Next]_vars
             PROVE  IInv'
  OBVIOUS
<1> DEFINE key == PeriodKey(current, period)
<1>1. /\ key \in Int
      /\ PeriodKey(date, period) \in Int
      /\ streak \in Nat
  BY DateHasPrevious, PeriodKeyType DEF IInv, TypeOK
<1>2. Base \in Int
  BY <1>1 DEF Base
<1>3. CASE SkipInProgress
  <2>1. current = date /\ streak = 0
    BY <1>3 DEF SkipInProgress, IInv, WalkInv
  <2>2. UNCHANGED <<entries, period, target, date>>
    BY <1>3 DEF SkipInProgress
  <2>3. CASE Complete(key)
    <3>1. current' = current /\ streak' = streak /\ pc' = "walk"
      BY <1>3, <2>3 DEF SkipInProgress
    <3>2. TypeOK'
      BY <2>2, <3>1 DEF IInv, TypeOK
    <3>3. Base = key
      BY <2>1, <2>3 DEF Base
    <3>4. WalkInv'
      BY <1>1, <2>1, <2>2, <3>1, <3>3, Frame
         DEF WalkInv, IInv, StreakBridgesNoGap, Kept, OneBehind
    <3>5. QED
      BY <3>2, <3>4 DEF IInv
  <2>4. CASE ~Complete(key)
    <3>1. /\ current' = PrevPeriodDate(current, period)
          /\ streak' = streak
          /\ pc' = "walk"
      BY <1>3, <2>4 DEF SkipInProgress
    <3>2. /\ current' \in Int
          /\ period = "month" => current' \in Dates
          /\ PeriodKey(current', period) \in {key - 1, key}
          /\ KeepsDayOfMonth =>
               /\ PeriodKey(current', period) = key - 1
               /\ period = "month" => DayOfMonth(current') = DayOfMonth(date)
          /\ PeriodKey(current', period) = key =>
               period = "month" /\ DayOfMonth(current') < 28
      BY <2>1, <3>1, StepBack, DateHasPrevious DEF IInv, KeepsDayOfMonth
    <3>3. TypeOK'
      BY <2>2, <3>1, <3>2 DEF IInv, TypeOK
    <3>4. Base = key - 1
      BY <2>1, <2>4 DEF Base
    <3>5. WalkInv'
      BY <1>1, <2>1, <2>2, <2>4, <3>1, <3>2, <3>4, Frame
         DEF WalkInv, StreakBridgesNoGap, Kept, OneBehind
    <3>6. QED
      BY <3>3, <3>5 DEF IInv
  <2>5. QED
    BY <2>3, <2>4
<1>4. CASE Walk
  <2>1. /\ UNCHANGED <<entries, period, target, date>>
        /\ current' = PrevPeriodDate(current, period)
        /\ streak' = streak + 1
        /\ pc = "walk" /\ pc' = "walk"
        /\ Complete(key)
    BY <1>4 DEF Walk
  <2>2. /\ current' \in Int
        /\ period = "month" => current' \in Dates
        /\ PeriodKey(current', period) \in {key - 1, key}
        /\ (period = "month" => DayOfMonth(current) < 28) =>
             /\ PeriodKey(current', period) = key - 1
             /\ period = "month" => DayOfMonth(current') = DayOfMonth(current)
        /\ PeriodKey(current', period) = key =>
             period = "month" /\ DayOfMonth(current') < 28
    BY <2>1, StepBack, CompleteHasPrevious DEF IInv
  <2>3. TypeOK'
    BY <1>1, <2>1, <2>2 DEF IInv, TypeOK
  <2>4. StreakBridgesNoGap'
    <3>1. \A k \in key + 1 .. Base : Complete(k)
      BY DEF IInv, WalkInv, StreakBridgesNoGap
    <3>2. \A k \in PeriodKey(current', period) + 1 .. Base : Complete(k)
      BY <1>1, <1>2, <2>1, <2>2, <3>1
    <3>3. QED
      BY <2>1, <3>2, Frame DEF StreakBridgesNoGap
  <2>5. ASSUME KeepsDayOfMonth
        PROVE  /\ PeriodKey(current', period) = Base - streak'
               /\ \A k \in 0 .. streak' - 1 : Complete(Base - k)
               /\ period = "month" => DayOfMonth(current') = DayOfMonth(date)
    <3>1. /\ key = Base - streak
          /\ \A k \in 0 .. streak - 1 : Complete(Base - k)
          /\ period = "month" => DayOfMonth(current) = DayOfMonth(date)
      BY <2>1, <2>5 DEF IInv, WalkInv
    <3>2. /\ PeriodKey(current', period) = key - 1
          /\ period = "month" => DayOfMonth(current') = DayOfMonth(date)
      BY <2>2, <2>5, <3>1 DEF KeepsDayOfMonth
    <3>3. \A k \in 0 .. streak' - 1 : Complete(Base - k)
      <4>1. SUFFICES ASSUME NEW k \in 0 .. streak' - 1
                     PROVE  Complete(Base - k)
        OBVIOUS
      <4>2. k \in 0 .. streak - 1 \/ k = streak
        BY <1>1, <2>1
      <4>3. QED
        BY <2>1, <3>1, <4>2
    <3>4. QED
      BY <1>1, <1>2, <2>1, <3>1, <3>2, <3>3
  <2>6. Kept' \/ OneBehind'
    <3>1. Kept \/ OneBehind
      BY <2>1 DEF IInv, WalkInv
    <3>2. CASE PeriodKey(current', period) = key - 1 /\ Kept
      BY <1>1, <1>2, <2>1, <3>2, Frame DEF Kept
    <3>3. CASE PeriodKey(current', period) = key - 1 /\ OneBehind
      BY <1>1, <1>2, <2>1, <2>2, <3>3, Frame DEF OneBehind
    <3>4. CASE PeriodKey(current', period) = key
      <4>1. Kept
        BY <1>1, <2>2, <3>1, <3>4 DEF OneBehind
      <4>2. QED
        BY <1>1, <1>2, <2>1, <2>2, <3>4, <4>1, Frame DEF Kept, OneBehind
    <3>5. QED
      BY <2>2, <3>1, <3>2, <3>3, <3>4
  <2>7. WalkInv'
    BY <1>1, <2>1, <2>4, <2>5, <2>6, Frame DEF WalkInv
  <2>8. QED
    BY <2>3, <2>7 DEF IInv
<1>5. CASE Stop
  <2>1. /\ UNCHANGED <<entries, period, target, date, current, streak>>
        /\ pc = "walk" /\ pc' = "done"
        /\ ~Complete(key)
    BY <1>5 DEF Stop
  <2>2. TypeOK'
    BY <2>1 DEF IInv, TypeOK
  <2>3. WalkInv'
    BY <2>1, Frame DEF IInv, WalkInv, StreakBridgesNoGap, Kept, OneBehind
  <2>4. QED
    BY <2>2, <2>3 DEF IInv
<1>6. CASE UNCHANGED vars
  <2>1. UNCHANGED <<entries, period, target, date, current, streak, pc>>
    BY <1>6 DEF vars
  <2>2. QED
    BY <2>1, Frame DEF IInv, TypeOK, WalkInv, StreakBridgesNoGap, Kept, OneBehind
<1>7. QED
  BY <1>3, <1>4, <1>5, <1>6 DEF Next

\* The walk keeps its invariant.
THEOREM WalkInvariant == Spec => []IInv
BY InitIInv, NextIInv, PTL DEF Spec

-----------------------------------------------------------------------------

\* Every variable keeps its type; a monthly walk stays among the dates of
\* the calendar although it may come to the month before the first entry.
THEOREM TypeCorrect == Spec => []TypeOK
<1>1. IInv => TypeOK
  BY DEF IInv
<1>2. QED
  BY <1>1, WalkInvariant, PTL

\* computeStreak returns the length of the longest run of complete periods
\* ending with the current period, or with the one before it while the
\* current one is in progress, on every date whose day every month has
\* (habit.go:52-77).
THEOREM StreakCorrect == Spec => []StreakIsMaximalRun
<1>1. IInv => StreakIsMaximalRun
  BY DEF IInv, WalkInv, StreakIsMaximalRun
<1>2. QED
  BY <1>1, WalkInvariant, PTL

\* Whatever the date, months that are skipped or counted twice included, a
\* streak bridges no period that missed its target (habit.go:67-75).
THEOREM StreakHasNoGap == Spec => []StreakBridgesNoGap
<1>1. IInv => StreakBridgesNoGap
  BY DEF IInv, WalkInv
<1>2. QED
  BY <1>1, WalkInvariant, PTL

\* The days that a month lacks, in however many months of the walk, make it
\* count one month twice at most, and leave none out (habit.go:40-50, 67-75).
THEOREM StreakCountsOneMonthTwiceAtMost == Spec => []OneMonthTwiceAtMost
<1>1. ASSUME IInv PROVE OneMonthTwiceAtMost
  <2>1. /\ PeriodKey(current, period) \in Int /\ PeriodKey(date, period) \in Int
        /\ streak \in Nat
    BY <1>1, DateHasPrevious, PeriodKeyType DEF IInv, TypeOK
  <2>2. Base \in Int
    BY <2>1 DEF Base
  <2>3. CASE pc = "start"
    BY <1>1, <2>1, <2>3 DEF IInv, WalkInv, Base, OneMonthTwiceAtMost
  <2>4. CASE pc # "start"
    BY <1>1, <2>1, <2>2, <2>4 DEF IInv, WalkInv, Kept, OneBehind, OneMonthTwiceAtMost
  <2>5. QED
    BY <2>3, <2>4
<1>2. QED
  BY <1>1, WalkInvariant, PTL

\* List's period_count is the number of entries with the date's key.
LEMMA SqlAndGo ==
  ASSUME TypeOK
  PROVE  SqlAndGoPeriodsAgree
<1>1. \A e \in entries : e \in PeriodWindow(date, period)
                           <=> PeriodKey(e, period) = PeriodKey(date, period)
  BY StreakAssumption, WindowIsPeriod DEF TypeOK
<1>2. entries \cap PeriodWindow(date, period)
        = {e \in entries : PeriodKey(e, period) = PeriodKey(date, period)}
  BY <1>1
<1>3. QED
  BY <1>2 DEF SqlAndGoPeriodsAgree, PeriodCount

\* List's SQL and computeStreak count the same entries for the period of
\* the date (habit.go:28-38, 91-102).
THEOREM SqlAndGoAgree == Spec => []SqlAndGoPeriodsAgree
BY SqlAndGo, TypeCorrect, PTL

\* In a list of a date with no later entries, the streak of a habit shown as
\* completed counts the current period (habit_test.go:268-289).
THEOREM CompletedNowCounts == Spec => []CompletedNowIsInStreak
<1>1. IInv => CompletedNowIsInStreak
  <2>1. SUFFICES ASSUME IInv, pc = "done", Completed, entries = Fetched
                 PROVE  streak >= 1
    BY DEF CompletedNowIsInStreak
  <2>2. Complete(PeriodKey(date, period))
    <3>1. TypeOK => SqlAndGoPeriodsAgree
      BY SqlAndGo
    <3>2. QED
      BY <2>1, <3>1 DEF IInv, SqlAndGoPeriodsAgree, Completed, Complete, Count
  <2>3. streak # 0
    BY <2>1, <2>2 DEF IInv, WalkInv
  <2>4. QED
    BY <2>1, <2>3 DEF IInv, TypeOK
<1>2. QED
  BY <1>1, WalkInvariant, PTL
-----------------------------------------------------------------------------
(* The walk ends.                                                          *)

\* Later days lie in later periods.
LEMMA PeriodGrows ==
  ASSUME NEW p \in Periods, NEW d \in Dates, NEW e \in Dates, d <= e
  PROVE  PeriodKey(d, p) <= PeriodKey(e, p)
<1>1. d \in Int /\ e \in Int
  BY MonthOfDate
<1>2. d \div 7 <= e \div 7
  BY <1>1
<1>3. QED
  BY <1>1, <1>2, MonthGrows DEF PeriodKey, Periods

\* A complete period has an entry: every target is at least one.
LEMMA CompleteHasEntry ==
  ASSUME TypeOK, NEW key, Complete(key)
  PROVE  \E e \in Fetched : PeriodKey(e, period) = key
<1>1. SUFFICES ASSUME {e \in Fetched : PeriodKey(e, period) = key} = {}
               PROVE  FALSE
  OBVIOUS
<1>2. Count(key) = 0
  BY <1>1, FS_EmptySet DEF Count
<1>3. target \in Int /\ target >= 1
  BY StreakAssumption DEF TypeOK, Targets
<1>4. QED
  BY <1>2, <1>3 DEF Complete

\* A streak has an entry.
HasEntry == streak # 0 => Fetched # {}

LEMMA NextHasEntry == IInv /\ HasEntry /\ [Next]_vars => HasEntry'
<1> SUFFICES ASSUME IInv, HasEntry, [Next]_vars PROVE HasEntry'
  OBVIOUS
<1>1. Fetched' = Fetched
  BY DEF Next, SkipInProgress, Walk, Stop, vars, Fetched
<1>2. CASE Walk
  <2>1. Complete(PeriodKey(current, period))
    BY <1>2 DEF Walk
  <2>2. Fetched # {}
    BY <2>1, CompleteHasEntry DEF IInv
  <2>3. QED
    BY <1>1, <2>2 DEF HasEntry
<1>3. CASE streak' = streak
  BY <1>1, <1>3 DEF HasEntry
<1>4. QED
  BY <1>2, <1>3 DEF Next, SkipInProgress, Stop, vars

\* The loop runs no more often than there are periods from the first entry
\* to the date of the list, and one more: each round counts a streak of one
\* more, and a target of at least one stops it before the first entry, on
\* every date, month ends included (habit.go:67-75).
THEOREM StreakIsBounded ==
  Spec => [](\A first \in Dates :
               streak # 0 /\ (\A e \in Fetched : first <= e) =>
                 streak <= PeriodKey(date, period) - PeriodKey(first, period) + 2)
<1>1. ASSUME IInv, HasEntry, NEW first \in Dates, streak # 0,
             \A e \in Fetched : first <= e
      PROVE  streak <= PeriodKey(date, period) - PeriodKey(first, period) + 2
  <2> DEFINE key == PeriodKey(current, period)
             low == PeriodKey(first, period)
             high == PeriodKey(date, period)
  <2>1. period \in Periods /\ streak \in Nat /\ pc # "start"
    BY <1>1 DEF IInv, TypeOK, WalkInv
  <2>2. date \in Dates /\ date \in Int /\ first \in Int
    BY <1>1, DateHasPrevious, MonthOfDate DEF IInv
  <2>3. key \in Int /\ low \in Int /\ high \in Int
    BY <1>1, <2>2, PeriodKeyType DEF IInv, TypeOK
  <2>4. Base \in Int /\ Base <= high
    <3> HIDE DEF key, low
    <3>1. QED
      BY <2>3 DEF Base
  <2>5. streak <= Base - key + 1
    <3> HIDE DEF low, high
    <3>1. Kept \/ OneBehind
      BY <1>1, <2>1 DEF IInv, WalkInv
    <3>2. QED
      BY <2>1, <2>3, <2>4, <3>1 DEF Kept, OneBehind
  <2>6. ASSUME NEW e \in Fetched
        PROVE  /\ e \in Dates /\ PeriodKey(e, period) \in Int
               /\ low <= PeriodKey(e, period) /\ PeriodKey(e, period) <= high
    <3>1. e \in Dates /\ e \in Int /\ first <= e /\ e <= date
      BY <1>1, <2>2, StreakAssumption, MonthOfDate DEF IInv, TypeOK, Fetched
    <3>2. PeriodKey(e, period) \in Int
      BY <2>1, <3>1, PeriodKeyType
    <3>3. QED
      BY <2>1, <2>2, <3>1, <3>2, PeriodGrows
  <2>7. low <= high
    <3>1. PICK e \in Fetched : TRUE
      BY <1>1 DEF HasEntry
    <3>2. PeriodKey(e, period) \in Int /\ low <= PeriodKey(e, period) /\ PeriodKey(e, period) <= high
      BY <2>6
    <3> HIDE DEF low, high
    <3>3. QED
      BY <2>3, <3>2
  <2>8. CASE key < Base
    <3>1. Complete(key + 1)
      <4> HIDE DEF low, high
      <4>1. key + 1 \in PeriodKey(current, period) + 1 .. Base
        BY <2>3, <2>4, <2>8
      <4>2. QED
        BY <1>1, <4>1 DEF IInv, WalkInv, StreakBridgesNoGap
    <3>2. PICK e \in Fetched : PeriodKey(e, period) = key + 1
      BY <1>1, <3>1, CompleteHasEntry DEF IInv
    <3>3. low <= key + 1
      BY <2>6, <3>2
    <3> HIDE DEF key, low, high
    <3>4. QED
      BY <2>1, <2>3, <2>4, <2>5, <3>3 DEF low, high
  <2>9. CASE ~(key < Base)
    <3> HIDE DEF key, low, high
    <3>1. QED
      BY <2>1, <2>3, <2>4, <2>5, <2>7, <2>9 DEF low, high
  <2>10. QED
    BY <2>8, <2>9
<1>2. Init => HasEntry
  BY DEF Init, HasEntry
<1>3. Spec => []HasEntry
  BY <1>2, NextHasEntry, WalkInvariant, PTL DEF Spec
<1>4. IInv /\ HasEntry =>
        \A first \in Dates :
          streak # 0 /\ (\A e \in Fetched : first <= e) =>
            streak <= PeriodKey(date, period) - PeriodKey(first, period) + 2
  BY <1>1
<1>5. QED
  BY <1>3, <1>4, WalkInvariant, PTL

=============================================================================
