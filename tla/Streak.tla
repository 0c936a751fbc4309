-------------------------------- MODULE Streak --------------------------------
(***************************************************************************)
(* What List computes for one habit: the count of the period its SQL       *)
(* compares with the target, and the streak computeStreak walks back, from *)
(* the date of the list, over the entries the second query returned.       *)
(***************************************************************************)
EXTENDS Calendar, FiniteSets

CONSTANTS
  EntryDates,   \* the days the habit may have entries on
  ListDates,    \* the dates that are listed
  MaxTarget     \* targets from 1 up to this are looked at

Periods == {"day", "week", "month"}

Targets == 1 .. MaxTarget

VARIABLES
  entries,      \* the days of the habit's rows of table entries
  period,
  target,
  date,         \* the date of the list
  current,      \* computeStreak's position
  streak,
  pc

vars == <<entries, period, target, date, current, streak, pc>>

\* The first month of the window is the one before anything happened.
ASSUME StreakAssumption ==
  /\ MaxTarget \in Nat
  /\ EntryDates \subseteq Dates \ MonthDays(0)
  /\ ListDates \subseteq Dates \ MonthDays(0)
  /\ IsFiniteSet(EntryDates)

-----------------------------------------------------------------------------

\* The second query of List.
Fetched == {e \in entries : e <= date}

\* Faulty variant: the entry of the date itself is not counted.
CountBefore(key) ==
  Cardinality({e \in Fetched \ {date} : PeriodKey(e, period) = key})

\* computeStreak's counts[key].
Count(key) == Cardinality({e \in Fetched : PeriodKey(e, period) = key})

Complete(key) == Count(key) >= target

\* The columns period_count and completed of List's first query.
PeriodCount == Cardinality(entries \cap PeriodWindow(date, period))

Completed == PeriodCount >= target

-----------------------------------------------------------------------------

Init ==
  /\ entries \in SUBSET EntryDates
  /\ period \in Periods
  /\ target \in Targets
  /\ date \in ListDates
  /\ current = date
  /\ streak = 0
  /\ pc = "start"

\* Faulty variant: a period in progress ends the streak.
StartAtDate ==
  /\ pc = "start"
  /\ pc' = "walk"
  /\ UNCHANGED <<entries, period, target, date, current, streak>>

\* A current period that has not met the target is left out.
SkipInProgress ==
  /\ pc = "start"
  /\ current' = IF Complete(PeriodKey(current, period))
                THEN current ELSE PrevPeriodDate(current, period)
  /\ pc' = "walk"
  /\ UNCHANGED <<entries, period, target, date, streak>>

\* Faulty variant: the walk does not move.
WalkInPlace ==
  /\ pc = "walk"
  /\ Complete(PeriodKey(current, period))
  /\ pc' = "walk"
  /\ UNCHANGED <<entries, period, target, date, current, streak>>

Walk ==
  /\ pc = "walk"
  /\ Complete(PeriodKey(current, period))
  /\ streak' = streak + 1
  /\ current' = PrevPeriodDate(current, period)
  /\ UNCHANGED <<entries, period, target, date, pc>>

Stop ==
  /\ pc = "walk"
  /\ ~Complete(PeriodKey(current, period))
  /\ pc' = "done"
  /\ UNCHANGED <<entries, period, target, date, current, streak>>

Next == SkipInProgress \/ Walk \/ Stop

Spec == Init /\ [][Next]_vars

\* A loop of one goroutine: it runs as long as it can.
FairSpec == Spec /\ WF_vars(Next)

-----------------------------------------------------------------------------

TypeOK ==
  /\ entries \subseteq EntryDates
  /\ period \in Periods
  /\ target \in Targets
  /\ date \in ListDates
  /\ current \in Int
  /\ period = "month" => current \in Dates
  /\ streak \in Nat
  /\ pc \in {"start", "walk", "done"}

\* The last period that can count: the current one once it is complete.
Base ==
  LET key == PeriodKey(date, period)
  IN  IF Complete(key) THEN key ELSE key - 1

\* The day of the month of the date occurs in every month.
KeepsDayOfMonth == period = "month" => DayOfMonth(date) < 28

\* The streak is the longest run of complete periods that ends with the
\* current period, or with the one before while the current one is in
\* progress (habit.go:52-55), on every date whose day every month has.
StreakIsMaximalRun ==
  pc = "done" /\ KeepsDayOfMonth =>
    /\ \A k \in 0 .. streak - 1 : Complete(Base - k)
    /\ ~Complete(Base - streak)

\* Whatever the date, a streak bridges no period that missed its target:
\* all periods between the one the walk has come to and the one it began
\* with are complete (habit.go:67-75).
StreakBridgesNoGap ==
  \A k \in PeriodKey(current, period) + 1 .. Base : Complete(k)

\* A day that a month lacks makes the walk stay in the month it came from.
\* It does so once at most, whatever the date and however many such months
\* there are: a streak counts no month out and at most one month twice
\* (habit.go:40-50, 67-75).
OneMonthTwiceAtMost ==
  streak - (Base - PeriodKey(current, period)) \in {0, 1}

\* The SQL of List and the Go of computeStreak cut time into the same
\* periods, so that both count the same entries (habit.go:28-38, 91-102).
SqlAndGoPeriodsAgree ==
  PeriodCount =
    Cardinality({e \in entries : PeriodKey(e, period) = PeriodKey(date, period)})

\* In a list of a date with no later entries, the streak of a habit that is
\* shown as completed counts the current period (habit_test.go:268-289).
CompletedNowIsInStreak ==
  pc = "done" /\ Completed /\ entries = Fetched => streak >= 1

\* A period in progress does not reset an intact streak (habit.go:53-55).
InProgressKeepsStreak ==
  LET key == PeriodKey(date, period)
  IN  pc = "done" /\ ~Complete(key) /\ Complete(key - 1) => streak >= 1

\* computeStreak returns (habit.go:67-75).
Terminates == <>(pc = "done")

=============================================================================
