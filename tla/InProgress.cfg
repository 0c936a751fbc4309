SPECIFICATION Spec
CONSTANTS
  NMonths <- MCMonths
  MonthStart <- MCMonthStart
  EntryDates <- MCEntryDates
  ListDates <- MCListDates
  MaxTarget = 2
INVARIANTS
  InProgressKeepsStreak
\* The walk ends.
CHECK_DEADLOCK FALSE
