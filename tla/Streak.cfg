SPECIFICATION FairSpec
CONSTANTS
  NMonths <- MCMonths
  MonthStart <- MCMonthStart
  EntryDates <- MCEntryDates
  ListDates <- MCListDates
  MaxTarget = 2
INVARIANTS
  TypeOK
  StreakIsMaximalRun
  StreakBridgesNoGap
  OneMonthTwiceAtMost
  SqlAndGoPeriodsAgree
  CompletedNowIsInStreak
PROPERTIES
  Terminates
\* The walk ends.
CHECK_DEADLOCK FALSE
