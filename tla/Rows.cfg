SPECIFICATION Spec
CONSTANTS
  NMonths <- MCMonths
  MonthStart <- MCMonthStart
  HabitIds = {h1, h2}
  Slots = {q1, q2}
  Clock <- MCClock
  Oldest = 6
  Hasty = FALSE
  NoDay = NoDay
  NoHabit = NoHabit
  Idle = Idle
  NoAnswer = NoAnswer
INVARIANTS
  GridIsWholeWeeks
  RowsAreRight
  BannerIsRight
SYMMETRY MCSymmetry
