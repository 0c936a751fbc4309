SPECIFICATION Spec
CONSTANTS
  NMonths <- MCMonths
  MonthStart <- MCMonthStart
  HabitIds = {h1}
  Slots = {q1, q2}
  Clock <- MCClock
  Oldest = 6
  Hasty = TRUE
  NoDay = NoDay
  NoHabit = NoHabit
  Idle = Idle
  NoAnswer = NoAnswer
INVARIANTS
  TypeOK
  UrlNamesTheDay
  CalendarBelongsToPage
  AnsweredAsAsked
PROPERTIES
  ImplementsLedger
SYMMETRY MCSymmetry
