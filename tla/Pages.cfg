SPECIFICATION FairPageSpec
CONSTANTS
  Users = {u1}
  HabitIds = {h1}
  Requests = {r1, r2}
  NoUser = NoUser
  NoHabit = NoHabit
  NotDeleted = NotDeleted
  NoDay = NoDay
  NotANumber = NotANumber
  MaxInt4 = 2
  Instants <- MCInstants
  Clock <- MCClock
  Days <- MCDays
  GoDate <- MCGoDate
  PgDate <- MCPgDate
  PgMidnight <- MCPgMidnight
  Frequencies <- MCFrequencies
  MaxConns = 1
  PeriodDays <- MCPeriodDays
INVARIANTS
  DeletionsNotInFuture
  TogglableIsListed
  PageTypeOK
  BannerHasConfetti
PROPERTIES
  EveryPageIsAnswered
  AnswerHasItsHabit
  AnswersComeNearer
