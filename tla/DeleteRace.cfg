SPECIFICATION Spec
CONSTANTS
  Users = {u1}
  HabitIds = {h1}
  Requests = {r1, r2}
  NoUser = NoUser
  NoHabit = NoHabit
  NotDeleted = NotDeleted
  NoDay = NoDay
  NotANumber = NotANumber
  MaxInt4 = 1
  Instants <- MCInstants
  Clock <- MCClock
  Days <- MCDays
  GoDate <- MCSameZone
  PgDate <- MCPgDate
  PgMidnight <- MCPgMidnight
  Frequencies <- MCDaily
PROPERTIES
  AddsOnActiveDaysOnly
