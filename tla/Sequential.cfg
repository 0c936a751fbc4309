SPECIFICATION Spec
CONSTANTS
  Users = {u1}
  HabitIds = {h1, h2}
  Requests = {r1}
  NoUser = NoUser
  NoHabit = NoHabit
  NotDeleted = NotDeleted
  NoDay = NoDay
  NotANumber = NotANumber
  MaxInt4 = 1
  Instants <- MCInstants
  Clock <- MCClock
  Days <- MCDays
  GoDate <- MCSameZone
  PgDate <- MCPgDate
  PgMidnight <- MCPgMidnight
  Frequencies <- MCDaily
INVARIANTS
  AllDoneMeansAllUntilDeletion
PROPERTIES
  ToggleReportsItsEffect
  AddsOnActiveDaysOnly
  ImplementsStrictLedger
