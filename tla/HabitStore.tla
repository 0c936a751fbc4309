------------------------------ MODULE HabitStore ------------------------------
(***************************************************************************)
(* The tables habits and entries and the SQL that reads them, as operators *)
(* on the value of a table, and the two calendars that date them: the Go   *)
(* process computes dates in time.Local, PostgreSQL in the time zone of    *)
(* its session.  A date is a day number, an instant a point of the clock.  *)
(***************************************************************************)
EXTENDS Integers, FiniteSets

CONSTANTS
  Users,        \* ids of the rows of table users
  HabitIds,     \* the values the SERIAL habits.id can take
  NoUser,       \* user_id IS NULL: a row older than migration 002
  NoHabit,      \* no row has this id
  NotDeleted,   \* deleted_at IS NULL
  MaxInt4,      \* largest value of an INT column
  Instants,     \* points of time a TIMESTAMPTZ can hold
  Clock,        \* the instants at which the system runs
  Days,         \* the dates requests can carry
  GoDate,       \* date of an instant in time.Local
  PgDate,       \* date of an instant in the database session's zone
  PgMidnight    \* first instant of a date in the database session's zone

Periods == {"day", "week", "month"}

HabitRow ==
  [owner     : Users \cup {NoUser},
   target    : 1 .. MaxInt4,
   period    : Periods,
   createdAt : Instants,
   deletedAt : Instants \cup {NotDeleted}]

\* The null values are not values of the columns they stand in.
ASSUME NullAssumption ==
  /\ NoUser \notin Users
  /\ NoHabit \notin HabitRow
  /\ NotDeleted \notin Instants
  /\ MaxInt4 \in Nat \ {0}

\* Time moves a local date forward only, and the zones of the two
\* processes are less than a day apart.
ASSUME ZoneAssumption ==
  /\ Instants \subseteq Int
  /\ Days \subseteq Int
  /\ Clock \subseteq Instants
  /\ GoDate \in [Instants -> Int]
  /\ PgDate \in [Instants -> Int]
  /\ PgMidnight \in [Days -> Instants]
  /\ \A i, j \in Instants : i <= j => GoDate[i] <= GoDate[j]
  /\ \A i \in Clock : GoDate[i] \in Days
  /\ \A d \in Days : PgDate[PgMidnight[d]] = d
  /\ \A d \in Days : GoDate[PgMidnight[d]] \in {d - 1, d}

\* Faulty variant: the user is not compared.
OwnsAnyUser(hs, u, h) == hs[h] # NoHabit

(***************************************************************************)
(* The row with this id whose user_id is u: WHERE id = $1 AND user_id = $2 *)
(***************************************************************************)
Owns(hs, u, h) == hs[h] # NoHabit /\ hs[h].owner = u

\* Faulty variant: the creation date is not compared.
ActiveBeforeCreation(row, d) ==
  row.deletedAt # NotDeleted => d < GoDate[row.deletedAt]

\* Faulty variant: the date of the deletion still counts as active.
ActiveOnDeletionDay(row, d) ==
  /\ GoDate[row.createdAt] <= d
  /\ row.deletedAt # NotDeleted => d <= GoDate[row.deletedAt]

\* Toggle's own test, in Go, of the row it has loaded.
ActiveOn(row, d) ==
  /\ GoDate[row.createdAt] <= d
  /\ row.deletedAt # NotDeleted => d < GoDate[row.deletedAt]

\* Faulty variant: a deleted habit is hidden on every day.
NeverDeleted(row, d) == row.deletedAt = NotDeleted

\* The deleted_at test of List and of MonthSummary, in SQL.
NotYetDeleted(row, d) ==
  row.deletedAt # NotDeleted => d < PgDate[row.deletedAt]

\* Faulty variant: the day of the creation itself is left out.
ListedAfterCreation(hs, es, u, h, d) ==
  /\ Owns(hs, u, h)
  /\ \/ PgDate[hs[h].createdAt] < d
     \/ \E e \in es : e[1] = h /\ e[2] <= d
  /\ NotYetDeleted(hs[h], d)

\* The WHERE clause of List.
ListedOn(hs, es, u, h, d) ==
  /\ Owns(hs, u, h)
  /\ \/ PgDate[hs[h].createdAt] <= d
     \/ \E e \in es : e[1] = h /\ e[2] <= d
  /\ NotYetDeleted(hs[h], d)

\* The habits MonthSummary counts on day d: active_per_day.
ActiveHabits(hs, u, d) ==
  {h \in HabitIds : /\ Owns(hs, u, h)
                    /\ PgDate[hs[h].createdAt] <= d
                    /\ NotYetDeleted(hs[h], d)}

\* The habits MonthSummary finds an entry of on day d: entries_per_day.
EntryHabits(hs, es, u, d) ==
  {h \in HabitIds : Owns(hs, u, h) /\ <<h, d>> \in es}

\* Faulty variant: one entry is enough for a day to be all done.
AnyDoneSummary(hs, es, u, d) ==
  [hasEntry |-> EntryHabits(hs, es, u, d) # {},
   allDone  |-> /\ ActiveHabits(hs, u, d) # {}
                /\ EntryHabits(hs, es, u, d) # {}]

\* The two flags of one day of MonthSummary: two counts are compared.
DaySummary(hs, es, u, d) ==
  [hasEntry |-> EntryHabits(hs, es, u, d) # {},
   allDone  |-> /\ ActiveHabits(hs, u, d) # {}
                /\ Cardinality(EntryHabits(hs, es, u, d))
                     >= Cardinality(ActiveHabits(hs, u, d))]

=============================================================================
