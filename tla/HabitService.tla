----------------------------- MODULE HabitService -----------------------------
(***************************************************************************)
(* The writes of the habit tracker, as the HTTP handlers run them: every   *)
(* request is a goroutine of its own, each SQL statement is one atomic     *)
(* step of the database in autocommit mode, and any other request may run  *)
(* between two statements of a request.  A statement may fail, and a       *)
(* statement that was executed may still be reported as failed (the        *)
(* connection is lost after the commit, the client goes away, the process  *)
(* is killed): the request then ends with an error.                        *)
(***************************************************************************)
EXTENDS HabitStore

CONSTANTS
  Requests,      \* slots for requests being served
  NoDay,         \* a date parameter that is absent or does not parse
  NotANumber,    \* a count that strconv.Atoi rejects
  Frequencies    \* the values of the form field frequency: [n, unit]

VARIABLES
  now,      \* the clock
  habits,   \* table habits: a row, or NoHabit, for each id
  entries,  \* table entries: pairs <<habit id, day>>, UNIQUE (habit_id, day)
  pc,       \* the statement each request is about to send
  arg,      \* the arguments of the service call of each request
  result    \* what the service call of each request returned

vars == <<now, habits, entries, pc, arg, result>>

Today == GoDate[now]

RawDays == Days \cup {NoDay}

\* Faulty variant: a day in the future is accepted.
ParseDateParamUnclamped(query, form) ==
  CASE query # NoDay -> query
    [] form # NoDay /\ query = NoDay -> form
    [] OTHER -> Today

\* The request's day: the first of its two date values that parses and is
\* not in the future, today when neither does.
ParseDateParam(query, form) ==
  LET usable(raw) == raw # NoDay /\ raw <= Today
  IN  CASE usable(query) -> query
        [] usable(form) /\ ~usable(query) -> form
        [] OTHER -> Today

\* A frequency "n:unit"; a value without a colon has neither part.
ASSUME FrequencyAssumption ==
  /\ Frequencies \subseteq [n : Int \cup {NotANumber}, unit : STRING]
  /\ NotANumber \notin Int
  /\ NoDay \notin Days

\* Faulty variant: counts below one are accepted.
ParseFrequencyUnguarded(f) ==
  [target |-> IF f.n # NotANumber THEN f.n ELSE 1,
   period |-> IF f.unit \in {"week", "month"} THEN f.unit ELSE "day"]

ParseFrequency(f) ==
  [target |-> IF f.n # NotANumber /\ f.n > 0 THEN f.n ELSE 1,
   period |-> IF f.unit \in {"week", "month"} THEN f.unit ELSE "day"]

Statements == {"create", "delete", "load", "check", "insert", "remove"}

Results == {"none", "ok", "added", "removed",
            "notFound", "inactive", "error"}

\* The arguments of the service calls: create uses user, target and
\* period, the others user, habit and day.
Args ==
  [user   : Users \cup {NoUser},
   habit  : HabitIds \cup {NoHabit},
   day    : RawDays,
   target : Nat,
   period : Periods]

NoArg ==
  [user |-> NoUser, habit |-> NoHabit, day |-> NoDay,
   target |-> 0, period |-> "day"]

-----------------------------------------------------------------------------

\* Rows from before migration 002: target and period have the defaults of
\* their columns and nobody owns them.
LegacyRows ==
  {[owner     |-> NoUser,
    target    |-> 1,
    period    |-> "day",
    createdAt |-> t,
    deletedAt |-> NotDeleted] : t \in {t \in Instants : t <= now}}

\* A new database, or one that migration 002 has just reached.
Init ==
  /\ now \in Clock
  /\ habits \in [HabitIds -> {NoHabit} \cup LegacyRows]
  /\ entries = {}
  /\ pc = [r \in Requests |-> "idle"]
  /\ arg = [r \in Requests |-> NoArg]
  /\ result = [r \in Requests |-> "none"]

Tick ==
  /\ \E t \in Clock : t > now /\ now' = t
  /\ UNCHANGED <<habits, entries, pc, arg, result>>

-----------------------------------------------------------------------------

\* The part of a handler before its first statement.
Begin(r, statement, a) ==
  /\ pc[r] = "idle"
  /\ pc' = [pc EXCEPT ![r] = statement]
  /\ arg' = [arg EXCEPT ![r] = a]
  /\ UNCHANGED <<now, habits, entries, result>>

BeginCreate(r) ==
  \E u \in Users, f \in Frequencies :
    Begin(r, "create", [NoArg EXCEPT !.user   = u,
                                     !.target = ParseFrequency(f).target,
                                     !.period = ParseFrequency(f).period])

\* The arguments of Toggle and Delete.
OnDayArgs(u, h, d) == [NoArg EXCEPT !.user = u, !.habit = h, !.day = d]

\* toggleHabit takes the habit from the path and the day from the query or
\* from the posted form.
BeginToggle(r) ==
  \E u \in Users, h \in HabitIds, query, form \in RawDays :
    Begin(r, "load", OnDayArgs(u, h, ParseDateParam(query, form)))

\* The form values of a DELETE request are those of its query.
BeginDelete(r) ==
  \E u \in Users, h \in HabitIds, query \in RawDays :
    Begin(r, "delete", OnDayArgs(u, h, ParseDateParam(query, query)))

\* The service call ends with this result.
Return(r, res) ==
  /\ pc' = [pc EXCEPT ![r] = "returned"]
  /\ result' = [result EXCEPT ![r] = res]
  /\ UNCHANGED <<now, arg>>

\* The service call goes on to its next statement.
Goto(r, statement) ==
  /\ pc' = [pc EXCEPT ![r] = statement]
  /\ UNCHANGED <<now, habits, entries, arg, result>>

-----------------------------------------------------------------------------

\* INSERT INTO habits: fails when the target is no INT or the SERIAL is
\* exhausted.
CreateHabit(r) ==
  /\ pc[r] = "create"
  /\ LET a == arg[r]
         free == {h \in HabitIds : habits[h] = NoHabit}
     IN  \/ /\ a.target <= MaxInt4
            /\ \E h \in free :
                 habits' = [habits EXCEPT ![h] =
                   [owner     |-> a.user,
                    target    |-> a.target,
                    period    |-> a.period,
                    createdAt |-> now,
                    deletedAt |-> NotDeleted]]
            /\ \E res \in {"ok", "error"} : Return(r, res)
            /\ UNCHANGED entries
         \/ /\ a.target > MaxInt4 \/ free = {}
            /\ Return(r, "error")
            /\ UNCHANGED <<habits, entries>>

\* Faulty variant: the habit is deleted as of now, not of the day asked for.
SoftDeleteNow(r) ==
  /\ pc[r] = "delete"
  /\ IF Owns(habits, arg[r].user, arg[r].habit)
     THEN /\ habits' = [habits EXCEPT ![arg[r].habit].deletedAt = now]
          /\ Return(r, "ok")
          /\ UNCHANGED entries
     ELSE /\ Return(r, "notFound")
          /\ UNCHANGED <<habits, entries>>

\* UPDATE habits SET deleted_at: whatever deleted_at held before.
SoftDelete(r) ==
  /\ pc[r] = "delete"
  /\ LET a == arg[r]
     IN  \/ /\ Owns(habits, a.user, a.habit)
            /\ habits' = [habits EXCEPT
                 ![a.habit].deletedAt = PgMidnight[a.day]]
            /\ \E res \in {"ok", "error"} : Return(r, res)
            /\ UNCHANGED entries
         \/ /\ ~Owns(habits, a.user, a.habit)
            /\ Return(r, "notFound")
            /\ UNCHANGED <<habits, entries>>

\* Faulty variant: the row's dates are not tested.
ToggleLoadUntested(r) ==
  /\ pc[r] = "load"
  /\ IF Owns(habits, arg[r].user, arg[r].habit)
     THEN Goto(r, "check")
     ELSE Return(r, "notFound") /\ UNCHANGED <<habits, entries>>

\* Toggle's SELECT created_at, deleted_at and the two tests on the row.
ToggleLoad(r) ==
  /\ pc[r] = "load"
  /\ LET a == arg[r]
     IN  \/ /\ Owns(habits, a.user, a.habit)
            /\ ActiveOn(habits[a.habit], a.day)
            /\ Goto(r, "check")
         \/ /\ Owns(habits, a.user, a.habit)
            /\ ~ActiveOn(habits[a.habit], a.day)
            /\ Return(r, "inactive")
            /\ UNCHANGED <<habits, entries>>
         \/ /\ ~Owns(habits, a.user, a.habit)
            /\ Return(r, "notFound")
            /\ UNCHANGED <<habits, entries>>

\* Faulty variant: an entry of the habit on any day is found.
ToggleCheckAnyDay(r) ==
  /\ pc[r] = "check"
  /\ Goto(r, IF \E e \in entries : e[1] = arg[r].habit
             THEN "remove" ELSE "insert")

\* Toggle's SELECT EXISTS.
ToggleCheck(r) ==
  /\ pc[r] = "check"
  /\ Goto(r, IF <<arg[r].habit, arg[r].day>> \in entries
             THEN "remove" ELSE "insert")

\* Faulty variant: the entries of all days are removed.
ToggleRemoveAllDays(r) ==
  /\ pc[r] = "remove"
  /\ entries' = {e \in entries : e[1] # arg[r].habit}
  /\ Return(r, "removed")
  /\ UNCHANGED habits

\* Toggle's DELETE: no error when the row is no longer there.
ToggleRemove(r) ==
  /\ pc[r] = "remove"
  /\ entries' = entries \ {<<arg[r].habit, arg[r].day>>}
  /\ \E res \in {"removed", "error"} : Return(r, res)
  /\ UNCHANGED habits

\* Toggle's INSERT: the UNIQUE constraint refuses a second row.
ToggleInsert(r) ==
  /\ pc[r] = "insert"
  /\ LET e == <<arg[r].habit, arg[r].day>>
     IN  \/ /\ e \notin entries
            /\ entries' = entries \cup {e}
            /\ \E res \in {"added", "error"} : Return(r, res)
         \/ /\ e \in entries
            /\ Return(r, "error")
            /\ UNCHANGED entries
  /\ UNCHANGED habits

\* A statement fails without effect, the client disconnects, or the process
\* is killed between two statements.
Abort(r) ==
  /\ pc[r] \in Statements
  /\ Return(r, "error")
  /\ UNCHANGED <<habits, entries>>

\* The handler answers and its goroutine ends.
Respond(r) ==
  /\ pc[r] = "returned"
  /\ pc' = [pc EXCEPT ![r] = "idle"]
  /\ arg' = [arg EXCEPT ![r] = NoArg]
  /\ result' = [result EXCEPT ![r] = "none"]
  /\ UNCHANGED <<now, habits, entries>>

\* A request that is being served advances.
Serve(r) ==
  \/ CreateHabit(r)
  \/ SoftDelete(r)
  \/ ToggleLoad(r)
  \/ ToggleCheck(r)
  \/ ToggleRemove(r)
  \/ ToggleInsert(r)
  \/ Respond(r)

Next ==
  \/ Tick
  \/ \E r \in Requests :
       \/ BeginCreate(r) \/ BeginToggle(r) \/ BeginDelete(r)
       \/ Serve(r) \/ Abort(r)

Spec == Init /\ [][Next]_vars

-----------------------------------------------------------------------------

TypeOK ==
  /\ now \in Clock
  /\ habits \in [HabitIds -> HabitRow \cup {NoHabit}]
  /\ entries \subseteq HabitIds \X Days
  /\ pc \in [Requests -> Statements \cup {"idle", "returned"}]
  /\ arg \in [Requests -> Args]
  /\ result \in [Requests -> Results]

\* Every entry belongs to a habit of some user and lies between the habit's
\* creation date and today, although Toggle writes it two statements after
\* it looked at the habit (habit.go:257-289) and the handler clamped the
\* day before that (handler.go:278).
EntriesWithinLife ==
  \A e \in entries :
    /\ habits[e[1]] # NoHabit
    /\ habits[e[1]].owner \in Users
    /\ GoDate[habits[e[1]].createdAt] <= e[2]
    /\ e[2] <= Today

\* A habit is deleted as of a date that is not in the future, seen from
\* either zone (handler.go:322, habit.go:238).
DeletionsNotInFuture ==
  \A h \in HabitIds :
    habits[h] # NoHabit /\ habits[h].deletedAt # NotDeleted =>
      /\ PgDate[habits[h].deletedAt] <= Today
      /\ GoDate[habits[h].deletedAt] <= Today

\* The two statements of which habits are active on a day agree: List, in
\* SQL, shows a user a habit on a day exactly when Toggle, in Go, would
\* accept that habit and day (habit.go:103-107 and 268-273).
ListedIffTogglable ==
  \A u \in Users, h \in HabitIds, d \in Days :
    d <= Today =>
      (ListedOn(habits, entries, u, h, d)
         <=> Owns(habits, u, h) /\ ActiveOn(habits[h], d))

\* A habit and day that Toggle accepts is a row List returns, so toggling
\* never makes the toggled row vanish from the list that follows it
\* (handler.go:280-304).
TogglableIsListed ==
  \A u \in Users, h \in HabitIds, d \in Days :
    d <= Today /\ Owns(habits, u, h) /\ ActiveOn(habits[h], d) =>
      ListedOn(habits, entries, u, h, d)

\* MonthSummary's AllDone says what model.go:43 says it does: every habit
\* that is active on the day has an entry on it.
AllDoneMeansAll ==
  \A u \in Users, d \in Days :
    DaySummary(habits, entries, u, d).allDone =>
      \A h \in ActiveHabits(habits, u, d) : <<h, d>> \in entries

\* ... and it does as long as the user has deleted no habit: the entries it
\* counts are then entries of the active habits it compares them with
\* (habit.go:176-192).
AllDoneMeansAllUntilDeletion ==
  \A u \in Users, d \in Days :
    /\ \A h \in HabitIds :
         Owns(habits, u, h) => habits[h].deletedAt = NotDeleted
    /\ DaySummary(habits, entries, u, d).allDone
    => \A h \in ActiveHabits(habits, u, d) : <<h, d>> \in entries

\* What is stored about a habit changes only in a statement of a request of
\* the user who owns it, although the statements that write entries name no
\* user (habit.go:285, 289); rows that nobody owns never change.
OwnerOnly ==
  [][\A h \in HabitIds :
       \/ habits'[h] # habits[h]
       \/ \E d \in Days : <<h, d>> \in entries' <=> <<h, d>> \notin entries
       => \E r \in Requests : /\ pc[r] \in Statements
                               /\ pc'[r] = "returned"
                               /\ arg[r].user = habits'[h].owner]_vars

\* A successful Delete excludes the habit from its date onwards and leaves
\* every earlier day of its history as visible as it was (habit.go:234-235).
DeleteSplitsHistory ==
  [][\A r \in Requests :
       pc[r] = "delete" /\ result'[r] = "ok" =>
         \A d \in Days :
           LET listed  == ListedOn(habits, entries, arg[r].user,
                                   arg[r].habit, d)
               listed2 == ListedOn(habits', entries', arg[r].user,
                                   arg[r].habit, d)
           IN  IF d < arg[r].day THEN listed => listed2 ELSE ~listed2]_vars

\* Once excluded, a day stays excluded (habit.go:234-235).
ExcludedStaysExcluded ==
  [][\A u \in Users, h \in HabitIds, d \in Days :
       Owns(habits, u, h) /\ ~NotYetDeleted(habits[h], d) =>
         ~ListedOn(habits', entries', u, h, d)]_vars

\* Toggle reports an entry created or removed only when its own statement
\* created or removed it (habit.go:249-250).
ToggleReportsItsEffect ==
  [][\A r \in Requests :
       pc[r] \in {"insert", "remove"} /\ result'[r] \in {"added", "removed"}
         => entries' # entries]_vars

\* Toggle adds entries only on days on which the habit is active
\* (habit_toggle_test.go:29-33).
AddsOnActiveDaysOnly ==
  [][\A r \in Requests :
       pc[r] = "insert" /\ result'[r] = "added" =>
         ActiveOn(habits[arg[r].habit], arg[r].day)]_vars

=============================================================================
