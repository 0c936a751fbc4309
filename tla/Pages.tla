--------------------------------- MODULE Pages ---------------------------------
(***************************************************************************)
(* What the handlers do around the writes: index, day and calendar read,   *)
(* and create, toggle and delete answer with a list they read after their  *)
(* write.  A page is put together from several statements, between which   *)
(* other requests run and time passes.  Every statement takes a connection *)
(* of the pool; the ones that return rows keep it until the rows are read. *)
(*                                                                         *)
(* The requests of HabitService are extended with the part that reads: its *)
(* variables change as they do there, so what holds of HabitService holds  *)
(* of Pages.                                                               *)
(***************************************************************************)
EXTENDS HabitService

CONSTANTS
  MaxConns,     \* the size of the pool
  PeriodDays    \* the days of the period of this kind around a day

VARIABLE view   \* the reading part of each request

pageVars == <<vars, view>>

\* The days a period has are checked in module Streak.
ASSUME PagesAssumption ==
  /\ MaxConns \in Nat \ {0}
  /\ PeriodDays \in [Periods -> [Days -> SUBSET Days]]
  /\ NoHabit \notin HabitIds

Kinds == {"none", "index", "calendar", "create", "toggle", "delete"}

Queries == {"rows", "entries", "summary"}

\* The states in which the rows of a query are being read.
Reading == {"readRows", "readEntries", "readSummary"}

Rows == [habit : HabitIds, hasEntry : BOOLEAN, completed : BOOLEAN]

Views ==
  [at       : Queries \cup Reading \cup {"none", "header", "render", "rendered"},
   kind     : Kinds,
   user     : Users \cup {NoUser},
   habit    : HabitIds \cup {NoHabit},
   day      : RawDays,
   posted   : BOOLEAN,
   rows     : SUBSET Rows,
   confetti : BOOLEAN,
   banner   : BOOLEAN]

NoView ==
  [at |-> "none", kind |-> "none", user |-> NoUser, habit |-> NoHabit,
   day |-> NoDay, posted |-> FALSE, rows |-> {}, confetti |-> FALSE, banner |-> FALSE]

Free == Cardinality({r \in Requests : view[r].at \in Reading}) < MaxConns

-----------------------------------------------------------------------------

PageInit == Init /\ view = [r \in Requests |-> NoView]

PageTick == Tick /\ UNCHANGED view

\* A request that writes arrives.
BeginWrite(r) ==
  /\ view[r].at = "none"
  /\ BeginCreate(r) \/ BeginToggle(r) \/ BeginDelete(r)
  /\ UNCHANGED view

\* A request that reads arrives.
BeginRead(r, at, kind) ==
  /\ pc[r] = "idle" /\ view[r].at = "none"
  /\ \E u \in Users, query \in RawDays :
       view' = [view EXCEPT ![r] =
         [NoView EXCEPT !.at = at, !.kind = kind, !.user = u,
                        !.day = ParseDateParam(query, query)]]
  /\ UNCHANGED vars

\* index and day: the list, then the summary of its month.
BeginIndex(r) == BeginRead(r, "rows", "index")

\* calendar: the summary of a month.
BeginCalendar(r) == BeginRead(r, "summary", "calendar")

\* Create returns the new row's id.
PageCreate(r) ==
  /\ Free
  /\ CreateHabit(r)
  /\ \E h \in HabitIds \cup {NoHabit} :
       /\ IF result'[r] = "ok"
          THEN h \in HabitIds /\ habits[h] = NoHabit /\ habits'[h] # NoHabit
          ELSE h = NoHabit
       /\ view' = [view EXCEPT ![r].habit = h]

\* The other statements that write.
PageWrite(r) ==
  /\ Free
  /\ \/ SoftDelete(r)
     \/ ToggleLoad(r) \/ ToggleCheck(r) \/ ToggleInsert(r) \/ ToggleRemove(r)
  /\ UNCHANGED view

PageAbort(r) == Abort(r) /\ UNCHANGED view

\* A write that failed is answered at once.
AnswerError(r) ==
  /\ result[r] \notin {"ok", "added", "removed"}
  /\ Respond(r)
  /\ view' = [view EXCEPT ![r] = NoView]

-----------------------------------------------------------------------------

\* The write was done, and its handler goes on to List.  createHabit takes
\* its day from the form only now.
ListNext(r, kind, habit, day, posted) ==
  /\ view[r].at = "none"
  /\ view' = [view EXCEPT ![r] =
       [NoView EXCEPT !.at = "rows", !.kind = kind, !.user = arg[r].user,
                      !.habit = habit, !.day = day, !.posted = posted]]
  /\ UNCHANGED vars

\* Faulty variant: the list is of the posted day, if there is one.
ListCreatedRaw(r) ==
  /\ result[r] = "ok" /\ arg[r].habit = NoHabit
  /\ \E form \in RawDays :
       ListNext(r, "create", view[r].habit, form, form # NoDay)

\* Create's day: the form's, or today when it has none that can be used.
ListCreated(r) ==
  /\ result[r] = "ok" /\ arg[r].habit = NoHabit
  /\ \E query, form \in RawDays :
       ListNext(r, "create", view[r].habit, ParseDateParam(query, form),
                query # NoDay \/ form # NoDay)

ListToggled(r) ==
  /\ result[r] \in {"added", "removed"}
  /\ ListNext(r, "toggle", arg[r].habit, arg[r].day, TRUE)

ListDeleted(r) ==
  /\ result[r] = "ok" /\ arg[r].habit # NoHabit
  /\ ListNext(r, "delete", arg[r].habit, arg[r].day, TRUE)

-----------------------------------------------------------------------------

\* The columns of a row of List's first query.
RowOf(h, d) ==
  [habit     |-> h,
   hasEntry  |-> <<h, d>> \in entries,
   completed |->
     Cardinality({e \in entries :
       e[1] = h /\ e[2] \in PeriodDays[habits[h].period][d]})
       >= habits[h].target]

ListRows(u, d) ==
  {RowOf(h, d) : h \in {h \in HabitIds : ListedOn(habits, entries, u, h, d)}}

Move(r, at) == view' = [view EXCEPT ![r].at = at] /\ UNCHANGED vars

\* List's SELECT of the habits takes a connection.
QueryRows(r) ==
  /\ view[r].at = "rows"
  /\ Free
  /\ view' = [view EXCEPT ![r].at = "readRows",
                          ![r].rows = ListRows(view[r].user, view[r].day)]
  /\ UNCHANGED vars

\* What follows the list.
AfterList(kind) ==
  CASE kind = "index"  -> "summary"
    [] kind = "toggle" -> "header"
    [] OTHER           -> "render"

\* Faulty variant: the rows are kept open while the entries are queried.
ReadRowsKept(r) ==
  /\ view[r].at = "readRows"
  /\ IF view[r].rows # {}
     THEN MaxConns > 1 /\ Move(r, "entries")
     ELSE Move(r, AfterList(view[r].kind))

\* Faulty variant: a list that has no rows is queried again.
ReadRowsAgain(r) ==
  /\ view[r].at = "readRows"
  /\ Move(r, IF view[r].rows # {} THEN "entries" ELSE "rows")

\* The rows are read to their end, which gives the connection back.
ReadRows(r) ==
  /\ view[r].at = "readRows"
  /\ Move(r, IF view[r].rows # {} THEN "entries" ELSE AfterList(view[r].kind))

\* List's SELECT of the entries, only for a list that is not empty.
QueryEntries(r) == view[r].at = "entries" /\ Free /\ Move(r, "readEntries")

ReadEntries(r) ==
  view[r].at = "readEntries" /\ Move(r, AfterList(view[r].kind))

\* MonthSummary's SELECT.
QuerySummary(r) == view[r].at = "summary" /\ Free /\ Move(r, "readSummary")

ReadSummary(r) == view[r].at = "readSummary" /\ Move(r, "render")

AllCompleted(rows) == \A row \in rows : row.completed

\* toggleHabit sets HX-Trigger when the list is of today.
SetHeader(r) ==
  /\ view[r].at = "header"
  /\ view' = [view EXCEPT
       ![r].at = "render",
       ![r].confetti = /\ view[r].day = Today
                       /\ view[r].rows # {}
                       /\ AllCompleted(view[r].rows)]
  /\ UNCHANGED vars

\* The templates read the clock again.
Render(r) ==
  /\ view[r].at = "render"
  /\ view' = [view EXCEPT
       ![r].at = "rendered",
       ![r].banner = /\ view[r].kind # "calendar"
                     /\ view[r].rows # {}
                     /\ AllCompleted(view[r].rows)
                     /\ view[r].day = Today]
  /\ UNCHANGED vars

\* The request ends.
End(r) ==
  /\ view' = [view EXCEPT ![r] = NoView]
  /\ \/ pc[r] = "returned" /\ Respond(r)
     \/ pc[r] = "idle" /\ UNCHANGED vars

AnswerPage(r) == view[r].at = "rendered" /\ End(r)

\* A query fails, or the client goes away: the connection goes back.
FailPage(r) == view[r].at \in Queries \cup Reading /\ End(r)

-----------------------------------------------------------------------------

ServePage(r) ==
  \/ PageCreate(r) \/ PageWrite(r) \/ AnswerError(r)
  \/ pc[r] = "returned" /\ (ListCreated(r) \/ ListToggled(r) \/ ListDeleted(r))
  \/ QueryRows(r) \/ ReadRows(r)
  \/ QueryEntries(r) \/ ReadEntries(r)
  \/ QuerySummary(r) \/ ReadSummary(r)
  \/ SetHeader(r) \/ Render(r) \/ AnswerPage(r)

PageNext ==
  \/ PageTick
  \/ \E r \in Requests :
       \/ BeginWrite(r) \/ BeginIndex(r) \/ BeginCalendar(r)
       \/ ServePage(r) \/ PageAbort(r) \/ FailPage(r)

PageSpec == PageInit /\ [][PageNext]_pageVars

\* A goroutine that can go on does; the pool serves those that wait for a
\* connection in their order.
FairPageSpec == PageSpec /\ \A r \in Requests : SF_pageVars(ServePage(r))

-----------------------------------------------------------------------------

PageTypeOK ==
  /\ TypeOK
  /\ view \in [Requests -> Views]
  /\ \A r \in Requests : view[r].at # "none" => view[r].day \in Days

\* How many steps there are at most from a place in a handler to its end.
StepsLeft(at, statement) ==
  CASE at = "none" /\ statement = "idle"     -> 0
    [] at = "none" /\ statement = "load"     -> 13
    [] at = "none" /\ statement = "check"    -> 12
    [] at = "none" /\ statement = "returned" -> 10
    [] at = "rows"        -> 9
    [] at = "readRows"    -> 8
    [] at = "entries"     -> 7
    [] at = "readEntries" -> 6
    [] at = "summary"     -> 5
    [] at = "readSummary" -> 4
    [] at = "header"      -> 3
    [] at = "render"      -> 2
    [] at = "rendered"    -> 1
    [] OTHER -> 11   \* one statement that writes

LeftToDo(r) == StepsLeft(view[r].at, pc[r])

\* A request that is being served never starts over, sends a statement again
\* or waits for one that others send: each of its steps brings its answer
\* nearer, and no step of another request takes it farther away
\* (habit.go:82-142, 224-291, handler.go:240-340).
AnswersComeNearer ==
  [][\A r \in Requests :
       LeftToDo(r) # 0 =>
         \/ UNCHANGED <<pc[r], view[r]>>
         \/ LeftToDo(r)' < LeftToDo(r)]_pageVars

\* The habit an answer is about has a row in its list.
InRows(r) == \E row \in view[r].rows : row.habit = view[r].habit

\* The list that answers a toggle or a create has the habit that was toggled
\* or created, whatever happened since the write: it is missing only if it
\* was deleted as of that day in between - a row without a habit is then
\* rendered in its place (handler.go:298-304) - or if the form that created
\* it was of a day before, left open over midnight (handler.go:255-267).
AnswerHasItsHabit ==
  [][\A r \in Requests :
       view[r].at = "rows" /\ view'[r].at = "readRows" =>
         LET v == view[r]
         IN  \/ InRows(r)'
             \/ v.kind \notin {"create", "toggle"}
             \/ ~NotYetDeleted(habits[v.habit], v.day)
             \/ /\ v.kind = "create" /\ v.posted
                /\ v.day < GoDate[habits[v.habit].createdAt]]_pageVars

\* The clock is read before the queries, after them for the confetti and
\* again for the banner: a toggle answered with the banner always has the
\* confetti too (handler.go:278, 306, habits_templ.go:534).
BannerHasConfetti ==
  \A r \in Requests :
    view[r].kind = "toggle" /\ view[r].banner => view[r].confetti

\* Every request is answered, however small the pool: none waits for a
\* connection while it keeps one (habit.go:82-142).
EveryPageIsAnswered ==
  \A r \in Requests :
    (pc[r] # "idle" \/ view[r].at # "none") ~>
      (pc[r] = "idle" /\ view[r].at = "none")

=============================================================================
