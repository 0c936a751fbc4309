------------------------------ MODULE PagesProofs ------------------------------
(***************************************************************************)
(* The pages for any number of users, habits, requests and dates and a     *)
(* pool of any size: they leave the writes as they were, and an answer     *)
(* shows the habit it is about.                                            *)
(***************************************************************************)
EXTENDS Pages, HabitLedgerProofs

\* A habit of the user's.
Found(u, h) == h \in HabitIds /\ Owns(habits, u, h)

BegunBy(h, d) == GoDate[habits[h].createdAt] <= d

\* The write of a request has just been done.
Written(r) == pc[r] = "returned" /\ view[r].at = "none"

\* What the reading part of a request relies on.
ViewOK(r) ==
  /\ pc[r] = "create" => arg[r].habit = NoHabit
  /\ Written(r) /\ result[r] \in {"added", "removed"} =>
       /\ Found(arg[r].user, arg[r].habit) /\ BegunBy(arg[r].habit, arg[r].day)
       /\ arg[r].day \in Days /\ arg[r].day <= Today
  /\ Written(r) /\ result[r] = "ok" /\ arg[r].habit = NoHabit =>
       Found(arg[r].user, view[r].habit)
  /\ Written(r) /\ result[r] = "ok" /\ arg[r].habit # NoHabit =>
       arg[r].day \in Days /\ arg[r].day <= Today
  /\ view[r].at # "none" =>
       /\ pc[r] \in {"idle", "returned"}
       /\ view[r].day \in Days /\ view[r].day <= Today
  /\ view[r].at # "none" /\ view[r].kind \in {"create", "toggle"} =>
       /\ Found(view[r].user, view[r].habit)
       /\ \/ BegunBy(view[r].habit, view[r].day)
          \/ view[r].kind = "create" /\ view[r].posted
  /\ view[r].at = "none" => view[r].kind = "none"
  /\ view[r].kind = "toggle" => view[r].at \notin {"summary", "readSummary"}
  /\ view[r].banner => view[r].at = "rendered"
  /\ view[r].at = "render" /\ view[r].kind = "toggle" /\ view[r].day = Today
       /\ view[r].rows # {} /\ AllCompleted(view[r].rows) => view[r].confetti
  /\ view[r].kind = "toggle" /\ view[r].banner => view[r].confetti

ViewsOK == \A r \in Requests : ViewOK(r)

PageIInv == IInv /\ PageTypeOK /\ ViewsOK

-----------------------------------------------------------------------------
(* The pages leave the writes as they were.                                *)

\* What a step of the reading part does to the tables: nothing, except that
\* the request ends.
LEMMA EndStep ==
  ASSUME NEW r \in Requests, End(r)
  PROVE  [Next]_vars
BY DEF End, Next, Serve

LEMMA PageStep == [PageNext]_pageVars => [Next]_vars
<1> SUFFICES ASSUME [PageNext]_pageVars PROVE [Next]_vars
  OBVIOUS
<1>1. CASE UNCHANGED pageVars
  BY <1>1 DEF pageVars
<1>2. CASE PageTick
  BY <1>2 DEF PageTick, Next
<1>3. ASSUME NEW r \in Requests,
             \/ BeginWrite(r) \/ BeginIndex(r) \/ BeginCalendar(r)
             \/ PageAbort(r) \/ FailPage(r)
      PROVE  [Next]_vars
  BY <1>3, EndStep
     DEF BeginWrite, BeginIndex, BeginCalendar, BeginRead, PageAbort, FailPage, Next
<1>4. ASSUME NEW r \in Requests, ServePage(r) PROVE [Next]_vars
  <2>1. CASE PageCreate(r) \/ PageWrite(r) \/ AnswerError(r)
    BY <2>1 DEF PageCreate, PageWrite, AnswerError, Next, Serve
  <2>2. CASE ListCreated(r) \/ ListToggled(r) \/ ListDeleted(r)
    BY <2>2 DEF ListCreated, ListToggled, ListDeleted, ListNext
  <2>3. CASE \/ QueryRows(r) \/ ReadRows(r) \/ QueryEntries(r) \/ ReadEntries(r)
             \/ QuerySummary(r) \/ ReadSummary(r) \/ SetHeader(r) \/ Render(r)
    BY <2>3 DEF QueryRows, ReadRows, QueryEntries, ReadEntries, QuerySummary,
                ReadSummary, SetHeader, Render, Move
  <2>4. CASE AnswerPage(r)
    BY <2>4, EndStep DEF AnswerPage
  <2>5. QED
    BY <1>4, <2>1, <2>2, <2>3, <2>4 DEF ServePage
<1>5. QED
  BY <1>1, <1>2, <1>3, <1>4 DEF PageNext

\* A server that reads pages writes as HabitService does (handler.go:240-340).
THEOREM PagesAreTheService == PageSpec => Spec
<1>1. PageInit => Init
  BY DEF PageInit
<1>2. QED
  BY <1>1, PageStep, PTL DEF PageSpec, Spec

\* So the ledger's promises hold of the whole server, pages included
\* (habit.go:221-291).
THEOREM PagesKeepTheLedger == PageSpec => ImplementsLedger
BY PagesAreTheService, LedgerIsImplemented

\* And what no interleaving of writes can do to the tables, none can with the
\* reads and the waiting for connections in between (habit.go:79-291).
THEOREM PagesKeepTheTables ==
  PageSpec => []EntriesWithinLife /\ []DeletionsNotInFuture
                /\ OwnerOnly /\ DeleteSplitsHistory
BY PagesAreTheService, EntriesAreWithinLife, DeletionsAreNotInFuture,
   OnlyOwnersWrite, DeleteKeepsHistory

\* With the process in or ahead of the session's zone, a habit that a toggle
\* would accept is in the list (habit.go:103-113, 268-273).
THEOREM PagesListTheTogglable ==
  ASSUME \A i \in Instants : PgDate[i] <= GoDate[i]
  PROVE  PageSpec => []TogglableIsListed
BY PagesAreTheService, TogglableIsAlwaysListed

-----------------------------------------------------------------------------
(* What no step takes away.                                                *)

\* A row stays, its owner and its creation date never change.
LEMMA RowsStay ==
  ASSUME IInv, [Next]_vars, NEW h \in HabitIds, habits[h] # NoHabit
  PROVE  /\ habits'[h] # NoHabit
         /\ habits'[h].owner = habits[h].owner
         /\ habits'[h].createdAt = habits[h].createdAt
<1>1. CASE UNCHANGED habits
  BY <1>1
<1>2. ASSUME NEW r \in Requests, CreateHabit(r) PROVE UNCHANGED habits[h]
  BY <1>2 DEF CreateHabit, IInv, TypeOK
<1>3. ASSUME NEW r \in Requests, SoftDelete(r)
      PROVE  habits' = habits \/ \E t \in Instants :
               habits' = [habits EXCEPT ![arg[r].habit].deletedAt = t]
  <2>1. pc[r] = "delete" => arg[r].day \in Days
    BY DEF IInv, RequestsOK, OnDay
  <2>2. QED
    BY <1>3, <2>1, DateType DEF SoftDelete
<1>4. ASSUME NEW r \in Requests, SoftDelete(r)
      PROVE  /\ habits'[h] # NoHabit
             /\ habits'[h].owner = habits[h].owner
             /\ habits'[h].createdAt = habits[h].createdAt
  <2>1. CASE habits' = habits
    BY <2>1
  <2>2. ASSUME NEW t \in Instants,
               habits' = [habits EXCEPT ![arg[r].habit].deletedAt = t]
        PROVE  /\ habits'[h] # NoHabit
               /\ habits'[h].owner = habits[h].owner
               /\ habits'[h].createdAt = habits[h].createdAt
    <3>1. habits[h] \in HabitRow
      BY DEF IInv, TypeOK
    <3>2. [habits[h] EXCEPT !.deletedAt = t] \in HabitRow
      BY <3>1 DEF HabitRow
    <3>3. habits'[h] = habits[h] \/ habits'[h] = [habits[h] EXCEPT !.deletedAt = t]
      BY <2>2 DEF IInv, TypeOK
    <3>4. QED
      BY <3>1, <3>2, <3>3, NullAssumption DEF HabitRow
  <2>3. QED
    BY <1>3, <1>4, <2>1, <2>2
<1>5. QED
  BY <1>1, <1>2, <1>4
     DEF Next, Serve, vars, Tick, BeginCreate, BeginToggle, BeginDelete, Begin,
         ToggleLoad, ToggleCheck, ToggleInsert, ToggleRemove, Goto, Return,
         Abort, Respond

LEMMA FoundStays ==
  ASSUME IInv, [Next]_vars, NEW u, NEW h, Found(u, h)
  PROVE  Found(u, h)' /\ (\A d : BegunBy(h, d) => BegunBy(h, d)')
BY RowsStay DEF Found, Owns, BegunBy

LEMMA TodayStays ==
  ASSUME IInv, IInv', [Next]_vars
  PROVE  Today \in Int /\ Today' \in Int /\ Today <= Today'
<1>1. now \in Clock /\ now' \in Clock
  BY DEF IInv, TypeOK
<1>2. now \in Int /\ now' \in Int
  BY <1>1, ZoneAssumption
<1>3. Tick \/ now' = now
  BY DEF Next, Serve, vars, BeginCreate, BeginToggle, BeginDelete, Begin,
         CreateHabit, SoftDelete,
         ToggleLoad, ToggleCheck, ToggleInsert, ToggleRemove, Goto, Return,
         Abort, Respond
<1>4. Tick => now <= now'
  BY <1>2, ZoneAssumption DEF Tick
<1>5. now <= now'
  BY <1>2, <1>3, <1>4
<1>6. QED
  BY <1>1, <1>5, ZoneAssumption DEF Today

-----------------------------------------------------------------------------
(* The invariant of the reading parts is kept.                             *)

\* Nothing happened to request r itself.
Untouched(r) ==
  UNCHANGED <<pc[r], arg[r], result[r], view[r]>>

\* What others do does not disturb a request.
LEMMA OthersKeep ==
  ASSUME PageIInv, IInv', [Next]_vars, NEW r \in Requests, Untouched(r)
  PROVE  ViewOK(r)'
<1>1. ViewOK(r)
  BY DEF PageIInv, ViewsOK
<1>2. Today \in Int /\ Today' \in Int /\ Today <= Today'
  BY TodayStays DEF PageIInv
<1>3. \A u, h : Found(u, h) => Found(u, h)' /\ \A d : BegunBy(h, d) => BegunBy(h, d)'
  BY FoundStays DEF PageIInv
<1>4. Days \subseteq Int
  BY ZoneAssumption
<1>5. /\ pc'[r] = pc[r] /\ arg'[r] = arg[r]
      /\ result'[r] = result[r] /\ view'[r] = view[r]
  BY DEF Untouched
<1>6. (Written(r) <=> Written(r)') /\ \A rows : AllCompleted(rows) <=> AllCompleted(rows)'
  BY <1>5 DEF Written, AllCompleted
<1>7. (\A d \in Days : d <= Today => d <= Today' /\ (d = Today' => d = Today))
  BY <1>2, <1>4
<1>8. QED
  BY <1>1, <1>3, <1>5, <1>6, <1>7 DEF ViewOK

\* A step of request r that leaves its view a view keeps the invariant if
\* what r relies on holds.
LEMMA ViewStep ==
  ASSUME PageIInv, IInv', [Next]_vars, NEW r \in Requests,
         \A q \in Requests \ {r} : Untouched(q),
         view' \in [Requests -> Views],
         ViewOK(r)'
  PROVE  PageIInv'
<1>1. ViewsOK'
  BY OthersKeep DEF ViewsOK
<1>2. \A q \in Requests : view'[q].at # "none" => view'[q].day \in Days
  BY <1>1 DEF ViewsOK, ViewOK
<1>3. PageTypeOK'
  BY <1>2 DEF PageTypeOK, IInv
<1>4. QED
  BY <1>1, <1>3 DEF PageIInv

\* The same for a step that changes the view of r only.
LEMMA ReadStep ==
  ASSUME PageIInv, IInv', UNCHANGED vars, NEW r \in Requests,
         NEW v \in Views, view' = [view EXCEPT ![r] = v],
         view'[r] = v => ViewOK(r)'
  PROVE  PageIInv'
<1>1. view \in [Requests -> Views]
  BY DEF PageIInv, PageTypeOK
<1>2. view' \in [Requests -> Views] /\ view'[r] = v
  BY <1>1
<1>3. \A q \in Requests \ {r} : Untouched(q)
  BY <1>1 DEF Untouched, vars
<1>4. QED
  BY <1>2, <1>3, ViewStep

LEMMA NoViewType == NoView \in Views
BY DEF NoView, Views, Kinds, Queries, Reading, RawDays

LEMMA InitPage == PageInit => PageIInv
<1> SUFFICES ASSUME PageInit PROVE PageIInv
  OBVIOUS
<1>1. IInv
  BY InitIInv DEF PageInit
<1>2. view \in [Requests -> Views] /\ \A r \in Requests : view[r] = NoView
  BY NoViewType DEF PageInit
<1>3. \A r \in Requests : pc[r] = "idle"
  BY DEF PageInit, Init
<1>4. ViewsOK
  BY <1>2, <1>3 DEF ViewsOK, ViewOK, NoView, Written
<1>5. PageTypeOK
  BY <1>1, <1>2 DEF PageTypeOK, IInv, NoView
<1>6. QED
  BY <1>1, <1>4, <1>5 DEF PageIInv

\* A step of HabitService that a request r takes leaves the others alone.
LEMMA WriteStep ==
  ASSUME PageIInv, IInv', NEW r \in Requests, UNCHANGED view,
         \/ BeginCreate(r) \/ BeginToggle(r) \/ BeginDelete(r)
         \/ SoftDelete(r) \/ ToggleLoad(r) \/ ToggleCheck(r)
         \/ ToggleInsert(r) \/ ToggleRemove(r) \/ Abort(r),
         ViewOK(r)'
  PROVE  PageIInv'
<1>1. [Next]_vars
  BY DEF Next, Serve
<1>2. /\ view' \in [Requests -> Views]
      /\ \A q \in Requests : view'[q] = view[q]
  BY DEF PageIInv, PageTypeOK
<1>3. \E s, res, a :
        /\ pc' = [pc EXCEPT ![r] = s]
        /\ result' = [result EXCEPT ![r] = res] \/ result' = result
        /\ arg' = [arg EXCEPT ![r] = a] \/ arg' = arg
  BY DEF BeginCreate, BeginToggle, BeginDelete, Begin, SoftDelete, ToggleLoad,
         ToggleCheck, ToggleInsert, ToggleRemove, Abort, Goto, Return
<1>4. \A q \in Requests \ {r} : Untouched(q)
  BY <1>2, <1>3 DEF Untouched, PageIInv, IInv, TypeOK
<1>5. QED
  BY <1>1, <1>2, <1>4, ViewStep

LEMMA BeginWritePage ==
  ASSUME PageIInv, IInv', NEW r \in Requests, BeginWrite(r)
  PROVE  PageIInv'
<1>1. ViewOK(r)
  BY DEF PageIInv, ViewsOK
<1>2. view' = view /\ view[r].at = "none"
  BY DEF BeginWrite
<1>3. PICK s, a :
        /\ s \in {"create", "load", "delete"}
        /\ Begin(r, s, a)
        /\ s = "create" => a.habit = NoHabit
  <2>1. ASSUME NEW u, NEW f, NEW a,
               a = [NoArg EXCEPT !.user   = u,
                                 !.target = ParseFrequency(f).target,
                                 !.period = ParseFrequency(f).period]
        PROVE  a.habit = NoHabit
    BY <2>1 DEF NoArg
  <2>2. ASSUME BeginCreate(r) PROVE \E a : Begin(r, "create", a) /\ a.habit = NoHabit
    BY <2>1, <2>2, Zenon DEF BeginCreate
  <2>3. CASE BeginToggle(r) \/ BeginDelete(r)
    BY <2>3 DEF BeginToggle, BeginDelete
  <2>4. QED
    BY <2>2, <2>3 DEF BeginWrite
<1>4. pc'[r] = s /\ arg'[r] = a
  BY <1>3 DEF Begin, PageIInv, IInv, TypeOK
<1>5. ViewOK(r)'
  BY <1>1, <1>2, <1>3, <1>4 DEF ViewOK, Written
<1>6. QED
  BY <1>5, WriteStep DEF BeginWrite

\* A request that starts to read, of a day that is not in the future.
LEMMA BeginReadPage ==
  ASSUME PageIInv, IInv', NEW r \in Requests, BeginIndex(r) \/ BeginCalendar(r)
  PROVE  PageIInv'
<1>1. PICK at \in {"rows", "summary"}, kind \in {"index", "calendar"} :
        BeginRead(r, at, kind)
  BY DEF BeginIndex, BeginCalendar
<1>2. PICK u \in Users, query \in RawDays :
        view' = [view EXCEPT ![r] =
          [NoView EXCEPT !.at = at, !.kind = kind, !.user = u,
                         !.day = ParseDateParam(query, query)]]
  BY <1>1 DEF BeginRead
<1>3. pc[r] = "idle" /\ UNCHANGED vars
  BY <1>1 DEF BeginRead
<1> DEFINE d == ParseDateParam(query, query)
           v == [NoView EXCEPT !.at = at, !.kind = kind, !.user = u, !.day = d]
<1>4. d \in Days /\ d <= Today
  BY ParsedDay DEF PageIInv, IInv, TypeOK
<1>5. /\ v \in Views
      /\ v.at = at /\ v.kind = kind /\ ~v.banner /\ v.day = d
  <2> HIDE DEF d
  <2>1. QED
    BY <1>4 DEF NoView, Views, Kinds, Queries, Reading, RawDays
<1>6. view'[r] = v => ViewOK(r)'
  <2> HIDE DEF d, v
  <2>1. QED
    BY <1>3, <1>4, <1>5 DEF ViewOK, Written, vars, Today
<1>7. view' = [view EXCEPT ![r] = v]
  BY <1>2
<1>8. QED
  <2> HIDE DEF v
  <2>1. QED
    BY <1>3, <1>5, <1>6, <1>7, ReadStep

LEMMA CreatePage ==
  ASSUME PageIInv, IInv', NEW r \in Requests, PageCreate(r)
  PROVE  PageIInv'
<1>1. ViewOK(r) /\ view \in [Requests -> Views] /\ pc[r] = "create"
  BY DEF PageIInv, ViewsOK, PageTypeOK, PageCreate, CreateHabit
<1>2. PICK h \in HabitIds \cup {NoHabit} :
        /\ result'[r] = "ok" =>
             h \in HabitIds /\ habits[h] = NoHabit /\ habits'[h] # NoHabit
        /\ view' = [view EXCEPT ![r].habit = h]
  BY DEF PageCreate
<1>3. /\ view' \in [Requests -> Views] /\ view'[r] \in Views
      /\ \A q \in Requests \ {r} : view'[q] = view[q]
      /\ view'[r] = [view[r] EXCEPT !.habit = h]
  BY <1>1, <1>2 DEF Views
<1>4. PICK res \in {"ok", "error"} : Return(r, res)
  BY DEF PageCreate, CreateHabit
<1>5. /\ pc'[r] = "returned" /\ result'[r] = res /\ arg' = arg
      /\ \A q \in Requests \ {r} : Untouched(q)
  BY <1>3, <1>4 DEF Return, Untouched, PageIInv, IInv, TypeOK
<1>6. /\ view'[r].at = view[r].at /\ view'[r].kind = view[r].kind
      /\ view'[r].banner = view[r].banner /\ view'[r].habit = h
      /\ view'[r].day = view[r].day
  BY <1>1, <1>3 DEF Views
<1>7. view[r].at = "none"
  BY <1>1 DEF ViewOK
<1>8. ASSUME res = "ok" PROVE Found(arg[r].user, h)'
  <2>1. h \in HabitIds /\ habits[h] = NoHabit /\ habits'[h] # NoHabit
    BY <1>2, <1>5, <1>8
  <2>2. habits' = habits \/ \E g \in HabitIds : \E target, period :
          habits' = [habits EXCEPT ![g] =
            [owner |-> arg[r].user, target |-> target, period |-> period,
             createdAt |-> now, deletedAt |-> NotDeleted]]
    BY DEF PageCreate, CreateHabit
  <2>3. habits'[h].owner = arg[r].user
    BY <2>1, <2>2 DEF PageIInv, IInv, TypeOK
  <2>4. QED
    BY <2>1, <2>3, <1>5 DEF Found, Owns
<1>9. ViewOK(r)'
  BY <1>1, <1>5, <1>6, <1>7, <1>8 DEF ViewOK, Written
<1>10. QED
  BY <1>3, <1>5, <1>9, ViewStep DEF PageCreate, Next, Serve

\* What a service call returned is what its handler goes on with.
LEMMA WritePage ==
  ASSUME PageIInv, IInv', NEW r \in Requests, PageWrite(r) \/ PageAbort(r)
  PROVE  PageIInv'
<1>1. /\ ViewOK(r) /\ view' = view /\ view[r].at = "none"
      /\ pc[r] \in Statements \ {"create"}  \/ PageAbort(r)
  BY DEF PageIInv, ViewsOK, ViewOK, PageWrite, PageAbort, Statements, SoftDelete,
         ToggleLoad, ToggleCheck, ToggleInsert, ToggleRemove, Abort
<1>2. now' = now /\ arg' = arg /\ Today' = Today
  BY DEF PageWrite, PageAbort, SoftDelete, ToggleLoad, ToggleCheck,
         ToggleInsert, ToggleRemove, Abort, Goto, Return, Today
<1>3. CASE \/ \E s \in {"check", "insert", "remove"} : Goto(r, s)
           \/ \E res \in {"notFound", "inactive", "error"} : Return(r, res)
  <2>1. /\ pc'[r] # "create"
        /\ pc'[r] = "returned" => result'[r] \in {"notFound", "inactive", "error"}
    BY <1>3 DEF Goto, Return, PageIInv, IInv, TypeOK
  <2>2. ViewOK(r)'
    BY <1>1, <1>2, <2>1 DEF ViewOK, Written
  <2>3. QED
    BY <2>2, WriteStep DEF PageWrite, PageAbort
<1>4. CASE ToggleInsert(r) \/ ToggleRemove(r)
  <2>1. /\ Found(arg[r].user, arg[r].habit)
        /\ BegunBy(arg[r].habit, arg[r].day)
        /\ arg[r].day \in Days /\ arg[r].day <= Today
    BY <1>4 DEF ToggleInsert, ToggleRemove, PageIInv, IInv, RequestsOK, OnDay,
                Found, BegunBy
  <2>2. habits' = habits /\ \E res \in {"added", "removed", "error"} : Return(r, res)
    BY <1>4 DEF ToggleInsert, ToggleRemove
  <2>3. pc'[r] = "returned" /\ result'[r] \in {"added", "removed", "error"}
    BY <2>2 DEF Return, PageIInv, IInv, TypeOK
  <2>4. ViewOK(r)'
    BY <1>1, <1>2, <2>1, <2>2, <2>3 DEF ViewOK, Written, Found, Owns, BegunBy
  <2>5. QED
    BY <1>4, <2>4, WriteStep DEF PageWrite, PageAbort
<1>5. CASE SoftDelete(r)
  <2>1. /\ arg[r].habit \in HabitIds
        /\ arg[r].day \in Days /\ arg[r].day <= Today
    BY <1>5 DEF SoftDelete, PageIInv, IInv, RequestsOK, OnDay
  <2>2. \E res \in {"ok", "notFound", "error"} : Return(r, res)
    BY <1>5 DEF SoftDelete
  <2>3. pc'[r] = "returned" /\ result'[r] \in {"ok", "notFound", "error"}
    BY <2>2 DEF Return, PageIInv, IInv, TypeOK
  <2>4. ViewOK(r)'
    BY <1>1, <1>2, <2>1, <2>3, PagesAssumption DEF ViewOK, Written
  <2>5. QED
    BY <1>5, <2>4, <1>1, WriteStep
<1>6. QED
  BY <1>3, <1>4, <1>5
     DEF PageWrite, PageAbort, ToggleLoad, ToggleCheck, Abort

\* The handler goes on to its list, of a day that is not in the future.
LEMMA ListNextPage ==
  ASSUME PageIInv, IInv', NEW r \in Requests,
         NEW kind \in {"create", "toggle", "delete"},
         NEW h \in HabitIds \cup {NoHabit}, NEW d \in Days,
         NEW posted \in BOOLEAN,
         pc[r] = "returned", ListNext(r, kind, h, d, posted), d <= Today,
         kind \in {"create", "toggle"} => Found(arg[r].user, h),
         kind = "toggle" => BegunBy(h, d),
         kind = "create" => d = Today \/ posted
  PROVE  PageIInv'
<1> DEFINE v == [NoView EXCEPT !.at = "rows", !.kind = kind, !.user = arg[r].user,
                               !.habit = h, !.day = d, !.posted = posted]
<1>1. view' = [view EXCEPT ![r] = v] /\ UNCHANGED vars
  BY DEF ListNext
<1>2. /\ v \in Views
      /\ v.at = "rows" /\ v.kind = kind /\ v.user = arg[r].user
      /\ v.habit = h /\ v.day = d /\ v.posted = posted /\ ~v.banner
  <2>1. arg[r].user \in Users \cup {NoUser}
    BY DEF PageIInv, IInv, TypeOK, Args
  <2>2. QED
    BY <2>1 DEF NoView, Views, Kinds, Queries, Reading, RawDays
<1>3. Found(arg[r].user, h) => Found(arg[r].user, h)'
  BY <1>1 DEF Found, Owns, vars
<1>4. BegunBy(h, d) => BegunBy(h, d)'
  BY <1>1 DEF BegunBy, vars
<1>5. /\ Today' = Today
      /\ kind = "create" /\ ~posted /\ Found(arg[r].user, h) => BegunBy(h, d)
  <2>1. kind = "create" /\ ~posted => d = Today
    OBVIOUS
  <2>2. Found(arg[r].user, h) => habits[h].createdAt <= now /\ habits[h].createdAt \in Instants
    BY RowType DEF Found, Owns, PageIInv, IInv, LivesOK, TypeOK
  <2>3. now \in Instants
    BY TodayType DEF PageIInv, IInv, TypeOK
  <2>4. Found(arg[r].user, h) => GoDate[habits[h].createdAt] <= Today
    BY <2>2, <2>3, ZoneAssumption DEF Today
  <2>5. QED
    BY <1>1, <2>1, <2>4 DEF BegunBy, Today, vars
<1>6. view'[r] = v => ViewOK(r)'
  <2> HIDE DEF v
  <2>1. QED
    BY <1>1, <1>2, <1>3, <1>4, <1>5 DEF ViewOK, Written, vars
<1>7. QED
  <2> HIDE DEF v
  <2>1. QED
    BY <1>1, <1>2, <1>6, ReadStep

LEMMA ListPage ==
  ASSUME PageIInv, IInv', NEW r \in Requests, pc[r] = "returned",
         ListCreated(r) \/ ListToggled(r) \/ ListDeleted(r)
  PROVE  PageIInv'
<1>1. ViewOK(r) /\ arg[r] \in Args /\ view[r] \in Views /\ now \in Clock
  BY DEF PageIInv, ViewsOK, IInv, TypeOK, PageTypeOK
<1>2. CASE ListCreated(r)
  <2>1. PICK query \in RawDays, form \in RawDays :
          ListNext(r, "create", view[r].habit, ParseDateParam(query, form),
                   query # NoDay \/ form # NoDay)
    BY <1>2, ZenonT(60) DEF ListCreated
  <2> DEFINE d == ParseDateParam(query, form)
             posted == query # NoDay \/ form # NoDay
  <2>2. d \in Days /\ d <= Today
    BY <1>1, ParsedDay
  <2>3. posted \in BOOLEAN /\ (d = Today \/ posted)
    BY DEF ParseDateParam
  <2>4. ListNext(r, "create", view[r].habit, d, posted)
    BY <2>1, Zenon
  <2>5. /\ Found(arg[r].user, view[r].habit)
        /\ view[r].habit \in HabitIds \cup {NoHabit}
    <3> HIDE DEF d, posted
    <3>1. QED
      BY <1>1, <1>2, <2>4 DEF ViewOK, Written, ListCreated, ListNext, Found
  <2>6. QED
    <3> HIDE DEF d, posted
    <3>1. QED
      BY <2>2, <2>3, <2>4, <2>5, ListNextPage
<1>3. CASE ListToggled(r)
  <2>1. ListNext(r, "toggle", arg[r].habit, arg[r].day, TRUE)
    BY <1>3 DEF ListToggled
  <2>2. /\ arg[r].habit \in HabitIds /\ arg[r].day \in Days /\ arg[r].day <= Today
        /\ Found(arg[r].user, arg[r].habit)
        /\ BegunBy(arg[r].habit, arg[r].day)
    BY <1>1, <1>3 DEF ListToggled, ListNext, ViewOK, Written, Found
  <2>3. QED
    BY <2>1, <2>2, ListNextPage
<1>4. CASE ListDeleted(r)
  <2>1. ListNext(r, "delete", arg[r].habit, arg[r].day, TRUE)
    BY <1>4 DEF ListDeleted
  <2>2. /\ arg[r].habit \in HabitIds \cup {NoHabit}
        /\ arg[r].day \in Days /\ arg[r].day <= Today
    BY <1>1, <1>4 DEF ListDeleted, ListNext, ViewOK, Written, Args
  <2>3. QED
    BY <2>1, <2>2, ListNextPage
<1>5. QED
  BY <1>2, <1>3, <1>4

\* The steps between the statements of a page.
LEMMA MovePage ==
  ASSUME PageIInv, IInv', NEW r \in Requests,
         \/ ReadRows(r) \/ QueryEntries(r) \/ ReadEntries(r)
         \/ QuerySummary(r) \/ ReadSummary(r)
  PROVE  PageIInv'
<1>1. /\ ViewOK(r) /\ view[r] \in Views
      /\ UNCHANGED vars /\ view[r].at \in Queries \cup Reading
  BY DEF PageIInv, PageTypeOK, ViewsOK, ReadRows, QueryEntries, ReadEntries,
         QuerySummary, ReadSummary, Move, Queries, Reading
<1>2. /\ AfterList(view[r].kind) \in {"summary", "header", "render"}
      /\ view[r].kind = "toggle" => AfterList(view[r].kind) = "header"
  BY DEF AfterList
<1>3. PICK at \in Queries \cup Reading \cup {"header", "render"} :
        /\ view' = [view EXCEPT ![r].at = at]
        /\ view[r].kind = "toggle" => at \notin {"summary", "readSummary", "render"}
  BY <1>1, <1>2 DEF ReadRows, QueryEntries, ReadEntries, QuerySummary,
     ReadSummary, Move, ViewOK, Queries, Reading
<1> DEFINE v == [view[r] EXCEPT !.at = at]
<1>4. /\ v \in Views /\ v.at = at /\ v.kind = view[r].kind /\ v.day = view[r].day
      /\ v.user = view[r].user /\ v.habit = view[r].habit
      /\ v.posted = view[r].posted /\ v.banner = view[r].banner
  BY <1>1 DEF Views
<1>5. view' = [view EXCEPT ![r] = v]
  BY <1>3 DEF PageIInv, PageTypeOK
<1>6. view[r].at # "none" /\ ~view[r].banner /\ at # "none"
  BY <1>1 DEF ViewOK, Views, Queries, Reading
<1>7. ASSUME view'[r] = v PROVE ViewOK(r)'
  <2> HIDE DEF v
  <2>1. QED
    BY <1>1, <1>3, <1>4, <1>6, <1>7
       DEF ViewOK, Written, vars, Today, Found, Owns, BegunBy
<1>8. QED
  <2> HIDE DEF v
  <2>1. QED
    BY <1>1, <1>4, <1>5, <1>7, ReadStep

\* List returns rows of habits.
LEMMA ListRowsType ==
  ASSUME NEW u, NEW d PROVE ListRows(u, d) \in SUBSET Rows
<1>1. ASSUME NEW h \in HabitIds PROVE RowOf(h, d) \in Rows
  <2> DEFINE marked == <<h, d>> \in entries
             completed == Cardinality({e \in entries :
               e[1] = h /\ e[2] \in PeriodDays[habits[h].period][d]})
                 >= habits[h].target
  <2>1. marked \in BOOLEAN /\ completed \in BOOLEAN
    OBVIOUS
  <2>2. RowOf(h, d) = [habit |-> h, hasEntry |-> marked, completed |-> completed]
    BY DEF RowOf
  <2>3. QED
    <3> HIDE DEF marked, completed
    <3>1. QED
      BY <2>1, <2>2 DEF Rows
<1>2. QED
  BY <1>1 DEF ListRows

\* The steps that fill a page in.
LEMMA FillPage ==
  ASSUME PageIInv, IInv', NEW r \in Requests,
         QueryRows(r) \/ SetHeader(r) \/ Render(r)
  PROVE  PageIInv'
<1>1. /\ ViewOK(r) /\ view[r] \in Views /\ UNCHANGED vars
      /\ view[r].at \in {"rows", "header", "render"}
  BY DEF PageIInv, PageTypeOK, ViewsOK, QueryRows, SetHeader, Render
<1> DEFINE all == view[r].day = Today /\ view[r].rows # {} /\ AllCompleted(view[r].rows)
<1>2. PICK v \in Views :
        /\ view' = [view EXCEPT ![r] = v]
        /\ v.kind = view[r].kind /\ v.day = view[r].day
        /\ v.user = view[r].user /\ v.habit = view[r].habit
        /\ v.posted = view[r].posted
        /\ \/ v.at = "readRows" /\ ~v.banner
           \/ v.at = "render" /\ ~v.banner /\ v.rows = view[r].rows /\ v.confetti = all
           \/ /\ v.at = "rendered" /\ view[r].at = "render"
              /\ v.confetti = view[r].confetti
              /\ v.banner => all
  <2>1. ~view[r].banner
    BY <1>1 DEF ViewOK
  <2>2. CASE QueryRows(r)
    <3> DEFINE rows == ListRows(view[r].user, view[r].day)
               v == [view[r] EXCEPT !.at = "readRows", !.rows = rows]
    <3>1. rows \in SUBSET Rows
      BY ListRowsType
    <3>2. view' = [view EXCEPT ![r] = v]
      BY <2>2 DEF QueryRows, PageIInv, PageTypeOK
    <3>3. /\ v \in Views /\ v.at = "readRows" /\ ~v.banner
          /\ v.kind = view[r].kind /\ v.day = view[r].day
          /\ v.user = view[r].user /\ v.habit = view[r].habit
          /\ v.posted = view[r].posted
      <4> HIDE DEF rows
      <4>1. QED
        BY <1>1, <2>1, <3>1 DEF Views, Reading
    <3>4. QED
      <4> HIDE DEF v
      <4>1. QED
        BY <3>2, <3>3
  <2>3. CASE SetHeader(r)
    <3> DEFINE v == [view[r] EXCEPT !.at = "render", !.confetti = all]
    <3>1. view' = [view EXCEPT ![r] = v]
      BY <2>3 DEF SetHeader, PageIInv, PageTypeOK
    <3>2. all \in BOOLEAN
      OBVIOUS
    <3>3. /\ v \in Views /\ v.at = "render" /\ ~v.banner
          /\ v.rows = view[r].rows /\ v.confetti = all
          /\ v.kind = view[r].kind /\ v.day = view[r].day
          /\ v.user = view[r].user /\ v.habit = view[r].habit
          /\ v.posted = view[r].posted
      <4> HIDE DEF all
      <4>1. QED
        BY <1>1, <2>1, <3>2 DEF Views
    <3>4. QED
      <4> HIDE DEF v, all
      <4>1. QED
        BY <3>1, <3>3
  <2>4. CASE Render(r)
    <3> DEFINE banner == view[r].kind # "calendar" /\ all
               v == [view[r] EXCEPT !.at = "rendered", !.banner = banner]
    <3>1. view' = [view EXCEPT ![r] = v] /\ view[r].at = "render"
      BY <2>4 DEF Render, PageIInv, PageTypeOK
    <3>2. banner \in BOOLEAN /\ (banner => all)
      OBVIOUS
    <3>3. /\ v \in Views /\ v.at = "rendered" /\ v.banner = banner
          /\ v.confetti = view[r].confetti
          /\ v.kind = view[r].kind /\ v.day = view[r].day
          /\ v.user = view[r].user /\ v.habit = view[r].habit
          /\ v.posted = view[r].posted
      <4> HIDE DEF banner
      <4>1. QED
        BY <1>1, <3>2 DEF Views
    <3>4. QED
      <4> HIDE DEF v, all
      <4>1. QED
        BY <3>1, <3>2, <3>3
  <2>5. QED
    BY <2>2, <2>3, <2>4
<1>3. ASSUME view'[r] = v PROVE ViewOK(r)'
  BY <1>1, <1>2, <1>3
     DEF ViewOK, Written, vars, Today, Found, Owns, BegunBy, AllCompleted
<1>4. QED
  BY <1>1, <1>2, <1>3, ReadStep

\* A request that ends leaves nothing behind.
LEMMA EndPage ==
  ASSUME PageIInv, IInv', NEW r \in Requests,
         AnswerPage(r) \/ FailPage(r) \/ AnswerError(r)
  PROVE  PageIInv'
<1>1. /\ view' = [view EXCEPT ![r] = NoView]
      /\ Respond(r) \/ (pc[r] = "idle" /\ UNCHANGED vars)
  BY DEF AnswerPage, FailPage, AnswerError, End
<1>2. view' \in [Requests -> Views] /\ view'[r] = NoView
  BY <1>1, NoViewType DEF PageIInv, PageTypeOK
<1>3. pc'[r] = "idle" /\ \A q \in Requests \ {r} : Untouched(q)
  BY <1>1 DEF Respond, vars, Untouched, PageIInv, PageTypeOK, IInv, TypeOK
<1>4. [Next]_vars
  BY <1>1 DEF Next, Serve
<1>5. ViewOK(r)'
  BY <1>2, <1>3 DEF ViewOK, Written, NoView
<1>6. QED
  BY <1>2, <1>3, <1>4, <1>5, ViewStep

LEMMA NextPage ==
  ASSUME PageIInv, [PageNext]_pageVars PROVE PageIInv'
<1>1. [Next]_vars /\ IInv'
  BY PageStep, NextIInv DEF PageIInv
<1>2. CASE UNCHANGED pageVars \/ PageTick
  <2>1. view' = view /\ \A r \in Requests : Untouched(r)
    BY <1>2 DEF pageVars, vars, PageTick, Tick, Untouched
  <2>2. ViewsOK'
    BY <1>1, <2>1, OthersKeep DEF ViewsOK
  <2>3. view' \in [Requests -> Views]
        /\ \A r \in Requests : view'[r].at # "none" => view'[r].day \in Days
    BY <2>1 DEF PageIInv, PageTypeOK
  <2>4. PageTypeOK'
    BY <1>1, <2>3 DEF PageTypeOK, IInv
  <2>5. QED
    BY <1>1, <2>2, <2>4 DEF PageIInv
<1>3. ASSUME NEW r \in Requests,
             \/ BeginWrite(r) \/ BeginIndex(r) \/ BeginCalendar(r)
             \/ PageAbort(r) \/ FailPage(r)
      PROVE  PageIInv'
  BY <1>1, <1>3, BeginWritePage, BeginReadPage, WritePage, EndPage
<1>4. ASSUME NEW r \in Requests, ServePage(r) PROVE PageIInv'
  BY <1>1, <1>4, CreatePage, WritePage, EndPage, ListPage, MovePage, FillPage
     DEF ServePage
<1>5. QED
  BY <1>2, <1>3, <1>4 DEF PageNext

\* What a request has begun to answer stays an answer to what it did,
\* whatever the other requests do while it reads (handler.go:240-340).
THEOREM PageInvariant == PageSpec => []PageIInv
<1>1. PageIInv /\ [PageNext]_pageVars => PageIInv'
  BY NextPage
<1>2. QED
  BY <1>1, InitPage, PTL DEF PageSpec

\* The variables of the pages keep their types: every day a page is of is a
\* date (handler.go:67-95).
THEOREM PageTypeCorrect == PageSpec => []PageTypeOK
<1>1. PageIInv => PageTypeOK
  BY DEF PageIInv
<1>2. QED
  BY <1>1, PageInvariant, PTL

-----------------------------------------------------------------------------
(* What an answer shows.                                                   *)

\* The confetti is decided before the banner, on the same rows: an answer
\* to a toggle with the banner has it (handler.go:306, habits_templ.go:534).
THEOREM BannerAlwaysHasConfetti == PageSpec => []BannerHasConfetti
<1>1. PageIInv => BannerHasConfetti
  BY DEF PageIInv, ViewsOK, ViewOK, BannerHasConfetti
<1>2. QED
  BY <1>1, PageInvariant, PTL

\* Only List's first query gives a request its rows.
LEMMA WhoQueries ==
  ASSUME [PageNext]_pageVars, PageIInv, NEW r \in Requests,
         view[r].at = "rows", view'[r].at = "readRows"
  PROVE  QueryRows(r)
<1> view \in [Requests -> Views] /\ pc[r] # "create"
  BY DEF PageIInv, PageTypeOK, ViewsOK, ViewOK
<1>1. view' # view
  OBVIOUS
<1>2. PICK q \in Requests :
        \/ BeginIndex(q) \/ BeginCalendar(q) \/ PageCreate(q) \/ AnswerError(q)
        \/ ListCreated(q) \/ ListToggled(q) \/ ListDeleted(q)
        \/ QueryRows(q) \/ ReadRows(q) \/ QueryEntries(q) \/ ReadEntries(q)
        \/ QuerySummary(q) \/ ReadSummary(q) \/ SetHeader(q) \/ Render(q)
        \/ AnswerPage(q) \/ FailPage(q)
  BY <1>1 DEF PageNext, pageVars, PageTick, BeginWrite, PageWrite, PageAbort,
              ServePage
<1>3. q = r
  <2>1. \/ \E v : view' = [view EXCEPT ![q] = v]
        \/ \E at : view' = [view EXCEPT ![q].at = at]
        \/ \E h : view' = [view EXCEPT ![q].habit = h]
        \/ \E at, rows : view' = [view EXCEPT ![q].at = at, ![q].rows = rows]
        \/ \E at, b : view' = [view EXCEPT ![q].at = at, ![q].confetti = b]
        \/ \E at, b : view' = [view EXCEPT ![q].at = at, ![q].banner = b]
    BY <1>2, ZenonT(60) DEF BeginIndex, BeginCalendar, BeginRead, PageCreate, AnswerError,
       ListCreated, ListToggled, ListDeleted, ListNext, QueryRows, ReadRows,
       QueryEntries, ReadEntries, QuerySummary, ReadSummary, SetHeader, Render,
       AnswerPage, FailPage, End, Move
  <2>2. q # r => view'[r] = view[r]
    BY <2>1
  <2>3. QED
    BY <2>2
<1>4. CASE AnswerPage(r) \/ FailPage(r) \/ AnswerError(r)
  BY <1>4 DEF AnswerPage, FailPage, AnswerError, End, NoView
<1>5. ~PageCreate(r)
  BY DEF PageCreate, CreateHabit
<1>6. QED
  BY <1>2, <1>3, <1>4, <1>5 DEF BeginIndex, BeginCalendar, BeginRead,
     ListCreated, ListToggled, ListDeleted, ListNext, ReadRows, QueryEntries,
     ReadEntries, QuerySummary, ReadSummary, SetHeader, Render

\* When time.Local is the session's zone or ahead of it, the list that
\* answers a toggle or a create has its habit, unless it was deleted, or
\* created from a form of an earlier day (handler.go:255-267, 298-304).
THEOREM AnswersHaveTheirHabit ==
  ASSUME \A i \in Instants : PgDate[i] <= GoDate[i]
  PROVE  PageSpec => AnswerHasItsHabit
<1> DEFINE Late(v) == /\ v.kind = "create" /\ v.posted
                      /\ v.day < GoDate[habits[v.habit].createdAt]
           Has(r) == \/ InRows(r)'
                     \/ view[r].kind \notin {"create", "toggle"}
                     \/ ~NotYetDeleted(habits[view[r].habit], view[r].day)
                     \/ Late(view[r])
           Asked == \A r \in Requests :
                      view[r].at = "rows" /\ view'[r].at = "readRows" => Has(r)
<1>1. ASSUME PageIInv, [PageNext]_pageVars, NEW r \in Requests,
             view[r].at = "rows", view'[r].at = "readRows"
      PROVE  Has(r)
  <2> SUFFICES ASSUME view[r].kind \in {"create", "toggle"},
                      NotYetDeleted(habits[view[r].habit], view[r].day),
                      ~Late(view[r])
               PROVE  InRows(r)'
    OBVIOUS
  <2> DEFINE u == view[r].user
             h == view[r].habit
             d == view[r].day
  <2>1. QueryRows(r)
    BY <1>1, WhoQueries
  <2>2. /\ view'[r].rows = ListRows(u, d) /\ view'[r].habit = h
    <3>1. view[r] \in Views /\ view \in [Requests -> Views]
      BY <1>1 DEF PageIInv, PageTypeOK
    <3> DEFINE rows == ListRows(u, d)
    <3>2. view'[r] = [view[r] EXCEPT !.at = "readRows", !.rows = rows]
      BY <2>1, <3>1 DEF QueryRows
    <3>3. QED
      <4> HIDE DEF rows
      <4>1. view'[r].rows = rows /\ view'[r].habit = h
        BY <3>1, <3>2 DEF Views
      <4>2. QED
        BY <4>1 DEF rows
  <2>3. Found(u, h) /\ d \in Int /\ habits[h].createdAt \in Instants
    BY <1>1, RowType, DateType
       DEF PageIInv, ViewsOK, ViewOK, Found, Owns, IInv, TypeOK
  <2>4. GoDate[habits[h].createdAt] <= d
    BY <1>1, <2>3, DateType DEF PageIInv, ViewsOK, ViewOK, BegunBy
  <2>5. PgDate[habits[h].createdAt] <= d
    BY <2>3, <2>4, DateType
  <2>6. ListedOn(habits, entries, u, h, d)
    BY <2>3, <2>5 DEF ListedOn, Found
  <2>7. RowOf(h, d) \in ListRows(u, d) /\ RowOf(h, d).habit = h
    BY <2>3, <2>6 DEF ListRows, Found, RowOf
  <2>8. QED
    BY <2>2, <2>7 DEF InRows
<1>2. PageIInv /\ [PageNext]_pageVars => [Asked]_pageVars
  BY <1>1
<1>3. QED
  BY <1>2, PageInvariant, PTL DEF PageSpec, AnswerHasItsHabit

-----------------------------------------------------------------------------
(* Every step of a request brings its answer nearer.                       *)

\* What there is left to do at each place.
LEMMA Left ==
  ASSUME NEW statement \in Statements \cup {"idle", "returned"}
  PROVE  /\ StepsLeft("none", statement) =
              CASE statement = "idle"     -> 0
                [] statement = "returned" -> 10
                [] statement = "check"    -> 12
                [] statement = "load"     -> 13
                [] OTHER                  -> 11
         /\ StepsLeft("rows", statement) = 9
         /\ StepsLeft("readRows", statement) = 8
         /\ StepsLeft("entries", statement) = 7
         /\ StepsLeft("readEntries", statement) = 6
         /\ StepsLeft("summary", statement) = 5
         /\ StepsLeft("readSummary", statement) = 4
         /\ StepsLeft("header", statement) = 3
         /\ StepsLeft("render", statement) = 2
         /\ StepsLeft("rendered", statement) = 1
BY DEF StepsLeft, Statements

LEMMA PcType ==
  ASSUME PageIInv, IInv', NEW r \in Requests
  PROVE  /\ pc[r] \in Statements \cup {"idle", "returned"}
         /\ pc'[r] \in Statements \cup {"idle", "returned"}
BY DEF PageIInv, IInv, TypeOK

Nearer(r) == LeftToDo(r)' < LeftToDo(r)

\* A statement that writes leads to the next one or to the result.
LEMMA WriteNearer ==
  ASSUME PageIInv, IInv', NEW r \in Requests,
         PageCreate(r) \/ PageWrite(r) \/ PageAbort(r)
  PROVE  Nearer(r)
<1>1. view[r].at = "none" /\ pc[r] \in Statements
  BY DEF PageIInv, ViewsOK, ViewOK, PageCreate, PageWrite, PageAbort, Statements,
         CreateHabit, SoftDelete, ToggleLoad, ToggleCheck, ToggleInsert,
         ToggleRemove, Abort
<1>2. view'[r].at = "none"
  <2>1. view \in [Requests -> Views]
    BY DEF PageIInv, PageTypeOK
  <2>2. CASE PageCreate(r)
    BY <1>1, <2>1, <2>2 DEF PageCreate, Views
  <2>3. CASE PageWrite(r) \/ PageAbort(r)
    BY <1>1, <2>3 DEF PageWrite, PageAbort
  <2>4. QED
    BY <2>2, <2>3
<1>3. \/ pc'[r] = "returned"
      \/ pc[r] = "load" /\ pc'[r] = "check"
      \/ pc[r] = "check" /\ pc'[r] \in {"insert", "remove"}
  BY DEF PageCreate, PageWrite, PageAbort, CreateHabit, SoftDelete, ToggleLoad,
         ToggleCheck, ToggleInsert, ToggleRemove, Abort, Goto, Return,
         PageIInv, IInv, TypeOK
<1>4. QED
  BY <1>1, <1>2, <1>3, PcType, Left DEF LeftToDo, Statements, Nearer

\* So does each query of a page, and what is done with its rows.
LEMMA ReadNearer ==
  ASSUME PageIInv, IInv', NEW r \in Requests,
         \/ QueryRows(r) \/ ReadRows(r) \/ QueryEntries(r) \/ ReadEntries(r)
         \/ QuerySummary(r) \/ ReadSummary(r) \/ SetHeader(r) \/ Render(r)
  PROVE  Nearer(r)
<1>1. view \in [Requests -> Views] /\ view[r] \in Views
  BY DEF PageIInv, PageTypeOK
<1>2. ASSUME NEW at, view' = [view EXCEPT ![r].at = at]
      PROVE  view'[r].at = at
  BY <1>1, <1>2 DEF Views
<1>3. CASE QueryRows(r)
  <2>1. view[r].at = "rows" /\ view'[r].at = "readRows"
    BY <1>1, <1>3 DEF QueryRows, Views
  <2>2. QED
    BY <2>1, PcType, Left DEF LeftToDo, Nearer
<1>4. CASE ReadRows(r) \/ ReadEntries(r)
  <2>1. AfterList(view[r].kind) \in {"summary", "header", "render"}
    BY DEF AfterList
  <2>2. /\ view[r].at \in {"readRows", "readEntries"}
        /\ \/ view'[r].at \in {"summary", "header", "render"}
           \/ view[r].at = "readRows" /\ view'[r].at = "entries"
    BY <1>2, <1>4, <2>1 DEF ReadRows, ReadEntries, Move
  <2>3. QED
    BY <2>2, PcType, Left DEF LeftToDo, Nearer
<1>5. CASE QueryEntries(r) \/ QuerySummary(r) \/ ReadSummary(r)
  <2>1. \/ view[r].at = "entries" /\ view'[r].at = "readEntries"
        \/ view[r].at = "summary" /\ view'[r].at = "readSummary"
        \/ view[r].at = "readSummary" /\ view'[r].at = "render"
    BY <1>2, <1>5 DEF QueryEntries, QuerySummary, ReadSummary, Move
  <2>2. QED
    BY <2>1, PcType, Left DEF LeftToDo, Nearer
<1>6. CASE SetHeader(r) \/ Render(r)
  <2>1. \/ view[r].at = "header" /\ view'[r].at = "render"
        \/ view[r].at = "render" /\ view'[r].at = "rendered"
    BY <1>1, <1>6 DEF SetHeader, Render, Views
  <2>2. QED
    BY <2>1, PcType, Left DEF LeftToDo, Nearer
<1>7. QED
  BY <1>3, <1>4, <1>5, <1>6

\* A request that goes on to its list, or ends.
LEMMA HandlerNearer ==
  ASSUME PageIInv, IInv', NEW r \in Requests,
         \/ AnswerError(r) \/ AnswerPage(r) \/ FailPage(r)
         \/ pc[r] = "returned" /\ (ListCreated(r) \/ ListToggled(r) \/ ListDeleted(r))
  PROVE  Nearer(r)
<1>1. view \in [Requests -> Views] /\ ViewOK(r)
  BY DEF PageIInv, PageTypeOK, ViewsOK
<1>2. CASE AnswerError(r) \/ AnswerPage(r) \/ FailPage(r)
  <2>1. view'[r].at = "none" /\ pc'[r] = "idle"
    BY <1>1, <1>2 DEF AnswerError, AnswerPage, FailPage, End, Respond, NoView, vars,
                      PageIInv, IInv, TypeOK
  <2>2. \/ view[r].at = "none" /\ pc[r] = "returned"
        \/ view[r].at \in Queries \cup Reading \cup {"header", "render", "rendered"}
    BY <1>1, <1>2 DEF AnswerError, AnswerPage, FailPage, Respond, Views, PageIInv, PageTypeOK
  <2>3. QED
    BY <2>1, <2>2, PcType, Left DEF LeftToDo, Nearer, Queries, Reading
<1>3. CASE pc[r] = "returned" /\ (ListCreated(r) \/ ListToggled(r) \/ ListDeleted(r))
  <2>1. PICK kind, h, d, posted : ListNext(r, kind, h, d, posted)
    BY <1>3, Zenon DEF ListCreated, ListToggled, ListDeleted
  <2>2. view[r].at = "none" /\ view'[r].at = "rows"
    BY <1>1, <2>1 DEF ListNext, NoView
  <2>3. QED
    BY <1>3, <2>2, PcType, Left DEF LeftToDo, Nearer
<1>4. QED
  BY <1>2, <1>3

\* A request that arrives had nothing to do.
LEMMA BeginNearer ==
  ASSUME PageIInv, IInv', NEW r \in Requests,
         BeginWrite(r) \/ BeginIndex(r) \/ BeginCalendar(r)
  PROVE  LeftToDo(r) = 0
BY PcType, Left DEF LeftToDo, BeginWrite, BeginCreate, BeginToggle, BeginDelete, Begin,
            BeginIndex, BeginCalendar, BeginRead

\* Only a request itself changes what it has left to do.
LEMMA OwnSteps ==
  ASSUME PageIInv, [PageNext]_pageVars, NEW r \in Requests
  PROVE  \/ UNCHANGED <<pc[r], view[r]>>
         \/ BeginWrite(r) \/ BeginIndex(r) \/ BeginCalendar(r)
         \/ ServePage(r) \/ PageAbort(r) \/ FailPage(r)
<1>1. CASE UNCHANGED pageVars \/ PageTick
  BY <1>1 DEF pageVars, vars, PageTick, Tick
<1>2. ASSUME NEW q \in Requests, q # r,
             \/ BeginWrite(q) \/ BeginIndex(q) \/ BeginCalendar(q)
             \/ ServePage(q) \/ PageAbort(q) \/ FailPage(q)
      PROVE  UNCHANGED <<pc[r], view[r]>>
  <2>1. \/ UNCHANGED view
        \/ \E v : view' = [view EXCEPT ![q] = v]
        \/ \E at : view' = [view EXCEPT ![q].at = at]
        \/ \E h : view' = [view EXCEPT ![q].habit = h]
        \/ \E at, rows : view' = [view EXCEPT ![q].at = at, ![q].rows = rows]
        \/ \E at, b : view' = [view EXCEPT ![q].at = at, ![q].confetti = b]
        \/ \E at, b : view' = [view EXCEPT ![q].at = at, ![q].banner = b]
    BY <1>2, ZenonT(60) DEF BeginWrite, BeginIndex, BeginCalendar, BeginRead, ServePage,
       PageCreate, PageWrite, PageAbort, AnswerError,
       ListCreated, ListToggled, ListDeleted, ListNext, QueryRows, ReadRows,
       QueryEntries, ReadEntries, QuerySummary, ReadSummary, SetHeader, Render,
       AnswerPage, FailPage, End, Move
  <2>2. view'[r] = view[r]
    BY <1>2, <2>1 DEF PageIInv, PageTypeOK
  <2>3. pc' = pc \/ \E s : pc' = [pc EXCEPT ![q] = s]
    <3>1. UNCHANGED vars \/ BeginCreate(q) \/ BeginToggle(q) \/ BeginDelete(q)
            \/ Serve(q) \/ Abort(q)
      BY <1>2, ZenonT(60) DEF BeginWrite, BeginIndex, BeginCalendar, BeginRead, ServePage,
         PageCreate, PageWrite, PageAbort, AnswerError, Serve,
         ListCreated, ListToggled, ListDeleted, ListNext, QueryRows, ReadRows,
         QueryEntries, ReadEntries, QuerySummary, ReadSummary, SetHeader, Render,
         AnswerPage, FailPage, End, Move
    <3>2. QED
      BY <3>1 DEF vars, BeginCreate, BeginToggle, BeginDelete, Begin, Serve,
         CreateHabit, SoftDelete, ToggleLoad, ToggleCheck, ToggleInsert,
         ToggleRemove, Respond, Abort, Goto, Return
  <2>4. QED
    BY <1>2, <2>2, <2>3 DEF PageIInv, IInv, TypeOK
<1>3. QED
  BY <1>1, <1>2 DEF PageNext

\* No request starts over, and none is taken back by another
\* (habit.go:82-142, 224-291, handler.go:240-340).
THEOREM AnswersAlwaysComeNearer == PageSpec => AnswersComeNearer
<1>1. ASSUME PageIInv, [PageNext]_pageVars, NEW r \in Requests, LeftToDo(r) # 0
      PROVE  UNCHANGED <<pc[r], view[r]>> \/ Nearer(r)
  <2>1. IInv'
    BY <1>1, PageStep, NextIInv DEF PageIInv
  <2>2. QED
    BY <1>1, <2>1, OwnSteps, BeginNearer, WriteNearer, ReadNearer, HandlerNearer DEF ServePage
<1>2. PageIInv /\ [PageNext]_pageVars =>
        [\A r \in Requests :
           LeftToDo(r) # 0 =>
             \/ UNCHANGED <<pc[r], view[r]>>
             \/ LeftToDo(r)' < LeftToDo(r)]_pageVars
  BY <1>1 DEF Nearer
<1>3. QED
  BY <1>2, PageInvariant, PTL DEF PageSpec, AnswersComeNearer

=============================================================================
