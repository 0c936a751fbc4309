# Verification of habitual

habitual is a habit tracker: a Go web server (net/http, htmx pages) on a
PostgreSQL database. A user signs in with Google, registers habits with a
target per day, week or month, marks the days on which each was done, and
sees a list for a date (count of the current period, streak) and a month
calendar. The project in this directory models its core in TLA+, checks it
with TLC and proves the main results with TLAPS.

Paths below are relative to the repository; `habit.go` is
`src/internal/service/habit.go`, `handler.go` is
`src/internal/handler/handler.go`.

## 1. The system

| Component | State | Operations | Interacts with |
|---|---|---|---|
| Store: `internal/db/migrations/*.sql` and the SQL in `habit.go` | tables `habits` (owner, target, period, created_at, deleted_at) and `entries` (habit, day; UNIQUE) | single SQL statements in autocommit mode; no transaction is ever opened | every service, through one `pgxpool` |
| Habit service, writes: `habit.go:221-291` | none of its own | `Create` (1 statement), `Delete` (1), `Toggle` (3: load the habit, look for the entry, INSERT or DELETE it) | store; called by the handlers |
| Habit service, reads: `habit.go:79-219` | none | `List` (2 statements), `MonthSummary` (1) | store |
| Computations: `habit.go:27-77` | local variables | `periodKey`, `prevPeriodDate`, `computeStreak` | called by `List` |
| Dates: `internal/dateutil`, `web/components/dates.go` | the clock, `time.Local` | `StartOfDay`, `Today`, `ParseDay`; the calendar grid | handlers, `Toggle`, templates |
| Handlers: `handler.go` | one goroutine per request | create, toggle, delete, index, day, calendar; login, callback, logout | services, templates |
| Authentication: `internal/auth` | tables `users`, `sessions`; cookies for state and session | `AuthCodeURL`, `HandleGoogleCallback`, `CurrentUser`, `DeleteSession` | Google, store, handlers |
| Connection pool: `db.Connect`'s `pgxpool` | the connections in use | a statement takes one; a query keeps it until its rows are read | every statement |
| Start-up: `cmd/habitual/main.go`, `internal/db/connect.go`, the migrations | the tables, goose's table of versions | connect, ping, migrate, serve | store; the other processes that start |
| Pages in the browser: `web/components/habits.templ` | the page, its address, the requests under way | links, rows, buttons, the form, the calendar; swaps, out-of-band swaps | handlers |
| `internal/db/*.sql.go`, layout and sign-in templates, css, deployment | - | generated, static or configuration; the sqlc layer is called from nowhere | - |

What is hard about it:

* **Concurrency.** Requests are goroutines, possibly of several processes, and
  share only the database. No statement runs in a transaction with another,
  so `Toggle` reads a habit, reads an entry and writes on the strength of both
  while other requests write between.
* **Failure.** A statement may fail, be executed and reported as failed
  (connection lost after the commit), or never be sent because the client went
  away or the process was killed.
* **Two calendars.** `Toggle` and `parseDateParam` compute dates in
  `time.Local`; `List` and `MonthSummary` compare `created_at::date` and
  `deleted_at::date` in the time zone of the database session. Nothing makes
  the two zones equal.
* **Boundaries.** The deletion date itself, a date in the future, midnight
  passing during a request, months of different lengths, ISO weeks against
  `DATE_TRUNC`, a target of zero or beyond an `INT`.
* **Long histories.** Habits deleted twice, entries of deleted habits.
* **Answers out of order.** htmx sends a request per element and swaps each
  answer when it arrives; a page stays open over midnight.
* **Overlapping starts.** Every process migrates when it starts, also while
  others start or serve, and nothing locks the migrations.

What makes each component correct:

* *Store and writes*: an entry lies between the creation of its habit and
  today and belongs to an owner; only an owner's request changes a habit or
  its entries; SQL and Go agree on the days a habit is active; a deletion
  hides its date and everything later and nothing earlier; every interleaving
  moves the tables as an atomic ledger would; every request is answered.
* *Computations*: the SQL's window and `periodKey` cut time alike; a streak is
  the longest run of complete periods up to the current one; the loop ends.
* *Reads*: `AllDone` means what its comment says; the list that answers a
  write contains the habit that was written; confetti and banner agree; a
  small pool delays requests and blocks none for ever.
* *Calendar grid*: whole ISO weeks, exactly those the month has days in.
* *Pages in the browser*: the address, the page and its calendar name one day
  in whatever order answers arrive; no control asks for what the server would
  correct; the rows at rest are those of the tables.
* *Start-up*: what the version says is there, is there; migrations take effect
  whole and in order; a process that serves finds its tables; all come to serve.
* *Authentication*: no session without a completed login, none after logout
  or expiry; signing out in one browser ends the session of no other.

## 2. The modules

```
HabitStore ── HabitService ─┬─ HabitServiceLedger ──(refines)── HabitLedger
                            │         ├── MCHabitService          (TLC)
                            │         └── HabitServiceProofs ── HabitLedgerProofs
                            └─ Pages ── MCPages                   (TLC)
                                  └──── PagesProofs (extends HabitLedgerProofs)
Calendar ─┬─ Streak ── MCStreak                                   (TLC)
          │      └──── StreakProofs (extends CalendarProofs)
          └─ CalendarGrid ─┬─ CalendarProofs
                           └─ Tab ──(refines)── HabitLedger
                               ├── MCTab                          (TLC)
                               └── TabProofs (extends CalendarProofs)
Sessions ──(refines)── Logins
    ├── MCSessions                                                (TLC)
    └── SessionsProofs
Startup ──(refines)── Schema                              (run as it is)
    └── StartupProofs
```

**HabitStore**: the rows, and the WHERE clauses as operators on the value of a
table. A date is a day number, an instant a point of the clock; `GoDate` and
`PgDate` give the date of an instant in `time.Local` and in the session's
zone, `PgMidnight` is what `$3::date` becomes when it is stored in a
`TIMESTAMPTZ`. `Owns` is `WHERE id = $1 AND user_id = $2`, `ActiveOn` is
`Toggle`'s test in Go (`habit.go:268-273`), `ListedOn` is the WHERE clause of
`List`, `DaySummary` one row of `MonthSummary`.

**HabitService**: the writes as the handlers run them. Each member of
`Requests` is a slot for one request at a time; `pc[r]` is the statement the
request will send next.

| Action | Code |
|---|---|
| `BeginCreate`, `BeginToggle`, `BeginDelete` | the handler up to its first statement: `ParseFrequency` (`handler.go:245-253`), `ParseDateParam` (`handler.go:45-59`), the user put in the context by the middleware |
| `CreateHabit` | `Create`'s INSERT; fails when the target is no `INT` or the ids are used up |
| `SoftDelete` | `Delete`'s UPDATE and its `RowsAffected() == 0` |
| `ToggleLoad`, `ToggleCheck`, `ToggleInsert`, `ToggleRemove` | the statements of `Toggle` in their order, each with the tests that follow it; the UNIQUE constraint is in `ToggleInsert` |
| `Abort` | a statement that fails, a client that disconnects, a process killed between two statements |
| `Respond` | the answer; the goroutine ends |
| `Tick` | time passes, possibly across midnight, between any two statements |

A write that is executed may return `"error"` all the same: the acknowledgement
was lost. What a crash leaves behind is a prefix of a request's statements,
which `Abort` leaves too; nothing else is held in memory between requests.

**Pages** extends `HabitService` with the part of a request that reads; `view[r]`
is how far it has come and what it has read.

| Action | Code |
|---|---|
| `BeginWrite`, `BeginIndex`, `BeginCalendar` | the handlers up to their first statement |
| `PageCreate`, `PageWrite`, `PageAbort` | the statements of `HabitService`, each with a connection of the pool (`Free`, `MaxConns`) |
| `AnswerError` | a write that failed |
| `ListCreated`, `ListToggled`, `ListDeleted` | the handler after its write; `createHabit` reads the day of its form only here (`handler.go:260`) |
| `QueryRows`, `ReadRows`, `QueryEntries`, `ReadEntries` | `List`: the two queries, each holding its connection until the rows are read |
| `QuerySummary`, `ReadSummary` | `MonthSummary` |
| `SetHeader`, `Render` | the confetti header and the templates, each with its own reading of the clock |
| `AnswerPage`, `FailPage` | the answer; a query that fails or a client that goes away |

Every step of `Pages` is a step of `HabitService` or leaves its variables as they
are (`PagesAreTheService`), so its properties hold here too.

**HabitLedger**: what the tracker promises: habits with a life (owner, first
day, end) and marked days, changed by atomic operations `Register`, `Close`,
`Mark`, `Unmark`. With `OpenOnly` marks change only before the end of a life.
**HabitServiceLedger** maps the tables to it (`LifeOf`, `Marks`) and states
`ImplementsLedger` (for any number of requests) and `ImplementsStrictLedger`
(`OpenOnly`, which needs requests to run one at a time).

**Sessions**: signing in and out. A browser's cookies go out with a request
and change when an answer arrives (`Receive`), so requests of one browser that
are under way together act on the cookies they left with, and answers may be
reordered or lost (`Lose`).

| Action | Code |
|---|---|
| `StartLogin` | `startGoogleLogin`: a new state in a cookie and in the redirect |
| `Consent` | Google (external): the user signs in, a code is issued |
| `Callback`, `CallbackRefused` | `googleCallback` up to the exchange; any browser may open the address Google redirected to |
| `Exchange`, `Userinfo`, `Upsert`, `InsertSession` | the calls of `HandleGoogleCallback` in their order; each may be carried out and reported as failed |
| `Page`, `CurrentUser`, `Finish` | the middleware's lookup, and the handler behind it |
| `Logout`, `DeleteSession` | `logout` |
| `Fail` | a call that fails; only a login tells the browser |

Requests that are refused before their first statement, and answers that set
no cookie, change nothing and are not steps. Random values are members of
`States` and `Tokens` not drawn before, and a token stands for its hash.
The habit modules take the user of a request as given: `CurrentUser` is where
it comes from. **Logins** is what signing in promises: logins given once, in
force for a limited time or until withdrawn, and requests that start to act
under one in force; `ImplementsLogins` maps `sessions` and the acting
requests to it.

**Calendar** and **Streak**: the window of `List`'s SQL, `periodKey`,
`prevPeriodDate` with the normalisation of Go's `AddDate`, over months of
arbitrary lengths from 28 to 31, and `computeStreak` as a loop: `SkipInProgress`
(`habit.go:62-65`), `Walk`, `Stop` (`habit.go:68-75`).

**CalendarGrid**: the grid of `dates.go` (`IsoWeekday`, `CalendarDays`), which of
its cells are links, and the arrows to other months.

**Tab**: one tab. `page` is what it shows, `url` the day in the address bar, `sent`
the requests under way, each with what was asked, the answer once there is
one, and whether the element it is to replace is still shown.

| Action | Code |
|---|---|
| `ClickPrev`, `ClickNext`, `ClickCell`, `ClickPrevMonth`, `ClickNextMonth`, `ClickRow`, `ClickDelete`, `SubmitForm` | the controls of the templates, as far as the page shows them |
| `KeyOnDelete` | Enter or space on the delete button, which reaches the row as well (`habits.templ`) |
| `Home`, `Reload` | `index`, and the address of the tab loaded anew |
| `Insert`, `SoftDelete` | the statement of `Create` and of `Delete` |
| `LoadHabit`, `CheckEntry`, `DeleteEntry`, `InsertEntry` | the three statements of `Toggle`, the last one by what the others saw; an inactive habit and a second row end the request |
| `Answer` | what the handler reads and renders after its write |
| `Receive` | the swap of the answer, one operator for each kind; `Discard` when there is nothing to swap |
| `Lose` | a request or an answer that is lost, or a handler that fails on its way |
| `Midnight` | the date changes while the page is open and requests are under way |

htmx is external: it looks a target up when it sends, an out-of-band target
when the answer arrives, and swaps no error. `doubt` is a history variable and
guards nothing: it records whether requests have overlapped or were lost, which
the properties about rows and banner exclude. `Tab` has one user and its own small
store; each statement that writes is a step, and requests of the tab run between two of
them. The reads of an answer are one step: what comes between those is what
`Pages` is about. `ImplementsLedger` maps the store to **HabitLedger** without
`OpenOnly`: `KeyOnDelete`, or a row and a delete button clicked one after the other,
sends a `Toggle` and a `Delete` of one habit, and the `Delete` may come between two
statements of the `Toggle`, which then marks a day after the end of the habit's life.
That is finding `delete_race`, reached from the browser; the strict ledger does not hold here.

**Startup**: any number of processes that start, statement by statement.

| Action | Code |
|---|---|
| `Start` | the deployment runs the process (again) |
| `Connect` | `db.Connect` and its ping; a failure is `log.Fatalf` |
| `ReadVersion` | goose reads the last row of its table; nothing pending leads to `ListenAndServe` |
| `Run`, `Resume`, `Commit` | the statements of a migration in its transaction; the second of two that create one table waits for the first |
| `Serve` | queries of a process that serves |
| `Kill`, `StopDB`, `StartDB` | crashes, replaced processes, a database that goes away and comes back |

goose and PostgreSQL's handling of concurrent DDL are external. **Schema** is what
start-up promises to whoever uses the database: a schema that is at one version
at any moment and rises by whole versions, and clients that join at the last
one. `ImplementsSchema` maps the committed tables and the processes that serve
to it.

**Faulty variants.** An operator introduced by a comment `Faulty variant` stands
directly before the definition it corrupts and is used by no specification.
Each is a mistake the code could plausibly contain; put in place of the
definition it makes TLC report the property listed with it under `mutants` in
`PROJECT.json`, which shows that the property depends on that part of the code.

## 3. What is checked

All runs are instances of `MCHabitService`, `MCPages`, `MCTab`, `MCSessions`,
`MCStreak` or `Startup` itself.

| Run | Instance | Result |
|---|---|---|
| `races` | 2 users, 1 habit, 2 concurrent requests, 3 dates, 4 instants in 2 days, one zone | `EntriesWithinLife`, `ListedIffTogglable`, `OwnerOnly`, `DeleteSplitsHistory`, `ImplementsLedger` hold |
| `sequential` | 1 user, 2 habits, 1 request at a time | `ToggleReportsItsEffect`, `AddsOnActiveDaysOnly`, `ImplementsStrictLedger`, `AllDoneMeansAllUntilDeletion` hold |
| `pages` | 1 user, 1 habit, 2 concurrent requests of any kind, one connection, `time.Local` half a day ahead, unusable frequencies posted, with fairness | `DeletionsNotInFuture`, `TogglableIsListed`, `PageTypeOK` (with `HabitService!TypeOK`), `BannerHasConfetti`, `AnswerHasItsHabit`, `AnswersComeNearer`, `EveryPageIsAnswered` hold |
| `tab` | 1 habit, 2 requests under way, statement by statement, any of them lost, over the midnight between two months | `TypeOK`, `UrlNamesTheDay`, `CalendarBelongsToPage`, `AnsweredAsAsked`, `ImplementsLedger` (of `Tab`) hold |
| `rows` | the same with 2 habits, where only toggles overlap and nothing is lost (`Hasty`) | `GridIsWholeWeeks`, `RowsAreRight`, `BannerIsRight` hold |
| `startup` | 3 processes, a database at any version, one fault, with fairness | `TypeOK`, `VersionIsTrue`, `ServingFindsItsTables`, `ImplementsSchema`, `EveryProcessServes` hold |
| `sessions` | 2 browsers, 1 account, 2 states, 2 tokens, 2 concurrent requests, the process's clock one tick behind the database's | `TypeOK`, `SignedInWhereConsented`, `ImplementsLogins`, `SignOutIsOwn` hold |
| `streak` | 5 months around a leap day (`MCStreak`), all subsets of 9 entry days, 10 list dates, 3 periods, targets 1 and 2 | `TypeOK`, `StreakIsMaximalRun`, `StreakBridgesNoGap`, `OneMonthTwiceAtMost`, `SqlAndGoPeriodsAgree`, `CompletedNowIsInStreak`, `Terminates` hold |
| `delete_race`, `redelete`, `all_done` | instances of `HabitService` | violated: see below |
| `in_progress` | the instance of `streak` | violated: see below |

**Bounds and why they are enough.** Two requests are enough for every conflict
between statements: each statement touches one habit, and a conflict is
between a read of one request and a write of another. One habit is enough
where the property speaks of one; the month summary counts, so it gets two.
Three dates give a day before the system runs (entries before creation are
refused on it), the day of creation and a later one; two instants a day let
time pass within a day and let the zones differ by half a day in either
direction. `MaxInt4` is 1 or 2 so that a target beyond it occurs. The five
months of `streak` contain 28, 29, 30 and 31 day months next to each other,
and the list dates lie at and around month ends and the leap day; the theorems
of section 5 remove all of these bounds for what they prove. `sessions` has two states, so that two logins of one browser
or of two can cross, and two requests, so that an answer can overtake another;
two tokens let both browsers be signed in at once, also as one user; one account
suffices, since `SignOutIsOwn` must tell sessions of one user apart, and where a login was
consented to is in its code, whatever the account; two ticks let a session
end before its cookie. Browsers, states, tokens and requests are
interchangeable (`MCSymmetry`), no action names one and the run checks no
liveness. The clock has finitely many instants, which ends time but
not the requests.

`pages` has one connection (`MaxConns`), the size at which a request that kept one
while it waits for another would block itself; two requests then show every
order of two statements. In `tab` the clock has two days, the last of a month
that ends on a Sunday and the first of the next, so that midnight changes the
month and both ends of a grid occur; `Oldest` keeps pages of earlier days out,
which differ from these in nothing; two `Slots` give every order in which two
answers can arrive. The symmetry of `Slots` is sound: no action names one, and
the runs of `Tab` check no liveness. `Hasty` is a bound of `rows`: its two
properties speak only of what it leaves, and its two habits show that answers
for different rows do not disturb each other. `MaxFaults` bounds kills and
outages together in `startup`: endless faults would keep every process from
serving. Three processes are the least with which one can wait for a second
while a third reads a version that a slower one put behind a newer.

**Fairness.** `FairPageSpec` assumes `SF_pageVars(ServePage(r))`: a goroutine that can
go on does, and the pool serves those that wait for a connection in their
order, so that none is passed over for ever. A statement that fails is an
answer too (`PageAbort`, `FailPage` take the request to its end). Nothing is
assumed about users or the clock. `Sessions` assumes none: the code
exchange, the statements and the pool have no time limit (only `fetchGoogleUser`
has one of ten seconds), so any request may rest for ever, and what is
checked of it is safety. `Startup!FairSpec` assumes that the
deployment restarts a process that has ended, that every process runs, and
that a database that is down comes back. `Streak!FairSpec` assumes
`WF_vars(Next)`: a loop without waiting runs.

## 4. Findings

Each is a run that TLC finds violated and that quotes the sentence of the
code it contradicts (`findings` in `PROJECT.json`).

* `delete_race` (`habit.go:289`): `Toggle`'s tests of the habit are two
  statements old when it inserts; with a `Delete` in between an entry is added
  on a day from the deletion date on.
* `redelete` (`habit.go:238`): a second `Delete` overwrites the first date; a
  later one brings back days that had been excluded.
* `all_done` (`habit.go:187`): the month summary counts entries of deleted
  habits, which can make up for the missing entries of active ones.
* `in_progress` (`habit.go:46`): a month before March 30 is March 1, in the
  same month; on the last days of a month in progress the streak of the
  months before is reported as 0.

The holding properties say what remains true: concurrent requests still move
the tables as a ledger (`ImplementsLedger`), sequential ones as the strict
one, and whatever the date a streak bridges no gap (`StreakBridgesNoGap`) and
is too long by one month at most (`OneMonthTwiceAtMost`).

Known limits that contradict no sentence of the code and have no run:

* What `Toggle` reports is what it did only when requests run one at a time
  (`ToggleReportsItsEffect` is checked there): two that remove one entry both
  report it removed.
* With the process west of the session's zone a habit just created is not in
  today's list for part of a day; `TogglableIsListed` and `AnswerHasItsHabit`
  are for `time.Local` not behind.
* `period_count` and `completed` look at the whole period, the streak only up
  to the listed date.
* When requests of one tab overlap, its banner may be out of date, and a row
  whose delete was answered while a toggle of it replaced it stays shown until
  the next load (`doubt` in `Tab`).
* A create form left open over midnight creates the habit today and is
  answered with yesterday's list, without it (`AnswerHasItsHabit` names it).

## 5. What is proved

The theorems hold for every value of the constants that satisfies the
assumptions: `NullAssumption` (the values that stand for NULL are not column
values; one in `HabitStore`, one in `Sessions`), `SessionsAssumption`, `ZoneAssumption` (a local date never goes back, the two zones are
less than a day apart, today is a date requests can carry, and a stored
midnight reads back as its date), `FrequencyAssumption`, `LifeAssumption` (the
absent row is not the image of one), `CalendarAssumption` (consecutive months
of 28 to 31 days), `StreakAssumption`, `PagesAssumption`, `TabAssumption`,
`TabNullAssumption` and `StartupAssumption`. A theorem about a special setting
states it: one zone, `time.Local` not behind, or one request at a time.

* **HabitServiceProofs.** Types alone are not inductive, nor is
  `EntriesWithinLife`: an INSERT relies on a habit read two statements
  before. `IInv` adds `RequestsOK`: a request past `ToggleLoad` belongs to
  the owner of an existing habit that had begun by its day, and its day is
  not in the future. It is stable because rows are never removed, `owner` and
  `created_at` never change and time does not go back. `LivesOK` adds that a
  row was created by now and deleted as of no future date in either zone.
  From `IInv` follow `TypeCorrect`, `EntriesAreWithinLife`,
  `DeletionsAreNotInFuture`, `ListAgreesWithToggle` (one zone),
  `TogglableIsAlwaysListed` (`time.Local` not behind), and the action
  properties `OnlyOwnersWrite` and `DeleteKeepsHistory`.
  `AllDoneIsTrueUntilDeletion` assumes finitely many habits and `time.Local` not
  behind: the habits with an entry are then among the active ones, and can be as
  many only when they are all.
* **HabitLedgerProofs.** `LedgerIsImplemented`: every step of `HabitService` is an
  operation of the ledger or a stutter, from `IInv`. With at most one
  request, `FreshReads` (what a request has read is still so) is inductive
  and gives `SequentialToggleReports`, `SequentialAddsOnActiveDays` and
  `StrictLedgerIsImplemented`.
* **PagesProofs.** `PagesAreTheService`: a step of `Pages` is a step of
  `HabitService` or leaves its variables alone; so `IInv` and the ledger hold
  here (`PagesKeepTheLedger`, `PagesKeepTheTables`, `PagesListTheTogglable`).
  `PageTypeCorrect` rests on `IInv`,
  `BannerAlwaysHasConfetti` on the clock moving only forward between `SetHeader`
  and `Render`;
  `AnswersHaveTheirHabit` rests on what a request knows when its write is done:
  the habit exists, is the user's and had begun by the day of the list. It
  assumes `PgDate[i] <= GoDate[i]`. `AnswersAlwaysComeNearer` is the half of
  `EveryPageIsAnswered` that needs no fairness: `LeftToDo`, at most 13, is a
  variant of every request that is being served. Each of its own steps lowers
  it, one lemma for each part of a handler, and `OwnSteps` shows that no other
  request's step touches it. What is left to fairness is that the request
  moves at all.
* **CalendarProofs.** `GridOfWeeks`: for any month lengths and any first weekday
  the grid is the set of days whose ISO week has a day of the month;
  `GridOfFourToSixWeeks`: it starts on a Monday and has four to six weeks, four
  only for a month of 28 days.
* **TabProofs.** `IInv` says that nothing in the tab knows a day that has not
  come: of the page (`PageOK`), what it shows and when it was rendered; of each
  request (`RequestOK`), that its day and month were not in the future when it
  was sent, that its answer is of the day it asked for, and that a calendar
  still to be swapped in is of the page's day. A link of a page rendered before
  midnight then leads to no future day, and `TabTypeCorrect`,
  `AddressNamesTheDay`, `CalendarStaysWithPage`, `NothingIsCorrected` and
  `GridAlwaysWholeWeeks` follow for any number of requests, habits and days.
  `RowsAreAlwaysRight` needs what each request has found and will leave: before
  its write the rows it may change are those of the tables, after it the answer
  has them (`RowsOf`), and only toggles of different rows overlap (`Apart`).
  `BannerIsAlwaysRight` adds that the list of an answer is the whole list of the
  tables (`Whole`), so that the page with one row replaced is the list its
  banner was rendered with.
  `TabKeepsTheLedger` refines the ledger, marks after an end included. A write of
  `Toggle` is allowed because of what `LoadHabit` saw two statements before:
  `LoadedOK` says that the habit of a request past it was created by the day
  it asks for, which no later statement changes (`BornStays`); that it
  has not ended is what a `Delete` in between makes untrue, and is not claimed. That a
  delete is for a habit that
  was created is no guard of `SoftDelete` but a fact about pages: `KnownOK` carries
  it from the tables to
  the rows of an answer, from there to the page, and from the page to the
  request it sends, across every swap and midnight. It is inductive together
  with `IInv`, and each write then is one operation of the ledger or none.
* **StartupProofs.** `VersionIsTrue` is not inductive: a process commits long
  after it has read the version. `ProcOK` adds that all that lies before a
  process's migration is committed, and that the statements it has passed are
  committed or its own. `VersionAlwaysTrue`, `ServingAlwaysFindsTables` and
  `MigrationsAlwaysWhole` follow for any number of processes and faults.
  `SchemaIsImplemented` puts them together: the committed tables are at all times
  those of one version (`AtVersion`), and a commit adds all its version is
  missing or nothing, so every step is `Migrate`, `Join`, `Leave` or a stutter
  of `Schema`. `StartupTypeCorrect` gives the types.
* **SessionsProofs.** That a session belongs to the browser that holds its
  token is not inductive: it rests on where states and tokens have been.
  `StatesOK` says that a state was handed, or is on its way, to one browser
  only, and that cookies and codes carry states that arrived; `RequestsOK`
  that a login past the comparison of the state runs for the browser of its
  code; `TokensOK` that a token in a cookie or in an answer was earned there.
  They give `BrowsersAreSignedInWhereConsented`, and with the bound on `until` that
  `RequestsOK` carries from the reading of the process's clock to the INSERT,
  `LoginsAreImplemented`. `EndIsFinal` says what a user means by signing out: from
  the statement of a logout, or the end of the term, no request ever enters
  under that token again. It rests on INSERTs taking only tokens that were not
  drawn before, and on `LogoutsKnowTokens`, that a logout deletes under a token
  that was. `SignOutsAreOwn` is about the other browsers: `OneKeeper` says that
  a token is in the cookie of, or on its way to, at most one browser, and
  `LogoutsOwn` that a logout under way has the token of no browser but its own,
  so that the session it deletes, which may be an old one of its browser by
  then, is nobody else's.
* **StreakProofs.** `WindowIsPeriod`: the days the SQL window selects are those with
  the date's `periodKey`, for any month lengths. `WalkInvariant` (all periods
  between the walk's position and the one it began with are complete, and,
  when the day occurs in every month, `streak` counts them) gives
  `StreakCorrect`, `StreakHasNoGap`, `SqlAndGoAgree` and `CompletedNowCounts`. What
  happens at month ends is in its last conjunct: either the walk has moved one
  period for each it counted (`Kept`), or one less (`OneBehind`), and then it
  stands on a day that every month has, so that it cannot stay in a month again.
  `StreakCountsOneMonthTwiceAtMost` follows. With it `StreakIsBounded`: the loop
  runs at most once more than there are periods from the first entry to the
  date, which is why `Terminates` holds for any calendar, entries and target.

Only model-checked: liveness (`EveryPageIsAnswered`, `Terminates`,
`EveryProcessServes`; the prover does not handle fairness) and the
violations. Every other property of a passing run has its theorem. Of two of the liveness
properties the part without fairness is proved: the variant of
`EveryPageIsAnswered` and the bound of `Terminates`.

## 6. Limits of the models

* Names, descriptions, wording of pages and HTTP status codes are left out.
* The process and the database read one clock; only their zones differ.
* Zones in which a local date repeats or is skipped are excluded by
  `ZoneAssumption`, and so is a pair of zones more than a day apart.
* Rows from before migration 002 have no entries in the initial states; no
  statement could reach those entries (`OwnerOnly`).
* `Sessions` takes Google sign-in to be configured, random values never to
  repeat and browsers to drop a cookie when its Max-Age is over.
* Ids are not reused and their order is not modelled; `SERIAL` may give any
  unused one.
* The periods of `Streak` that are before the first month are abstract: the
  window of months is finite and nothing happened in its first month.
* `Tab` leaves out htmx's snapshots of earlier pages for the back button,
  addresses typed by hand with a date in the future, targets and periods (a
  habit is completed on a day by its entry), and labels. Its days are dates of
  one zone.
* `Startup` leaves out indexes, down migrations, which nothing runs, and a missing
  `DATABASE_URL`, with which no process ever starts.
* The counts of `MonthSummary` are operators on the tables (`DaySummary`); no
  handler decides anything by them.

## 7. Not modelled

* `internal/db/habits.sql.go`, `entries.sql.go` and the rest of the sqlc layer:
  generated, and called from nowhere; the services send their own SQL.
* `layout.templ`, `auth.templ` and their generated code: static markup around the
  pages, which decides nothing but whether a user is shown as signed in.
* The style sheet, the scripts that draw the confetti, the build and the
  deployment's configuration.
