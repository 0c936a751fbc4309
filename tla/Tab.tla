---------------------------------- MODULE Tab ----------------------------------
(***************************************************************************)
(* One tab of a browser and what htmx makes of it: the links, the rows,    *)
(* the form and the calendar of the page send requests, several may be     *)
(* under way at once, and every answer is swapped into the page when it    *)
(* arrives, in any order, or is lost.  The user is the only one to write.  *)
(*                                                                         *)
(* htmx is external: it looks a target up when it sends the request, so an *)
(* answer whose target has been swapped out meanwhile changes nothing that *)
(* is shown, except the banner, which is looked up when it arrives; it has *)
(* one request of an element under way at a time; it swaps no error.       *)
(*                                                                         *)
(* A habit is completed on a day when it has an entry: targets and periods *)
(* are those of module Streak, time zones those of HabitStore.             *)
(***************************************************************************)
EXTENDS CalendarGrid, FiniteSets

CONSTANTS
  HabitIds,
  Slots,       \* requests that may be under way
  Clock,       \* the days the tab is open on
  Oldest,      \* bound: pages of earlier days are not visited
  Hasty,       \* bound: whether anything but toggles overlaps or is lost
  NoDay,       \* no day
  NoHabit,     \* no habit
  Idle,        \* no request
  NoAnswer     \* an answer that reports an error

VARIABLES
  today,
  born,        \* of each habit: the date it was created on
  ended,       \*   and the date it was deleted as of
  marks,       \* its days with an entry
  page,        \* what the tab shows
  url,         \* the day in the address bar, NoDay for "/"
  sent,        \* the requests under way
  doubt        \* history: what requests that overlapped or were lost may
               \* have left wrong

vars == <<today, born, ended, marks, page, url, sent, doubt>>

Days == {d \in Dates : Oldest <= d}

ASSUME TabAssumption ==
  /\ Oldest \in Dates
  /\ Clock \subseteq Days
  /\ NoDay \notin Int
  /\ NoHabit \notin HabitIds
  /\ Hasty \in BOOLEAN

\* A row with no habit is the zero value of model.Habit.
Rows == [habit : HabitIds \cup {NoHabit}, marked : BOOLEAN]

Pages ==
  [day      : Days,
   opened   : Clock,          \* today when the page was rendered
   rows     : SUBSET Rows,
   banner   : BOOLEAN,
   month    : Months,         \* the calendar's
   selected : Days,           \* the day it highlights
   drawn    : Clock]          \* today when it was rendered

Answers == [day : Days, month : Months, rows : SUBSET Rows, today : Clock]

SentRequests ==
  [kind   : {"day", "calendar", "toggle", "delete", "create"},
   habit  : HabitIds \cup {NoHabit},
   day    : Days,
   month  : Months,
   at     : {"sent", "loaded", "absent", "present", "written", "answered"},
   answer : Answers \cup {NoAnswer},
   target : {"shown", "swapped out", "left"}]

ASSUME TabNullAssumption ==
  Idle \notin SentRequests /\ NoAnswer \notin Answers

UnderWay == {q \in Slots : sent[q] # Idle}

-----------------------------------------------------------------------------
(* The server.                                                             *)

\* The day of a request: a future one is today.
Clamp(d) == IF d <= today THEN d ELSE today

\* Faulty variant: a habit is there before the day it was created on.
ListedBeforeCreation(h, d) ==
  /\ born[h] # NoDay
  /\ ended[h] # NoDay => d < ended[h]

ListedOn(h, d) ==
  /\ born[h] # NoDay /\ born[h] <= d
  /\ ended[h] # NoDay => d < ended[h]

ListRows(d) ==
  {[habit |-> h, marked |-> d \in marks[h]] :
     h \in {h \in HabitIds : ListedOn(h, d)}}

\* The banner of a list of this day, rendered at this time.
Banner(rows, day, time) ==
  rows # {} /\ (\A row \in rows : row.marked) /\ day = time

Advance(q, at) == sent' = [sent EXCEPT ![q].at = at]

\* createHabit: the row is today's, whatever day is posted.
Insert(q) ==
  /\ sent[q].kind = "create" /\ sent[q].at = "sent"
  /\ \/ \E h \in HabitIds :
          /\ born[h] = NoDay
          /\ born' = [born EXCEPT ![h] = today]
          /\ Advance(q, "written")
     \/ /\ \A h \in HabitIds : born[h] # NoDay
        /\ Advance(q, "answered")
        /\ UNCHANGED born
  /\ UNCHANGED <<ended, marks>>

\* Toggle is three statements, and nothing holds the tables still between
\* them.  The first reads the habit: an inactive one is refused.
LoadHabit(q) ==
  /\ sent[q].kind = "toggle" /\ sent[q].at = "sent"
  /\ Advance(q, IF ListedOn(sent[q].habit, Clamp(sent[q].day))
                THEN "loaded" ELSE "answered")
  /\ UNCHANGED <<born, ended, marks>>

\* The second asks whether there is an entry.
CheckEntry(q) ==
  /\ sent[q].at = "loaded"
  /\ Advance(q, IF Clamp(sent[q].day) \in marks[sent[q].habit]
                THEN "present" ELSE "absent")
  /\ UNCHANGED <<born, ended, marks>>

\* The third goes by what the first two saw.
DeleteEntry(q) ==
  /\ sent[q].at = "present"
  /\ marks' = [marks EXCEPT ![sent[q].habit] = @ \ {Clamp(sent[q].day)}]
  /\ Advance(q, "written")
  /\ UNCHANGED <<born, ended>>

\* A second entry of a habit and day is refused by the table.
InsertEntry(q) ==
  /\ sent[q].at = "absent"
  /\ LET h == sent[q].habit
         d == Clamp(sent[q].day)
     IN  \/ /\ d \notin marks[h]
            /\ marks' = [marks EXCEPT ![h] = @ \cup {d}]
            /\ Advance(q, "written")
         \/ /\ d \in marks[h]
            /\ Advance(q, "answered")
            /\ UNCHANGED marks
  /\ UNCHANGED <<born, ended>>

Toggle(q) ==
  LoadHabit(q) \/ CheckEntry(q) \/ DeleteEntry(q) \/ InsertEntry(q)

\* deleteHabit.
SoftDelete(q) ==
  /\ sent[q].kind = "delete" /\ sent[q].at = "sent"
  /\ ended' = [ended EXCEPT ![sent[q].habit] = Clamp(sent[q].day)]
  /\ Advance(q, "written")
  /\ UNCHANGED <<born, marks>>

Write(q) ==
  /\ q \in UnderWay
  /\ Insert(q) \/ Toggle(q) \/ SoftDelete(q)
  /\ UNCHANGED <<today, page, url, doubt>>

\* Faulty variant: a calendar is rendered without the day of its page.
DayAskedOrNow(q) ==
  IF sent[q].kind = "calendar" THEN today ELSE Clamp(sent[q].day)

\* Faulty variant: a toggle is answered with today's list.
DayToggledNow(q) ==
  IF sent[q].kind = "toggle" THEN today ELSE Clamp(sent[q].day)

\* parseDateParam.
DayAsked(q) == Clamp(sent[q].day)

\* The calendar's month: a future one is the current one.
MonthAsked(q) ==
  IF sent[q].month <= MonthOf(today) THEN sent[q].month ELSE MonthOf(today)

\* A handler reads what it answers with: one that writes, after its write.
Answer(q) ==
  /\ q \in UnderWay
  /\ sent[q].at = (IF sent[q].kind \in {"day", "calendar"} THEN "sent" ELSE "written")
  /\ sent' = [sent EXCEPT
       ![q].at = "answered",
       ![q].answer =
         [day   |-> DayAsked(q),
          month |-> MonthAsked(q),
          rows  |-> IF sent[q].kind = "calendar" THEN {} ELSE ListRows(DayAsked(q)),
          today |-> today]]
  /\ UNCHANGED <<today, born, ended, marks, page, url, doubt>>

-----------------------------------------------------------------------------
(* What the user does.                                                     *)

\* Toggles of different rows may overlap: each is answered with its own row
\* and only the banner may be out of date.
OnlyToggles(request) ==
  request.kind = "toggle" /\ \A p \in UnderWay : sent[p].kind = "toggle"

Send(q, request) ==
  /\ sent[q] = Idle
  /\ Hasty \/ UnderWay = {} \/ OnlyToggles(request)
  /\ sent' = [sent EXCEPT ![q] = request]
  /\ doubt' = CASE UnderWay = {}         -> doubt
                [] UnderWay # {} /\ OnlyToggles(request) -> doubt \cup {"banner"}
                [] OTHER                 -> {"rows", "banner"}
  /\ UNCHANGED <<today, born, ended, marks, page, url>>

Request(kind, h, d, m) ==
  [kind |-> kind, habit |-> h, day |-> d, month |-> m, at |-> "sent",
   answer |-> NoAnswer, target |-> "shown"]

GoTo(q, d) == d \in Days /\ Send(q, Request("day", NoHabit, d, MonthOf(d)))

ClickPrev(q) == GoTo(q, page.day - 1)

\* Faulty variant: the arrow to the next day is always there.
ClickNextAlways(q) == GoTo(q, page.day + 1)

\* The arrow to the next day is missing on today's page.
ClickNext(q) == page.day # page.opened /\ GoTo(q, page.day + 1)

ClickCell(q) == \E d \in Linked(page.month, page.drawn) : GoTo(q, d)

\* The arrows of the calendar keep the day of the page.
GoToMonth(q, m) ==
  m \in Months /\ Send(q, Request("calendar", NoHabit, page.selected, m))

ClickPrevMonth(q) == GoToMonth(q, page.month - 1)

ClickNextMonth(q) ==
  HasNextMonth(page.month, page.drawn) /\ GoToMonth(q, page.month + 1)

\* One request of an element at a time.
Waiting(kind, h) ==
  \E q \in UnderWay :
    sent[q].kind = kind /\ sent[q].habit = h /\ sent[q].target = "shown"

Shown == {row.habit : row \in page.rows} \ {NoHabit}

\* A click on a row, or Enter or space while it has the focus.
ClickRow(q) ==
  \E h \in Shown :
    /\ ~Waiting("toggle", h)
    /\ Send(q, Request("toggle", h, page.day, MonthOf(page.day)))

\* The delete button, confirmed.
ClickDelete(q) ==
  \E h \in Shown :
    /\ ~Waiting("delete", h)
    /\ Send(q, Request("delete", h, page.day, MonthOf(page.day)))

\* The form is there on today's page only.
SubmitForm(q) ==
  /\ page.day = page.opened
  /\ ~Waiting("create", NoHabit)
  /\ Send(q, Request("create", NoHabit, page.day, MonthOf(page.day)))

\* Enter or space on the delete button: its click, and the key's event that
\* goes up to the row.
KeyOnDelete(p, q) ==
  \E h \in Shown :
    /\ Hasty /\ p # q /\ sent[p] = Idle /\ sent[q] = Idle
    /\ ~Waiting("toggle", h) /\ ~Waiting("delete", h)
    /\ sent' = [sent EXCEPT ![p] = Request("toggle", h, page.day, MonthOf(page.day)),
                            ![q] = Request("delete", h, page.day, MonthOf(page.day))]
    /\ doubt' = {"rows", "banner"}
    /\ UNCHANGED <<today, born, ended, marks, page, url>>

\* index: a page as of now, of this day.
PageOf(d) ==
  [day      |-> d,
   opened   |-> today,
   rows     |-> ListRows(d),
   banner   |-> Banner(ListRows(d), d, today),
   month    |-> MonthOf(d),
   selected |-> d,
   drawn    |-> today]

\* The page is loaded anew: the answers under way will find nobody.
Load(d) ==
  /\ Hasty \/ UnderWay = {}
  /\ page' = PageOf(IF d = NoDay THEN today ELSE Clamp(d))
  /\ url' = d
  /\ sent' = [q \in Slots |-> IF sent[q] = Idle
                              THEN Idle ELSE [sent[q] EXCEPT !.target = "left"]]
  /\ doubt' = IF UnderWay = {} THEN {} ELSE {"rows", "banner"}
  /\ UNCHANGED <<today, born, ended, marks>>

Home == Load(NoDay)

Reload == Load(url)

-----------------------------------------------------------------------------
(* What arrives.                                                           *)

\* q ends, and the targets of the requests in gone are swapped out.
End(q, gone) ==
  sent' = [p \in Slots |->
    CASE p = q -> Idle
      [] p # q /\ p \in gone /\ sent[p].target = "shown" ->
           [sent[p] EXCEPT !.target = "swapped out"]
      [] OTHER -> sent[p]]

OfKind(kinds) == {p \in UnderWay : sent[p].kind \in kinds}

OfRow(h) == {p \in OfKind({"toggle", "delete"}) : sent[p].habit = h}

\* The content of the page, and the link's address.
ReceiveDay(q) ==
  /\ sent[q].kind = "day" /\ sent[q].target = "shown"
  /\ LET a == sent[q].answer
     IN  page' = [day      |-> a.day,
                  opened   |-> a.today,
                  rows     |-> a.rows,
                  banner   |-> Banner(a.rows, a.day, a.today),
                  month    |-> MonthOf(a.day),
                  selected |-> a.day,
                  drawn    |-> a.today]
  /\ url' = sent[q].day
  /\ End(q, OfKind({"calendar", "toggle", "delete", "create"}))

ReceiveCalendar(q) ==
  /\ sent[q].kind = "calendar" /\ sent[q].target = "shown"
  /\ page' = [page EXCEPT !.month    = sent[q].answer.month,
                          !.selected = sent[q].answer.day,
                          !.drawn    = sent[q].answer.today]
  /\ End(q, OfKind({"calendar"}))
  /\ UNCHANGED url

RowsWithout(h) == {row \in page.rows : row.habit # h}

\* Faulty variant: the row is put beside the one it replaces.
SwapRowBeside(h, rows) == page.rows \cup {row \in rows : row.habit = h}

\* The row of h in the list, or of no habit, in the place of the old one.
SwapRow(h, rows) ==
  LET new == {row \in rows : row.habit = h}
  IN  RowsWithout(h) \cup
      IF new # {} THEN new ELSE {[habit |-> NoHabit, marked |-> FALSE]}

\* The banner is swapped out of band: into whatever page is shown.
ReceiveToggle(q) ==
  /\ sent[q].kind = "toggle" /\ sent[q].target # "left"
  /\ LET a == sent[q].answer
         h == sent[q].habit
     IN  /\ page' = [page EXCEPT
              !.rows = IF sent[q].target = "shown" THEN SwapRow(h, a.rows) ELSE @,
              !.banner = Banner(a.rows, a.day, a.today)]
         /\ End(q, IF sent[q].target = "shown" THEN OfRow(h) ELSE {})
  /\ UNCHANGED url

\* Faulty variant: the answer to a delete brings no banner.
ReceiveDeleteBare(q) ==
  /\ sent[q].kind = "delete" /\ sent[q].target # "left"
  /\ LET h == sent[q].habit
         shown == sent[q].target = "shown"
     IN  /\ page' = [page EXCEPT !.rows = IF shown THEN RowsWithout(h) ELSE @]
         /\ End(q, IF shown THEN OfRow(h) ELSE {})
  /\ UNCHANGED url

\* Nothing in the place of the row, and the banner.
ReceiveDelete(q) ==
  /\ sent[q].kind = "delete" /\ sent[q].target # "left"
  /\ LET a == sent[q].answer
         h == sent[q].habit
     IN  /\ page' = [page EXCEPT
              !.rows = IF sent[q].target = "shown" THEN RowsWithout(h) ELSE @,
              !.banner = Banner(a.rows, a.day, a.today)]
         /\ End(q, IF sent[q].target = "shown" THEN OfRow(h) ELSE {})
  /\ UNCHANGED url

\* The whole list, its banner included.
ReceiveCreate(q) ==
  /\ sent[q].kind = "create" /\ sent[q].target = "shown"
  /\ LET a == sent[q].answer
     IN  page' = [page EXCEPT !.rows = a.rows,
                              !.banner = Banner(a.rows, a.day, a.today)]
  /\ End(q, OfKind({"toggle", "delete", "create"}))
  /\ UNCHANGED url

\* An error, or an answer with nothing to swap.
Discard(q) ==
  /\ \/ sent[q].answer = NoAnswer
     \/ sent[q].target = "left"
     \/ sent[q].kind \in {"calendar", "create"} /\ sent[q].target = "swapped out"
  /\ End(q, {})
  /\ UNCHANGED <<page, url>>

Receive(q) ==
  /\ q \in UnderWay /\ sent[q].at = "answered"
  /\ \/ /\ sent[q].answer # NoAnswer
        /\ \/ ReceiveDay(q) \/ ReceiveCalendar(q)
           \/ ReceiveToggle(q) \/ ReceiveDelete(q) \/ ReceiveCreate(q)
     \/ Discard(q)
  /\ UNCHANGED <<today, born, ended, marks, doubt>>

\* The request or its answer is lost, or the handler fails on its way: what
\* it has written stays.
Lose(q) ==
  /\ Hasty /\ q \in UnderWay
  /\ End(q, {})
  /\ doubt' = IF sent[q].kind \in {"day", "calendar"} THEN doubt ELSE {"rows", "banner"}
  /\ UNCHANGED <<today, born, ended, marks, page, url>>

-----------------------------------------------------------------------------

Midnight ==
  /\ \E d \in Clock : d > today /\ today' = d
  /\ UNCHANGED <<born, ended, marks, page, url, sent, doubt>>

\* A tab that has just been opened, of a user who may have some habits.
Init ==
  /\ today \in Clock
  /\ born \in [HabitIds -> {NoDay} \cup {d \in Days : d <= today}]
  /\ ended = [h \in HabitIds |-> NoDay]
  /\ marks = [h \in HabitIds |-> {}]
  /\ page = PageOf(today)
  /\ url = NoDay
  /\ sent = [q \in Slots |-> Idle]
  /\ doubt = {}

Next ==
  \/ Midnight \/ Home \/ Reload
  \/ \E q \in Slots :
       \/ ClickPrev(q) \/ ClickNext(q) \/ ClickCell(q)
       \/ ClickPrevMonth(q) \/ ClickNextMonth(q)
       \/ ClickRow(q) \/ ClickDelete(q) \/ SubmitForm(q)
       \/ \E p \in Slots : KeyOnDelete(p, q)
       \/ Write(q) \/ Answer(q) \/ Receive(q) \/ Lose(q)

Spec == Init /\ [][Next]_vars

-----------------------------------------------------------------------------

\* Types, and at most one row for each habit.
TypeOK ==
  /\ today \in Clock
  /\ born \in [HabitIds -> Days \cup {NoDay}]
  /\ ended \in [HabitIds -> Days \cup {NoDay}]
  /\ marks \in [HabitIds -> SUBSET Days]
  /\ page \in Pages
  /\ url \in Days \cup {NoDay}
  /\ sent \in [Slots -> SentRequests \cup {Idle}]
  /\ doubt \subseteq {"rows", "banner"}
  /\ \A row, other \in page.rows :
       row.habit = other.habit => row.habit = NoHabit \/ row = other

\* The address bar names the day that is shown, in whatever order the
\* answers to links arrive: a link is never to a day the server would take
\* for another (handler.go:52-55, habits_templ.go:64-233).
UrlNamesTheDay == url # NoDay => url = page.day

\* The calendar belongs to its page, however late it arrives: it highlights
\* the page's day and shows no month of the future (handler.go:223-248,
\* habits_templ.go:234-326).
CalendarBelongsToPage ==
  /\ page.selected = page.day
  /\ page.month <= MonthOf(today)

\* Every answer is of the day and the month that were asked for: the pages
\* offer nothing that the handlers would have to correct, even when they
\* were rendered before midnight (handler.go:43-59, 225-236).
AnsweredAsAsked ==
  \A q \in UnderWay :
    sent[q].answer # NoAnswer =>
      /\ sent[q].answer.day = sent[q].day
      /\ sent[q].answer.month = sent[q].month

\* The grid is the ISO weeks that the month has days in (dates.go:48-77).
GridIsWholeWeeks ==
  CalendarDays(page.month) =
    {d \in First(page.month) - 7 .. Last(page.month) + 7 :
       \E x \in MonthDays(page.month) : x \div 7 = d \div 7}

\* The request that can still change the row of h.
Busy(h) == \E q \in UnderWay : sent[q].kind # "toggle" \/ sent[q].habit = h

\* As long as nothing but toggles overlaps and no answer is lost, the rows
\* at rest are those of the tables, in whatever order the answers arrive:
\* each toggle is answered with its own row (handler.go:297-311,
\* habits_templ.go:573-605).
RowsAreRight ==
  "rows" \notin doubt =>
    \A h \in HabitIds :
      Busy(h) \/ {row \in page.rows : row.habit = h}
                   = {row \in ListRows(page.day) : row.habit = h}

\* ... and the banner too, as long as nothing overlaps at all; at midnight
\* it stays (habits_templ.go:534-634).
BannerIsRight ==
  doubt = {} /\ UnderWay = {} =>
    /\ page.banner => page.rows # {} /\ \A row \in page.rows : row.marked
    /\ page.rows # {} /\ (\A row \in page.rows : row.marked) /\ page.day = today
         => page.banner

-----------------------------------------------------------------------------

User == "user"

\* The tables of the tab's user as a ledger.
Ledger == INSTANCE HabitLedger WITH
  Users    <- {User},
  Nobody   <- User,
  Dates    <- Days,
  Unborn   <- [owner |-> User, first |-> NoDay, end |-> NoDay],
  Forever  <- NoDay,
  OpenOnly <- FALSE,
  life     <- [h \in HabitIds |-> [owner |-> User, first |-> born[h], end |-> ended[h]]]

\* Whatever the user clicks, on however old a page, and whichever requests
\* overlap, are repeated or lost: the tables change as a ledger does, one
\* operation of a habit that is there at a time, and no mark lies before the
\* habit was created or on a day to come (handler.go:43-59, 270-324,
\* habit.go:251-291).  That a mark lies before the deletion is not promised: a
\* toggle and a delete of one row may be under way together, KeyOnDelete, and
\* the entry is then inserted after the habit was deleted.
ImplementsLedger == Ledger!Spec

=============================================================================
