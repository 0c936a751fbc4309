------------------------------- MODULE TabProofs -------------------------------
(***************************************************************************)
(* A tab shows what its address says, offers nothing that the server would *)
(* correct, keeps its rows and its banner true to the tables, and changes  *)
(* the tables as a ledger, for any number of habits, requests and days.    *)
(***************************************************************************)
EXTENDS Tab, CalendarProofs

\* At most one row for each habit.
OneRowEach(rows) ==
  \A row, other \in rows :
    row.habit = other.habit => row.habit = NoHabit \/ row = other

\* What a request asks for, and what it is answered.
RequestOK(q) ==
  sent[q] # Idle =>
    /\ sent[q].day <= today
    /\ sent[q].month <= MonthOf(today)
    /\ sent[q].kind # "calendar" => sent[q].month = MonthOf(sent[q].day)
    /\ sent[q].kind = "calendar" /\ sent[q].target = "shown" =>
         sent[q].day = page.day
    /\ sent[q].answer # NoAnswer =>
         /\ sent[q].answer.day = sent[q].day
         /\ sent[q].answer.month = sent[q].month
         /\ sent[q].answer.day <= sent[q].answer.today
         /\ sent[q].answer.month <= MonthOf(sent[q].answer.today)
         /\ sent[q].answer.today <= today
         /\ OneRowEach(sent[q].answer.rows)

\* What the page shows was rendered by now, of days up to then.
PageOK ==
  /\ page.day <= page.opened /\ page.opened <= today
  /\ page.selected = page.day
  /\ page.month <= MonthOf(page.drawn) /\ page.drawn <= today
  /\ url # NoDay => url = page.day

IInv == TypeOK /\ PageOK /\ \A q \in Slots : RequestOK(q)

\* Where a toggle is between its statements, and where a statement leaves a
\* request.
Between == {"loaded", "absent", "present"}

Stages == Between \cup {"written", "answered"}

-----------------------------------------------------------------------------

\* The days of the tab are dates.
LEMMA DayType ==
  ASSUME NEW d \in Days
  PROVE  d \in Dates /\ d \in Int /\ MonthOf(d) \in Months /\ d # NoDay
BY MonthOfDate, TabAssumption DEF Days

LEMMA ClockType ==
  ASSUME NEW d \in Clock
  PROVE  d \in Days /\ d \in Dates /\ d \in Int /\ MonthOf(d) \in Months
BY DayType, TabAssumption

LEMMA MonthsAreNumbers == Months \subseteq Int
BY CalendarAssumption DEF Months

Kinds == {"day", "calendar", "toggle", "delete", "create"}

\* A request that has just been sent.
LEMMA RequestType ==
  ASSUME NEW kind \in Kinds,
         NEW h \in HabitIds \cup {NoHabit}, NEW d \in Days, NEW m \in Months
  PROVE  /\ Request(kind, h, d, m) \in SentRequests
         /\ Request(kind, h, d, m) # Idle
<1>1. Request(kind, h, d, m) \in SentRequests
  BY DEF Request, SentRequests, Kinds
<1>2. QED
  BY <1>1, TabNullAssumption

LEMMA RequestFields ==
  ASSUME NEW kind, NEW h, NEW d, NEW m
  PROVE  /\ Request(kind, h, d, m).kind = kind
         /\ Request(kind, h, d, m).day = d
         /\ Request(kind, h, d, m).month = m
         /\ Request(kind, h, d, m).answer = NoAnswer
BY DEF Request

\* The list has one row for each of its habits.
LEMMA ListRowsType ==
  ASSUME NEW d
  PROVE  ListRows(d) \in SUBSET Rows /\ OneRowEach(ListRows(d))
<1>1. ASSUME NEW h \in HabitIds
      PROVE  LET row == [habit |-> h, marked |-> d \in marks[h]]
             IN  row \in Rows /\ row.habit = h
  <2> DEFINE marked == d \in marks[h]
  <2>1. marked \in BOOLEAN
    OBVIOUS
  <2>2. QED
    <3> HIDE DEF marked
    <3>1. QED
      BY <2>1 DEF Rows
<1>2. QED
  BY <1>1 DEF ListRows, OneRowEach

LEMMA BannerType ==
  ASSUME NEW rows, NEW d, NEW e PROVE Banner(rows, d, e) \in BOOLEAN
BY DEF Banner

\* A request under way has its type.
LEMMA UnderWayType ==
  ASSUME TypeOK, NEW q \in Slots, sent[q] # Idle
  PROVE  /\ sent[q] \in SentRequests
         /\ sent[q].kind \in Kinds
         /\ sent[q].habit \in HabitIds \cup {NoHabit}
         /\ sent[q].day \in Days /\ sent[q].month \in Months
         /\ sent[q].answer \in Answers \cup {NoAnswer}
         /\ sent[q].target \in {"shown", "swapped out", "left"}
<1>1. sent[q] \in SentRequests
  BY DEF TypeOK
<1>2. QED
  BY <1>1 DEF SentRequests, Kinds

\* Its target may be swapped out or left: the rest stays.
LEMMA Retarget ==
  ASSUME NEW r \in SentRequests, NEW t \in {"shown", "swapped out", "left"},
         NEW n, n = [r EXCEPT !.target = t]
  PROVE  /\ n \in SentRequests /\ n # Idle
         /\ n.kind = r.kind /\ n.habit = r.habit
         /\ n.day = r.day /\ n.month = r.month
         /\ n.answer = r.answer /\ n.at = r.at /\ n.target = t
<1>1. n \in SentRequests
  BY DEF SentRequests
<1>2. QED
  BY <1>1, TabNullAssumption DEF SentRequests

\* What a step that only ends requests and swaps targets out leaves.
Kept(p, gone) ==
  sent'[p] # Idle =>
    /\ sent[p] # Idle
    /\ sent'[p].kind = sent[p].kind /\ sent'[p].habit = sent[p].habit
    /\ sent'[p].day = sent[p].day /\ sent'[p].month = sent[p].month
    /\ sent'[p].answer = sent[p].answer /\ sent'[p].at = sent[p].at
    /\ sent'[p].target = "shown" => sent[p].target = "shown" /\ p \notin gone

LEMMA EndKeeps ==
  ASSUME TypeOK, NEW q \in Slots, NEW gone, gone \subseteq UnderWay, End(q, gone)
  PROVE  /\ sent' \in [Slots -> SentRequests \cup {Idle}]
         /\ \A p \in Slots : Kept(p, gone)
<1> DEFINE new(p) ==
      CASE p = q -> Idle
        [] p # q /\ p \in gone /\ sent[p].target = "shown" ->
             [sent[p] EXCEPT !.target = "swapped out"]
        [] OTHER -> sent[p]
<1>1. sent' = [p \in Slots |-> new(p)]
  BY DEF End
<1>2. ASSUME NEW p \in Slots
      PROVE  new(p) \in SentRequests \cup {Idle} /\ Kept(p, gone)
  <2>1. CASE p = q
    BY <2>1, <1>1 DEF Kept
  <2>2. CASE p # q /\ p \in gone /\ sent[p].target = "shown"
    <3>1. sent[p] \in SentRequests /\ sent[p] # Idle
      BY <2>2, UnderWayType DEF UnderWay
    <3>2. sent'[p] = [sent[p] EXCEPT !.target = "swapped out"]
      BY <2>2, <1>1
    <3>5. sent'[p] = new(p)
      BY <1>1
    <3> HIDE DEF new
    <3>3. /\ sent'[p] \in SentRequests
          /\ sent'[p].kind = sent[p].kind /\ sent'[p].habit = sent[p].habit
          /\ sent'[p].day = sent[p].day /\ sent'[p].month = sent[p].month
          /\ sent'[p].answer = sent[p].answer /\ sent'[p].at = sent[p].at
          /\ sent'[p].target = "swapped out"
      <4>1. ASSUME NEW r \in SentRequests, NEW n, n = [r EXCEPT !.target = "swapped out"]
            PROVE  /\ n \in SentRequests /\ n.kind = r.kind /\ n.habit = r.habit
                   /\ n.day = r.day /\ n.month = r.month
                   /\ n.answer = r.answer /\ n.at = r.at /\ n.target = "swapped out"
        BY <4>1, Retarget
      <4>2. QED
        BY <3>1, <3>2, <4>1
    <3>4. QED
      BY <3>1, <3>3, <3>5 DEF Kept
  <2>3. CASE p # q /\ ~(p \in gone /\ sent[p].target = "shown")
    <3>1. sent'[p] = sent[p] /\ new(p) = sent[p]
      BY <2>3, <1>1
    <3>2. QED
      BY <3>1, <2>3 DEF Kept, TypeOK
  <2>4. QED
    BY <2>1, <2>2, <2>3
<1>3. QED
  BY <1>1, <1>2

\* What is kept stays as it should be, while the day of the page stays or
\* the calendars under way lose their target.
LEMMA KeptOK ==
  ASSUME NEW p \in Slots, NEW gone, RequestOK(p), Kept(p, gone), today' = today,
         \/ page'.day = page.day
         \/ sent[p] # Idle /\ sent[p].kind = "calendar" => p \in gone
  PROVE  RequestOK(p)'
<1>1. CASE sent'[p] = Idle
  BY <1>1 DEF RequestOK
<1>2. CASE sent'[p] # Idle
  BY <1>2 DEF RequestOK, Kept, OneRowEach
<1>3. QED
  BY <1>1, <1>2


-----------------------------------------------------------------------------
(* The steps.                                                              *)

\* A request for a day and a month that are not in the future.
LEMMA SendStep ==
  ASSUME IInv, NEW q \in Slots, NEW kind \in Kinds,
         NEW h \in HabitIds \cup {NoHabit}, NEW d \in Days, NEW m \in Months,
         Send(q, Request(kind, h, d, m)),
         d <= today, m <= MonthOf(today),
         kind # "calendar" => m = MonthOf(d),
         kind = "calendar" => d = page.day
  PROVE  IInv'
<1> DEFINE r == Request(kind, h, d, m)
<1>1. r \in SentRequests /\ r # Idle
  BY RequestType
<1>2. sent' = [sent EXCEPT ![q] = r] /\ UNCHANGED <<today, born, ended, marks, page, url>>
  BY DEF Send
<1>3. TypeOK'
  <2>1. doubt' \subseteq {"rows", "banner"}
    BY DEF Send, IInv, TypeOK
  <2>2. QED
    BY <1>1, <1>2, <2>1 DEF IInv, TypeOK
<1>4. PageOK'
  BY <1>2 DEF IInv, PageOK
<1>5. ASSUME NEW p \in Slots PROVE RequestOK(p)'
  <2>1. CASE p # q
    <3>1. sent'[p] = sent[p]
      BY <1>2, <2>1 DEF IInv, TypeOK
    <3>2. QED
      BY <3>1, <1>2 DEF IInv, RequestOK, OneRowEach
  <2>2. CASE p = q
    <3>1. sent'[p] = r
      BY <1>2, <2>2 DEF IInv, TypeOK
    <3>2. /\ sent'[p].kind = kind /\ sent'[p].day = d
          /\ sent'[p].month = m /\ sent'[p].answer = NoAnswer
      BY <3>1, RequestFields
    <3>3. QED
      BY <3>2, <1>2 DEF RequestOK
  <2>3. QED
    BY <2>1, <2>2
<1>6. QED
  BY <1>3, <1>4, <1>5 DEF IInv

\* A link to a day that is not in the future.
LEMMA GoToStep ==
  ASSUME IInv, NEW q \in Slots, NEW d \in Int, d <= today, GoTo(q, d)
  PROVE  IInv'
<1>1. d \in Days /\ Send(q, Request("day", NoHabit, d, MonthOf(d)))
  BY DEF GoTo
<1>2. today \in Clock /\ today \in Dates
  BY ClockType DEF IInv, TypeOK
<1>3. MonthOf(d) \in Months /\ MonthOf(d) <= MonthOf(today)
  BY <1>1, <1>2, DayType, MonthGrows
<1>4. QED
  BY <1>1, <1>3, SendStep DEF Kinds

\* The days of the page.
LEMMA PageDays ==
  ASSUME IInv
  PROVE  /\ page.day \in Days /\ page.day \in Int /\ page.day <= today
         /\ page.opened \in Int /\ page.day <= page.opened /\ page.opened <= today
         /\ page.drawn \in Dates /\ page.drawn \in Int /\ page.drawn <= today
         /\ today \in Dates /\ today \in Int
         /\ page.month \in Months /\ page.month \in Int
         /\ page.selected = page.day
         /\ MonthOf(page.day) \in Months /\ MonthOf(page.day) <= MonthOf(today)
         /\ MonthOf(page.drawn) \in Int /\ MonthOf(page.drawn) <= MonthOf(today)
         /\ MonthOf(today) \in Int /\ page.month <= MonthOf(today)
<1>1. /\ page.day \in Days /\ page.opened \in Clock /\ page.drawn \in Clock
      /\ page.month \in Months /\ today \in Clock
  BY DEF IInv, TypeOK, Pages
<1>2. /\ page.day \in Dates /\ page.day \in Int /\ MonthOf(page.day) \in Months
      /\ page.opened \in Int
      /\ page.drawn \in Dates /\ page.drawn \in Int /\ MonthOf(page.drawn) \in Months
      /\ today \in Dates /\ today \in Int /\ MonthOf(today) \in Months
  BY <1>1, DayType, ClockType
<1>3. /\ page.month \in Int /\ MonthOf(page.day) \in Int
      /\ MonthOf(page.drawn) \in Int /\ MonthOf(today) \in Int
  BY <1>1, <1>2, MonthsAreNumbers
<1>4. /\ page.day <= page.opened /\ page.opened <= today /\ page.drawn <= today
      /\ page.selected = page.day /\ page.month <= MonthOf(page.drawn)
  BY DEF IInv, PageOK
<1>5. page.day <= today
  BY <1>2, <1>4
<1>6. MonthOf(page.day) <= MonthOf(today) /\ MonthOf(page.drawn) <= MonthOf(today)
  BY <1>2, <1>4, <1>5, MonthGrows
<1>7. page.month <= MonthOf(today)
  BY <1>3, <1>4, <1>6
<1>8. QED
  BY <1>1, <1>2, <1>3, <1>4, <1>5, <1>6, <1>7

\* The links to days: no page has one to a day after the page was rendered.
LEMMA DayLinkStep ==
  ASSUME IInv, NEW q \in Slots, ClickPrev(q) \/ ClickNext(q) \/ ClickCell(q)
  PROVE  IInv'
<1>1. CASE ClickPrev(q)
  <2>1. page.day - 1 \in Int /\ page.day - 1 <= today
    BY PageDays
  <2>2. QED
    BY <1>1, <2>1, GoToStep DEF ClickPrev
<1>2. CASE ClickNext(q)
  <2>1. page.day + 1 \in Int /\ page.day + 1 <= today
    BY <1>2, PageDays DEF ClickNext
  <2>2. QED
    BY <1>2, <2>1, GoToStep DEF ClickNext
<1>3. CASE ClickCell(q)
  <2>1. PICK d \in Linked(page.month, page.drawn) : GoTo(q, d)
    BY <1>3 DEF ClickCell
  <2>2. d \in Days /\ d \in Int /\ d <= page.drawn
    BY <2>1, DayType DEF GoTo, Linked
  <2>3. d <= today
    BY <2>2, PageDays
  <2>4. QED
    BY <2>1, <2>2, <2>3, GoToStep
<1>4. QED
  BY <1>1, <1>2, <1>3

\* The arrows of the calendar.
LEMMA MonthLinkStep ==
  ASSUME IInv, NEW q \in Slots, ClickPrevMonth(q) \/ ClickNextMonth(q)
  PROVE  IInv'
<1>1. ASSUME NEW m \in Int, m <= MonthOf(today), GoToMonth(q, m)
      PROVE  IInv'
  <2>1. m \in Months /\ Send(q, Request("calendar", NoHabit, page.day, m))
    BY <1>1, PageDays DEF GoToMonth
  <2>2. QED
    BY <1>1, <2>1, PageDays, SendStep DEF Kinds
<1>2. CASE ClickPrevMonth(q)
  <2>1. page.month - 1 \in Int /\ page.month - 1 <= MonthOf(today)
    BY PageDays
  <2>2. QED
    BY <1>1, <1>2, <2>1 DEF ClickPrevMonth
<1>3. CASE ClickNextMonth(q)
  <2>1. page.month # MonthOf(page.drawn) /\ page.month <= MonthOf(page.drawn)
    BY <1>3 DEF ClickNextMonth, HasNextMonth, IInv, PageOK
  <2>2. page.month + 1 \in Int /\ page.month + 1 <= MonthOf(today)
    BY <2>1, PageDays
  <2>3. QED
    BY <1>1, <1>3, <2>2 DEF ClickNextMonth
<1>4. QED
  BY <1>2, <1>3

\* The rows shown have habits.
LEMMA ShownType ==
  ASSUME IInv, NEW h \in Shown PROVE h \in HabitIds
<1>1. PICK row \in page.rows : h = row.habit /\ h # NoHabit
  BY DEF Shown
<1>2. row \in Rows
  BY DEF IInv, TypeOK, Pages
<1>3. QED
  BY <1>1, <1>2 DEF Rows

\* The rows and the form post the day of the page.
LEMMA PostStep ==
  ASSUME IInv, NEW q \in Slots, ClickRow(q) \/ ClickDelete(q) \/ SubmitForm(q)
  PROVE  IInv'
<1>1. PICK kind \in {"toggle", "delete", "create"}, h \in Shown \cup {NoHabit} :
        Send(q, Request(kind, h, page.day, MonthOf(page.day)))
  BY DEF ClickRow, ClickDelete, SubmitForm
<1>2. h \in HabitIds \cup {NoHabit}
  BY <1>1, ShownType
<1>3. QED
  BY <1>1, <1>2, PageDays, SendStep DEF Kinds

\* Both requests of one key.
LEMMA KeyStep ==
  ASSUME IInv, NEW p \in Slots, NEW q \in Slots, KeyOnDelete(p, q)
  PROVE  IInv'
<1> DEFINE m == MonthOf(page.day)
<1>1. PICK h \in Shown :
        sent' = [sent EXCEPT ![p] = Request("toggle", h, page.day, m),
                             ![q] = Request("delete", h, page.day, m)]
  BY DEF KeyOnDelete
<1>2. /\ UNCHANGED <<today, born, ended, marks, page, url>>
      /\ doubt' = {"rows", "banner"} /\ p # q
  BY DEF KeyOnDelete
<1>3. h \in HabitIds \cup {NoHabit}
  BY ShownType
<1>4. ASSUME NEW kind \in {"toggle", "delete"}
      PROVE  Request(kind, h, page.day, m) \in SentRequests
  BY <1>3, PageDays, RequestType DEF Kinds
<1>5. TypeOK'
  <2>1. sent' \in [Slots -> SentRequests \cup {Idle}]
    BY <1>1, <1>4 DEF IInv, TypeOK
  <2>2. QED
    BY <1>2, <2>1 DEF IInv, TypeOK
<1>6. PageOK'
  BY <1>2 DEF IInv, PageOK
<1>7. ASSUME NEW r \in Slots PROVE RequestOK(r)'
  <2>1. CASE r # p /\ r # q
    <3>1. sent'[r] = sent[r]
      BY <1>1, <2>1 DEF IInv, TypeOK
    <3>2. QED
      BY <3>1, <1>2 DEF IInv, RequestOK, OneRowEach
  <2>2. CASE r = p \/ r = q
    <3>1. PICK kind \in {"toggle", "delete"} :
            sent'[r] = Request(kind, h, page.day, m)
      BY <1>1, <1>2, <2>2 DEF IInv, TypeOK
    <3>2. /\ sent'[r].kind = kind /\ sent'[r].day = page.day
          /\ sent'[r].month = m /\ sent'[r].answer = NoAnswer
      BY <3>1, RequestFields
    <3>3. QED
      BY <3>2, <1>2, PageDays DEF RequestOK
  <2>3. QED
    BY <2>1, <2>2
<1>8. QED
  BY <1>5, <1>6, <1>7 DEF IInv

\* The days of a request.
LEMMA RequestDays ==
  ASSUME IInv, NEW q \in Slots, sent[q] # Idle
  PROVE  /\ sent[q].day \in Days /\ sent[q].day <= today /\ Clamp(sent[q].day) = sent[q].day
         /\ sent[q].month \in Months /\ MonthAsked(q) = sent[q].month
         /\ today \in Clock
<1>1. sent[q].day \in Days /\ sent[q].month \in Months
  BY UnderWayType DEF IInv
<1>2. sent[q].day <= today /\ sent[q].month <= MonthOf(today)
  BY DEF IInv, RequestOK
<1>3. QED
  BY <1>1, <1>2 DEF Clamp, MonthAsked, IInv, TypeOK

\* A statement of the server, and how far its request has come with it.
LEMMA WriteAdvances ==
  ASSUME NEW q \in Slots, Write(q)
  PROVE  \E at \in Stages : Advance(q, at)
<1>1. CASE Insert(q) \/ SoftDelete(q)
  BY <1>1 DEF Insert, SoftDelete, Stages
<1>2. CASE Toggle(q)
  <2>1. CASE LoadHabit(q)
    BY <2>1 DEF LoadHabit, Stages, Between
  <2>2. CASE CheckEntry(q)
    BY <2>2 DEF CheckEntry, Stages, Between
  <2>3. CASE DeleteEntry(q) \/ InsertEntry(q)
    BY <2>3 DEF DeleteEntry, InsertEntry, Stages
  <2>4. QED
    BY <1>2, <2>1, <2>2, <2>3 DEF Toggle
<1>3. QED
  BY <1>1, <1>2 DEF Write

\* What a toggle's statements do to the tables.
LEMMA ToggleTables ==
  ASSUME NEW q \in Slots, Toggle(q)
  PROVE  /\ UNCHANGED <<born, ended>>
         /\ \/ UNCHANGED marks
            \/ marks' = [marks EXCEPT ![sent[q].habit] = @ \ {Clamp(sent[q].day)}]
            \/ marks' = [marks EXCEPT ![sent[q].habit] = @ \cup {Clamp(sent[q].day)}]
BY DEF Toggle, LoadHabit, CheckEntry, DeleteEntry, InsertEntry

LEMMA WriteStep ==
  ASSUME IInv, NEW q \in Slots, Write(q)
  PROVE  IInv'
<1>1. /\ sent[q] # Idle /\ sent[q] \in SentRequests
      /\ UNCHANGED <<today, page, url, doubt>>
  BY UnderWayType DEF Write, UnderWay, IInv
<1>2. PICK at \in Stages : Advance(q, at)
  BY WriteAdvances
<1>3. /\ sent'[q] = [sent[q] EXCEPT !.at = at]
      /\ \A p \in Slots \ {q} : sent'[p] = sent[p]
  BY <1>2 DEF Advance, IInv, TypeOK
<1>4. /\ sent'[q] \in SentRequests
      /\ sent'[q].kind = sent[q].kind
      /\ sent'[q].day = sent[q].day /\ sent'[q].month = sent[q].month
      /\ sent'[q].answer = sent[q].answer /\ sent'[q].target = sent[q].target
  <2>1. ASSUME NEW r \in SentRequests, NEW n, n = [r EXCEPT !.at = at]
        PROVE  /\ n \in SentRequests /\ n.kind = r.kind
               /\ n.day = r.day /\ n.month = r.month
               /\ n.answer = r.answer /\ n.target = r.target
    BY <2>1 DEF SentRequests, Stages, Between
  <2>2. QED
    BY <1>1, <1>3, <2>1
<1>5. TypeOK'
  <2>1. sent' \in [Slots -> SentRequests \cup {Idle}]
    BY <1>2, <1>3, <1>4 DEF Advance, IInv, TypeOK
  <2>2. born' \in [HabitIds -> Days \cup {NoDay}]
    BY ClockType, ToggleTables DEF Write, Insert, SoftDelete, IInv, TypeOK
  <2>3. ended' \in [HabitIds -> Days \cup {NoDay}]
    BY <1>1, RequestDays, ToggleTables DEF Write, Insert, SoftDelete, IInv, TypeOK
  <2>4. marks' \in [HabitIds -> SUBSET Days]
    <3>1. Clamp(sent[q].day) \in Days /\ marks \in [HabitIds -> SUBSET Days]
      BY <1>1, RequestDays DEF IInv, TypeOK
    <3>2. CASE Toggle(q)
      BY <3>1, <3>2, ToggleTables
    <3>3. CASE ~Toggle(q)
      BY <3>1, <3>3 DEF Write, Insert, SoftDelete
    <3>4. QED
      BY <3>2, <3>3
  <2>5. QED
    BY <1>1, <2>1, <2>2, <2>3, <2>4 DEF IInv, TypeOK
<1>6. PageOK'
  BY <1>1 DEF IInv, PageOK
<1>7. ASSUME NEW p \in Slots PROVE RequestOK(p)'
  <2>1. CASE p = q
    BY <2>1, <1>1, <1>4 DEF IInv, RequestOK, OneRowEach
  <2>2. CASE p # q
    <3>1. sent'[p] = sent[p]
      BY <1>3, <2>2
    <3>2. QED
      BY <1>1, <3>1 DEF IInv, RequestOK, OneRowEach
  <2>3. QED
    BY <2>1, <2>2
<1>8. QED
  BY <1>5, <1>6, <1>7 DEF IInv

\* An answer is of the day and the month that were asked for.
LEMMA AnswerStep ==
  ASSUME IInv, NEW q \in Slots, Answer(q)
  PROVE  IInv'
<1> DEFINE rows == IF sent[q].kind = "calendar" THEN {} ELSE ListRows(DayAsked(q))
           a == [day |-> sent[q].day, month |-> sent[q].month,
                 rows |-> rows, today |-> today]
<1>1. /\ sent[q] # Idle /\ sent[q] \in SentRequests
      /\ UNCHANGED <<today, born, ended, marks, page, url, doubt>>
  BY UnderWayType DEF Answer, UnderWay, IInv
<1>2. rows \in SUBSET Rows /\ OneRowEach(rows)
  <2>1. OneRowEach({})
    BY DEF OneRowEach
  <2>2. QED
    BY <2>1, ListRowsType
<1>3. /\ sent[q].day \in Days /\ sent[q].day <= today
      /\ sent[q].month \in Months /\ sent[q].month <= MonthOf(today)
      /\ today \in Clock
  BY <1>1, RequestDays DEF IInv, RequestOK
<1>4. /\ sent'[q] = [sent[q] EXCEPT !.at = "answered", !.answer = a]
      /\ sent' = [sent EXCEPT ![q] = [sent[q] EXCEPT !.at = "answered", !.answer = a]]
  BY <1>1, RequestDays DEF Answer, DayAsked, IInv, TypeOK
<1> HIDE DEF rows
<1>5. /\ a \in Answers /\ a # NoAnswer
      /\ a.day = sent[q].day /\ a.month = sent[q].month
      /\ a.today = today /\ OneRowEach(a.rows)
  BY <1>2, <1>3, TabNullAssumption DEF Answers
<1> HIDE DEF a
<1>6. /\ sent'[q] \in SentRequests
      /\ sent'[q].kind = sent[q].kind
      /\ sent'[q].day = sent[q].day /\ sent'[q].month = sent[q].month
      /\ sent'[q].answer = a /\ sent'[q].target = sent[q].target
  <2>1. ASSUME NEW r \in SentRequests, NEW n,
               n = [r EXCEPT !.at = "answered", !.answer = a]
        PROVE  /\ n \in SentRequests /\ n.kind = r.kind
               /\ n.day = r.day /\ n.month = r.month
               /\ n.answer = a /\ n.target = r.target
    BY <2>1, <1>5 DEF SentRequests
  <2>2. QED
    BY <1>1, <1>4, <2>1
<1>7. \A p \in Slots \ {q} : sent'[p] = sent[p]
  BY <1>4 DEF IInv, TypeOK
<1>8. TypeOK'
  <2>1. sent' \in [Slots -> SentRequests \cup {Idle}]
    BY <1>4, <1>6, <1>7 DEF IInv, TypeOK
  <2>2. QED
    BY <1>1, <2>1 DEF IInv, TypeOK
<1>9. PageOK'
  BY <1>1 DEF IInv, PageOK
<1>10. ASSUME NEW p \in Slots PROVE RequestOK(p)'
  <2>1. CASE p # q
    BY <2>1, <1>1, <1>7 DEF IInv, RequestOK, OneRowEach
  <2>2. CASE p = q
    <3>1. today \in Int
      BY <1>3, ClockType
    <3>2. sent[q].kind # "calendar" => sent[q].month = MonthOf(sent[q].day)
      BY <1>1 DEF IInv, RequestOK
    <3>3. sent[q].kind = "calendar" /\ sent[q].target = "shown" => sent[q].day = page.day
      BY <1>1 DEF IInv, RequestOK
    <3>4. /\ sent'[q].answer.day <= today /\ sent'[q].answer.month <= MonthOf(today)
          /\ sent'[q].answer.today <= today /\ sent'[q].answer.today = today
      BY <1>3, <1>5, <1>6, <3>1
    <3>5. OneRowEach(sent'[q].answer.rows)
      BY <1>5, <1>6
    <3>6. QED
      BY <1>1, <1>3, <1>5, <1>6, <2>2, <3>2, <3>3, <3>4, <3>5 DEF RequestOK, OneRowEach
  <2>3. QED
    BY <2>1, <2>2
<1>11. QED
  BY <1>8, <1>9, <1>10 DEF IInv

-----------------------------------------------------------------------------
(* What arrives.                                                           *)

\* A day's page as it is rendered at some time.
LEMMA PageRendered ==
  ASSUME NEW d \in Days, NEW time \in Clock, d <= time, NEW rows \in SUBSET Rows,
         NEW banner \in BOOLEAN, NEW new,
         new = [day |-> d, opened |-> time, rows |-> rows, banner |-> banner,
                month |-> MonthOf(d), selected |-> d, drawn |-> time]
  PROVE  /\ new \in Pages /\ new.day = d /\ new.opened = time
         /\ new.selected = d /\ new.drawn = time /\ new.rows = rows
         /\ new.month = MonthOf(d) /\ new.month <= MonthOf(time)
<1>1. MonthOf(d) \in Months /\ MonthOf(d) <= MonthOf(time)
  BY DayType, ClockType, MonthGrows
<1>2. QED
  BY <1>1 DEF Pages

\* A page that is loaded keeps what is under way, with no target.
LEMMA LoadKeeps ==
  ASSUME TypeOK, NEW d, Load(d)
  PROVE  /\ sent' \in [Slots -> SentRequests \cup {Idle}]
         /\ \A p \in Slots : Kept(p, Slots)
<1>1. ASSUME NEW p \in Slots
      PROVE  sent'[p] \in SentRequests \cup {Idle} /\ Kept(p, Slots)
  <2>1. CASE sent[p] = Idle
    BY <2>1 DEF Load, Kept
  <2>2. CASE sent[p] # Idle
    <3>1. sent'[p] = [sent[p] EXCEPT !.target = "left"] /\ sent[p] \in SentRequests
      BY <2>2, UnderWayType DEF Load
    <3>2. ASSUME NEW r \in SentRequests, NEW n, n = [r EXCEPT !.target = "left"]
          PROVE  /\ n \in SentRequests /\ n.kind = r.kind /\ n.habit = r.habit
                 /\ n.day = r.day /\ n.month = r.month
                 /\ n.answer = r.answer /\ n.target = "left"
      BY <3>2, Retarget
    <3>3. QED
      BY <2>2, <3>1, <3>2 DEF Kept
  <2>3. QED
    BY <2>1, <2>2
<1>2. QED
  BY <1>1 DEF Load

\* The page is loaded: nothing under way will find it.
LEMMA LoadStep ==
  ASSUME IInv, NEW d \in Days \cup {NoDay}, Load(d), d # NoDay => d <= today
  PROVE  IInv'
<1> DEFINE day == IF d = NoDay THEN today ELSE d
<1>1. /\ page' = PageOf(day) /\ url' = d
      /\ UNCHANGED <<today, born, ended, marks>>
      /\ doubt' \subseteq {"rows", "banner"}
  BY DEF Load, Clamp
<1>2. today \in Clock /\ today \in Int /\ day \in Days /\ day <= today
  BY ClockType DEF IInv, TypeOK
<1> HIDE DEF day
<1>3. /\ page' \in Pages /\ page'.day = day /\ page'.opened = today
      /\ page'.selected = day /\ page'.drawn = today
      /\ page'.month <= MonthOf(today) /\ OneRowEach(page'.rows)
  BY <1>1, <1>2, ListRowsType, BannerType, PageRendered DEF PageOf
<1>4. url' # NoDay => url' = page'.day
  BY <1>1, <1>3 DEF day
<1>5. /\ sent' \in [Slots -> SentRequests \cup {Idle}]
      /\ \A p \in Slots : Kept(p, Slots)
  BY LoadKeeps DEF IInv
<1>6. TypeOK'
  BY <1>1, <1>3, <1>5 DEF IInv, TypeOK, OneRowEach
<1>7. PageOK'
  BY <1>1, <1>2, <1>3, <1>4 DEF PageOK
<1>8. ASSUME NEW p \in Slots PROVE RequestOK(p)'
  BY <1>1, <1>5, KeptOK DEF IInv
<1>9. QED
  BY <1>6, <1>7, <1>8 DEF IInv

\* What a request that ends leaves, when the page that is shown is in order.
LEMMA EndStep ==
  ASSUME IInv, NEW q \in Slots, NEW gone, gone \subseteq UnderWay, End(q, gone),
         UNCHANGED <<today, born, ended, marks>>,
         doubt' \subseteq {"rows", "banner"},
         page' \in Pages, OneRowEach(page'.rows), url' \in Days \cup {NoDay}, PageOK',
         \/ page'.day = page.day
         \/ \A p \in UnderWay : sent[p].kind = "calendar" => p \in gone
  PROVE  IInv'
<1>1. sent' \in [Slots -> SentRequests \cup {Idle}] /\ \A p \in Slots : Kept(p, gone)
  BY EndKeeps DEF IInv
<1>2. TypeOK'
  BY <1>1 DEF IInv, TypeOK, OneRowEach
<1>3. ASSUME NEW p \in Slots PROVE RequestOK(p)'
  BY <1>1, KeptOK DEF IInv, UnderWay
<1>4. QED
  BY <1>2, <1>3 DEF IInv

\* What an answer says.
LEMMA AnswerType ==
  ASSUME IInv, NEW q \in Slots, sent[q] # Idle, sent[q].answer # NoAnswer
  PROVE  LET a == sent[q].answer
         IN  /\ a.day \in Days /\ a.day = sent[q].day
             /\ a.month \in Months /\ a.month = sent[q].month
             /\ a.today \in Clock /\ a.day <= a.today /\ a.today <= today
             /\ a.month <= MonthOf(a.today)
             /\ a.rows \in SUBSET Rows /\ OneRowEach(a.rows)
             /\ sent[q].habit \in HabitIds \cup {NoHabit}
             /\ sent[q].kind # "calendar" => a.month = MonthOf(a.day)
<1>1. sent[q].answer \in Answers /\ sent[q].habit \in HabitIds \cup {NoHabit}
  BY UnderWayType DEF IInv
<1>2. RequestOK(q)
  BY DEF IInv
<1>3. QED
  BY <1>1, <1>2 DEF Answers, RequestOK

\* The page of a day: its links and its rows leave the page with it.
LEMMA ReceiveDayStep ==
  ASSUME IInv, NEW q \in Slots, sent[q] # Idle, sent[q].answer # NoAnswer,
         ReceiveDay(q), UNCHANGED <<today, born, ended, marks, doubt>>
  PROVE  IInv'
<1> DEFINE a == sent[q].answer
           gone == OfKind({"calendar", "toggle", "delete", "create"})
<1>1. /\ a.day \in Days /\ a.day = sent[q].day /\ a.today \in Clock
      /\ a.day <= a.today /\ a.today <= today
      /\ a.rows \in SUBSET Rows /\ OneRowEach(a.rows)
  BY AnswerType
<1>2. /\ page' \in Pages /\ page'.day = a.day /\ page'.opened = a.today
      /\ page'.selected = a.day /\ page'.drawn = a.today /\ page'.rows = a.rows
      /\ page'.month <= MonthOf(a.today)
  BY <1>1, BannerType, PageRendered DEF ReceiveDay
<1>3. End(q, gone) /\ url' = sent[q].day
  BY DEF ReceiveDay
<1>4. PageOK'
  BY <1>1, <1>2, <1>3 DEF PageOK
<1>5. gone \subseteq UnderWay /\ \A p \in UnderWay : sent[p].kind = "calendar" => p \in gone
  BY DEF OfKind
<1>6. doubt' \subseteq {"rows", "banner"}
  BY DEF IInv, TypeOK
<1>7. QED
  BY <1>1, <1>2, <1>3, <1>4, <1>5, <1>6, EndStep

\* The calendar is of the page's day.
LEMMA ReceiveCalendarStep ==
  ASSUME IInv, NEW q \in Slots, sent[q] # Idle, sent[q].answer # NoAnswer,
         ReceiveCalendar(q), UNCHANGED <<today, born, ended, marks, doubt>>
  PROVE  IInv'
<1> DEFINE a == sent[q].answer
<1>1. /\ a.day \in Days /\ a.day = sent[q].day /\ a.month \in Months
      /\ a.today \in Clock /\ a.today <= today /\ a.month <= MonthOf(a.today)
  BY AnswerType
<1>2. a.day = page.day
  BY <1>1 DEF ReceiveCalendar, IInv, RequestOK
<1>3. ASSUME NEW old \in Pages, NEW new,
             new = [old EXCEPT !.month = a.month, !.selected = a.day, !.drawn = a.today]
      PROVE  /\ new \in Pages /\ new.day = old.day /\ new.opened = old.opened
             /\ new.rows = old.rows /\ new.month = a.month /\ new.selected = a.day
             /\ new.drawn = a.today
  BY <1>1, <1>3 DEF Pages
<1>4. /\ page' \in Pages /\ page'.day = page.day /\ page'.opened = page.opened
      /\ page'.rows = page.rows /\ page'.month = a.month /\ page'.selected = a.day
      /\ page'.drawn = a.today
  <2>1. page' = [page EXCEPT !.month = a.month, !.selected = a.day, !.drawn = a.today]
    BY DEF ReceiveCalendar
  <2>2. page \in Pages
    BY DEF IInv, TypeOK
  <2> HIDE DEF a
  <2>3. QED
    BY <1>1, <1>3, <2>1, <2>2
<1>5. End(q, OfKind({"calendar"})) /\ UNCHANGED url
  BY DEF ReceiveCalendar
<1>6. PageOK'
  BY <1>1, <1>2, <1>4, <1>5 DEF PageOK, IInv
<1>7. /\ OfKind({"calendar"}) \subseteq UnderWay /\ doubt' \subseteq {"rows", "banner"}
      /\ OneRowEach(page'.rows) /\ url' \in Days \cup {NoDay}
  BY <1>4, <1>5 DEF OfKind, IInv, TypeOK, OneRowEach
<1>8. QED
  BY <1>4, <1>5, <1>6, <1>7, EndStep

\* Rows and a banner, whatever they are, and the rest of the page stays.
LEMMA RowsStep ==
  ASSUME IInv, NEW q \in Slots, NEW gone, gone \subseteq UnderWay, End(q, gone),
         UNCHANGED <<today, born, ended, marks, url, doubt>>,
         NEW rows \in SUBSET Rows, OneRowEach(rows), NEW banner \in BOOLEAN,
         page' = [page EXCEPT !.rows = rows, !.banner = banner]
  PROVE  IInv'
<1>1. ASSUME NEW old \in Pages, NEW new,
             new = [old EXCEPT !.rows = rows, !.banner = banner]
      PROVE  /\ new \in Pages /\ new.day = old.day /\ new.opened = old.opened
             /\ new.rows = rows /\ new.month = old.month /\ new.selected = old.selected
             /\ new.drawn = old.drawn
  BY <1>1 DEF Pages
<1>2. /\ page' \in Pages /\ page'.day = page.day /\ page'.opened = page.opened
      /\ page'.rows = rows /\ page'.month = page.month
      /\ page'.selected = page.selected /\ page'.drawn = page.drawn
  BY <1>1 DEF IInv, TypeOK
<1>3. PageOK'
  BY <1>2 DEF PageOK, IInv
<1>4. doubt' \subseteq {"rows", "banner"} /\ url' \in Days \cup {NoDay}
  BY DEF IInv, TypeOK
<1>5. OneRowEach(page'.rows)
  BY <1>2
<1>6. QED
  BY <1>2, <1>3, <1>4, <1>5, EndStep

\* A row put in the place of another leaves one for each habit.
LEMMA SwapRowType ==
  ASSUME IInv, NEW h, NEW rows \in SUBSET Rows, OneRowEach(rows)
  PROVE  /\ SwapRow(h, rows) \in SUBSET Rows /\ OneRowEach(SwapRow(h, rows))
         /\ RowsWithout(h) \in SUBSET Rows /\ OneRowEach(RowsWithout(h))
<1>1. page.rows \in SUBSET Rows /\ OneRowEach(page.rows)
  BY DEF IInv, TypeOK, Pages, OneRowEach
<1>2. [habit |-> NoHabit, marked |-> FALSE] \in Rows
  BY DEF Rows
<1>3. RowsWithout(h) \in SUBSET Rows /\ OneRowEach(RowsWithout(h))
  BY <1>1 DEF RowsWithout, OneRowEach
<1> DEFINE new == {row \in rows : row.habit = h}
           zero == [habit |-> NoHabit, marked |-> FALSE]
<1>4. CASE new # {}
  <2>1. SwapRow(h, rows) = RowsWithout(h) \cup new
    BY <1>4 DEF SwapRow
  <2>2. QED
    BY <1>3, <2>1 DEF OneRowEach, RowsWithout
<1>5. CASE new = {}
  <2>1. SwapRow(h, rows) = RowsWithout(h) \cup {zero}
    BY <1>5 DEF SwapRow
  <2>2. zero.habit = NoHabit
    OBVIOUS
  <2> HIDE DEF zero
  <2>3. OneRowEach(SwapRow(h, rows))
    BY <1>3, <2>1, <2>2 DEF OneRowEach
  <2>4. QED
    BY <1>2, <1>3, <2>1, <2>3 DEF zero
<1>6. QED
  BY <1>3, <1>4, <1>5

\* The answers that bring rows.
LEMMA ReceiveRowsStep ==
  ASSUME IInv, NEW q \in Slots, sent[q] # Idle, sent[q].answer # NoAnswer,
         ReceiveToggle(q) \/ ReceiveDelete(q) \/ ReceiveCreate(q),
         UNCHANGED <<today, born, ended, marks, doubt>>
  PROVE  IInv'
<1> DEFINE a == sent[q].answer
           h == sent[q].habit
           banner == Banner(a.rows, a.day, a.today)
<1>1. a.rows \in SUBSET Rows /\ OneRowEach(a.rows)
  BY AnswerType
<1>2. page.rows \in SUBSET Rows /\ OneRowEach(page.rows)
  BY DEF IInv, TypeOK, Pages, OneRowEach
<1>3. banner \in BOOLEAN /\ UNCHANGED url
  BY BannerType DEF ReceiveToggle, ReceiveDelete, ReceiveCreate
<1>4. /\ SwapRow(h, a.rows) \in SUBSET Rows /\ OneRowEach(SwapRow(h, a.rows))
      /\ RowsWithout(h) \in SUBSET Rows /\ OneRowEach(RowsWithout(h))
  BY <1>1, SwapRowType
<1>5. /\ OfRow(h) \subseteq UnderWay
      /\ OfKind({"toggle", "delete", "create"}) \subseteq UnderWay
  BY DEF OfRow, OfKind
<1>6. CASE ReceiveToggle(q)
  <2> DEFINE rows == IF sent[q].target = "shown" THEN SwapRow(h, a.rows) ELSE page.rows
             gone == IF sent[q].target = "shown" THEN OfRow(h) ELSE {}
  <2>1. page' = [page EXCEPT !.rows = rows, !.banner = banner] /\ End(q, gone)
    BY <1>6 DEF ReceiveToggle
  <2>2. rows \in SUBSET Rows /\ OneRowEach(rows) /\ gone \subseteq UnderWay
    BY <1>2, <1>4, <1>5
  <2> HIDE DEF rows, gone, banner
  <2>3. QED
    BY <1>3, <2>1, <2>2, RowsStep
<1>7. CASE ReceiveDelete(q)
  <2> DEFINE rows == IF sent[q].target = "shown" THEN RowsWithout(h) ELSE page.rows
             gone == IF sent[q].target = "shown" THEN OfRow(h) ELSE {}
  <2>1. page' = [page EXCEPT !.rows = rows, !.banner = banner] /\ End(q, gone)
    BY <1>7 DEF ReceiveDelete
  <2>2. rows \in SUBSET Rows /\ OneRowEach(rows) /\ gone \subseteq UnderWay
    BY <1>2, <1>4, <1>5
  <2> HIDE DEF rows, gone, banner
  <2>3. QED
    BY <1>3, <2>1, <2>2, RowsStep
<1>8. CASE ReceiveCreate(q)
  <2>1. /\ page' = [page EXCEPT !.rows = a.rows, !.banner = banner]
        /\ End(q, OfKind({"toggle", "delete", "create"}))
    BY <1>8 DEF ReceiveCreate
  <2> HIDE DEF banner
  <2>2. QED
    BY <1>1, <1>3, <1>5, <2>1, RowsStep
<1>9. QED
  BY <1>6, <1>7, <1>8

\* A request that ends without a trace on the page.
LEMMA NothingStep ==
  ASSUME IInv, NEW q \in Slots, End(q, {}), doubt' \subseteq {"rows", "banner"},
         UNCHANGED <<today, born, ended, marks, page, url>>
  PROVE  IInv'
<1>1. /\ page' \in Pages /\ OneRowEach(page'.rows) /\ url' \in Days \cup {NoDay}
      /\ page'.day = page.day
  BY DEF IInv, TypeOK, OneRowEach
<1>2. PageOK'
  BY DEF IInv, PageOK
<1>3. QED
  BY <1>1, <1>2, EndStep

LEMMA MidnightStep ==
  ASSUME IInv, Midnight
  PROVE  IInv'
<1>1. /\ today' \in Clock /\ today < today'
      /\ UNCHANGED <<born, ended, marks, page, url, sent, doubt>>
  BY DEF Midnight
<1>2. today \in Clock /\ today \in Int /\ today' \in Int
      /\ today \in Dates /\ today' \in Dates
  BY <1>1, ClockType DEF IInv, TypeOK
<1>3. MonthOf(today) <= MonthOf(today')
  BY <1>1, <1>2, MonthGrows
<1>4. /\ MonthOf(today) \in Int /\ MonthOf(today') \in Int
  BY <1>1, <1>2, ClockType, MonthsAreNumbers
<1>5. TypeOK'
  BY <1>1 DEF IInv, TypeOK
<1>6. PageOK'
  <2>1. page.opened \in Int /\ page.drawn \in Int
    BY PageDays
  <2>2. QED
    BY <1>1, <1>2, <2>1 DEF IInv, PageOK
<1>7. ASSUME NEW q \in Slots, sent'[q] # Idle PROVE RequestOK(q)'
  <2>1. sent[q] # Idle /\ RequestOK(q) /\ sent'[q] = sent[q] /\ page' = page
    BY <1>1, <1>7 DEF IInv
  <2>2. /\ sent[q].day \in Int /\ sent[q].month \in Int
    BY <2>1, RequestDays, DayType, MonthsAreNumbers
  <2>3. sent[q].answer # NoAnswer => sent[q].answer.today \in Int
    BY <2>1, AnswerType, ClockType
  <2>4. sent[q].day <= today' /\ sent[q].month <= MonthOf(today')
    BY <1>1, <1>2, <1>3, <1>4, <2>1, <2>2 DEF RequestOK
  <2>5. sent[q].answer # NoAnswer => sent[q].answer.today <= today'
    BY <1>1, <1>2, <2>1, <2>3 DEF RequestOK
  <2>6. QED
    BY <2>1, <2>4, <2>5 DEF RequestOK, OneRowEach
<1>8. QED
  BY <1>5, <1>6, <1>7 DEF IInv, RequestOK

-----------------------------------------------------------------------------

LEMMA InitStep ==
  ASSUME Init
  PROVE  IInv
<1>1. today \in Clock /\ today \in Int /\ today \in Days
  BY ClockType DEF Init
<1>2. /\ page \in Pages /\ page.day = today /\ page.opened = today
      /\ page.selected = today /\ page.drawn = today
      /\ page.month <= MonthOf(today) /\ OneRowEach(page.rows)
  BY <1>1, ListRowsType, BannerType, PageRendered DEF Init, PageOf
<1>3. TypeOK
  BY <1>1, <1>2 DEF Init, TypeOK, OneRowEach
<1>4. PageOK
  BY <1>1, <1>2 DEF Init, PageOK
<1>5. \A q \in Slots : RequestOK(q)
  BY DEF Init, RequestOK
<1>6. QED
  BY <1>3, <1>4, <1>5 DEF IInv

LEMMA ReceiveStep ==
  ASSUME IInv, NEW q \in Slots, Receive(q)
  PROVE  IInv'
<1>1. sent[q] # Idle /\ UNCHANGED <<today, born, ended, marks, doubt>>
  BY DEF Receive, UnderWay
<1>2. CASE sent[q].answer # NoAnswer /\ ReceiveDay(q)
  BY <1>1, <1>2, ReceiveDayStep
<1>3. CASE sent[q].answer # NoAnswer /\ ReceiveCalendar(q)
  BY <1>1, <1>3, ReceiveCalendarStep
<1>4. CASE /\ sent[q].answer # NoAnswer
           /\ ReceiveToggle(q) \/ ReceiveDelete(q) \/ ReceiveCreate(q)
  BY <1>1, <1>4, ReceiveRowsStep
<1>5. CASE Discard(q)
  BY <1>1, <1>5, NothingStep DEF Discard, IInv, TypeOK
<1>6. QED
  BY <1>2, <1>3, <1>4, <1>5 DEF Receive

LEMMA NextStep ==
  ASSUME IInv, [Next]_vars
  PROVE  IInv'
<1>1. CASE Midnight
  BY <1>1, MidnightStep
<1>2. CASE Home
  BY <1>2, LoadStep DEF Home
<1>3. CASE Reload
  <2>1. url \in Days \cup {NoDay} /\ (url # NoDay => url <= today)
    BY PageDays DEF IInv, TypeOK, PageOK
  <2>2. QED
    BY <1>3, <2>1, LoadStep DEF Reload
<1>4. ASSUME NEW q \in Slots, ClickPrev(q) \/ ClickNext(q) \/ ClickCell(q) PROVE IInv'
  BY <1>4, DayLinkStep
<1>5. ASSUME NEW q \in Slots, ClickPrevMonth(q) \/ ClickNextMonth(q) PROVE IInv'
  BY <1>5, MonthLinkStep
<1>6. ASSUME NEW q \in Slots, ClickRow(q) \/ ClickDelete(q) \/ SubmitForm(q) PROVE IInv'
  BY <1>6, PostStep
<1>7. ASSUME NEW p \in Slots, NEW q \in Slots, KeyOnDelete(p, q) PROVE IInv'
  BY <1>7, KeyStep
<1>8. ASSUME NEW q \in Slots, Write(q) PROVE IInv'
  BY <1>8, WriteStep
<1>9. ASSUME NEW q \in Slots, Answer(q) PROVE IInv'
  BY <1>9, AnswerStep
<1>10. ASSUME NEW q \in Slots, Receive(q) PROVE IInv'
  BY <1>10, ReceiveStep
<1>11. ASSUME NEW q \in Slots, Lose(q) PROVE IInv'
  <2>1. /\ End(q, {}) /\ doubt' \subseteq {"rows", "banner"}
        /\ UNCHANGED <<today, born, ended, marks, page, url>>
    BY <1>11 DEF Lose, IInv, TypeOK
  <2>2. QED
    BY <2>1, NothingStep
<1>12. CASE UNCHANGED vars
  <2>1. UNCHANGED <<today, born, ended, marks, page, url, sent, doubt>>
    BY <1>12 DEF vars
  <2>2. TypeOK' /\ PageOK' /\ \A q \in Slots : RequestOK(q)'
    BY <2>1 DEF IInv, TypeOK, PageOK, RequestOK, OneRowEach
  <2>3. QED
    BY <2>2 DEF IInv
<1>13. QED
  BY <1>1, <1>2, <1>3, <1>4, <1>5, <1>6, <1>7, <1>8, <1>9, <1>10, <1>11, <1>12 DEF Next

\* The invariant the theorems below are read from: no page, link or answer
\* knows of a day that has not come (handler.go:43-59, habits_templ.go:64-471).
THEOREM TabInvariant == Spec => []IInv
<1>1. Init => IInv
  BY InitStep
<1>2. IInv /\ [Next]_vars => IInv'
  BY NextStep
<1>3. QED
  BY <1>1, <1>2, PTL DEF Spec

\* Types, and one row for each habit, after any swap (habits_templ.go:573-634).
THEOREM TabTypeCorrect == Spec => []TypeOK
<1>1. IInv => TypeOK
  BY DEF IInv
<1>2. QED
  BY <1>1, TabInvariant, PTL

\* The address bar names the day that is shown (handler.go:52-55).
THEOREM AddressNamesTheDay == Spec => []UrlNamesTheDay
<1>1. IInv => UrlNamesTheDay
  BY DEF IInv, PageOK, UrlNamesTheDay
<1>2. QED
  BY <1>1, TabInvariant, PTL

\* A calendar that arrives late is still its page's (handler.go:223-248).
THEOREM CalendarStaysWithPage == Spec => []CalendarBelongsToPage
<1>1. IInv => CalendarBelongsToPage
  BY PageDays DEF CalendarBelongsToPage
<1>2. QED
  BY <1>1, TabInvariant, PTL

\* No link asks for what the handlers would correct (handler.go:43-59).
THEOREM NothingIsCorrected == Spec => []AnsweredAsAsked
<1>1. IInv => AnsweredAsAsked
  BY DEF IInv, RequestOK, AnsweredAsAsked, UnderWay
<1>2. QED
  BY <1>1, TabInvariant, PTL

\* The grid of every page is the weeks of its month (dates.go:48-77).
THEOREM GridAlwaysWholeWeeks == Spec => []GridIsWholeWeeks
<1>1. ASSUME IInv PROVE GridIsWholeWeeks
  <2> DEFINE m == page.month
  <2>1. m \in Months
    BY <1>1, PageDays
  <2>2. /\ First(m) \in Int /\ Last(m) \in Int /\ First(m) <= Last(m)
        /\ CalendarDays(m) = 7 * (First(m) \div 7) .. 7 * (Last(m) \div 7) + 6
    BY <2>1, GridBounds
  <2>3. /\ First(m) - 7 <= 7 * (First(m) \div 7) /\ First(m) \div 7 \in Int
        /\ 7 * (Last(m) \div 7) + 6 <= Last(m) + 7 /\ Last(m) \div 7 \in Int
    BY <2>2, WeekBounds
  <2>4. CalendarDays(m) \subseteq First(m) - 7 .. Last(m) + 7
    BY <2>2, <2>3
  <2>5. \A d \in First(m) - 7 .. Last(m) + 7 :
          d \in CalendarDays(m) <=> \E x \in MonthDays(m) : x \div 7 = d \div 7
    BY <2>1, <2>2, GridOfWeeks
  <2>6. QED
    BY <2>4, <2>5 DEF GridIsWholeWeeks
<1>2. QED
  BY <1>1, TabInvariant, PTL

-----------------------------------------------------------------------------
(* The rows.                                                               *)

\* The rows of a list that are of this habit.
OfHabit(rows, h) == {row \in rows : row.habit = h}

\* A habit created on b and deleted as of e is listed on d.
Listed(b, e, d) == b # NoDay /\ b <= d /\ (e # NoDay => d < e)

\* These rows show of h what the tables say about the day d.
Right(rows, h, d) ==
  OfHabit(rows, h) =
    IF Listed(born[h], ended[h], d)
    THEN {[habit |-> h, marked |-> d \in marks[h]]}
    ELSE {}

Settled(h) == Right(page.rows, h, page.day)

\* Neither the tables nor the page have been changed by this request.
Before(r) ==
  \/ r.kind \in {"day", "calendar"}
  \/ r.at \in {"sent"} \cup Between
  \/ r.at = "answered" /\ r.answer = NoAnswer

\* What a request has found and will leave.
RowsOf(q) ==
  sent[q] # Idle =>
    LET r == sent[q]
    IN  /\ r.target = "shown"
        /\ r.kind \in {"toggle", "delete"} => r.habit \in HabitIds
        /\ r.kind \in {"toggle", "delete", "create"} => r.day = page.day
        /\ r.at # "answered" => r.answer = NoAnswer
        /\ \A h \in HabitIds :
             Before(r) /\ (r.kind = "toggle" => h = r.habit) => Settled(h)
        /\ r.at \in Between => r.kind = "toggle"
        /\ r.at \in Between \/ (~Before(r) /\ r.kind = "toggle") =>
             Listed(born[r.habit], ended[r.habit], page.day)
        /\ ~Before(r) /\ r.kind = "delete" =>
             /\ ~Listed(born[r.habit], ended[r.habit], page.day)
             /\ \A h \in HabitIds \ {r.habit} : Settled(h)
        /\ r.answer # NoAnswer =>
             /\ r.kind \in {"day", "create"} =>
                  \A h \in HabitIds : Right(r.answer.rows, h, r.answer.day)
             /\ r.kind = "toggle" => Right(r.answer.rows, r.habit, page.day)

\* What nothing under way can change is right.
RestIsRight ==
  \A h \in HabitIds :
    (\A q \in Slots : sent[q] # Idle => sent[q].kind = "toggle" /\ sent[q].habit # h)
      => Settled(h)

\* Only toggles of different rows overlap.
Apart ==
  \A p, q \in Slots :
    p # q /\ sent[p] # Idle /\ sent[q] # Idle =>
      sent[p].kind = "toggle" /\ sent[q].kind = "toggle" /\ sent[p].habit # sent[q].habit

RowsOK == "rows" \notin doubt => RestIsRight /\ Apart /\ \A q \in Slots : RowsOf(q)

\* A list shows of each habit what the tables say.
LEMMA ListIsRight ==
  ASSUME NEW h \in HabitIds, NEW d
  PROVE  Right(ListRows(d), h, d)
<1> DEFINE row(g) == [habit |-> g, marked |-> d \in marks[g]]
<1>1. \A g : row(g).habit = g
  OBVIOUS
<1>2. ListRows(d) = {row(g) : g \in {g \in HabitIds : ListedOn(g, d)}}
  BY DEF ListRows
<1>3. ListedOn(h, d) <=> Listed(born[h], ended[h], d)
  BY DEF ListedOn, Listed
<1> HIDE DEF row
<1>4. OfHabit(ListRows(d), h) = IF ListedOn(h, d) THEN {row(h)} ELSE {}
  BY <1>1, <1>2 DEF OfHabit
<1>5. QED
  BY <1>3, <1>4 DEF Right, row

\* What was right stays so while neither side changes.
LEMMA SettledKept ==
  ASSUME NEW h \in HabitIds, Settled(h), page'.rows = page.rows, page'.day = page.day,
         born'[h] = born[h], ended'[h] = ended[h], marks'[h] = marks[h]
  PROVE  Settled(h)'
BY DEF Settled, Right

\* What holds while no rows are in doubt.
LEMMA RowsFacts ==
  ASSUME RowsOK, "rows" \notin doubt
  PROVE  RestIsRight /\ Apart /\ \A q \in Slots : RowsOf(q)
BY DEF RowsOK

\* Nothing that rows depend on changes.
LEMMA RowsStutter ==
  ASSUME RowsOK, UNCHANGED <<born, ended, marks, page, sent, doubt>>
  PROVE  RowsOK'
<1>1. SUFFICES ASSUME "rows" \notin doubt' PROVE (RestIsRight /\ Apart /\ \A q \in Slots : RowsOf(q))'
  BY DEF RowsOK
<1>2. RestIsRight /\ Apart /\ \A q \in Slots : RowsOf(q)
  BY <1>1, RowsFacts
<1>3. RestIsRight' /\ Apart'
  BY <1>2 DEF RestIsRight, Apart, Settled, Right
<1>4. ASSUME NEW q \in Slots PROVE RowsOf(q)'
  BY <1>2 DEF RowsOf, Before, Settled, Right
<1>5. QED
  BY <1>3, <1>4

\* With nothing under way all rows are right.
LEMMA AllIdle ==
  ASSUME \A p \in Slots : sent'[p] = Idle, \A h \in HabitIds : Settled(h)'
  PROVE  RowsOK'
BY DEF RowsOK, RestIsRight, Apart, RowsOf

\* A request that is sent alone, or a toggle of a row that waits for none.
LEMMA SendRows ==
  ASSUME IInv, RowsOK, NEW q \in Slots, NEW kind \in Kinds,
         NEW h \in HabitIds \cup {NoHabit}, NEW d \in Days, NEW m \in Months,
         Send(q, Request(kind, h, d, m)),
         kind \in {"toggle", "delete"} => h \in HabitIds,
         kind \in {"toggle", "delete", "create"} => d = page.day,
         kind = "toggle" => ~Waiting("toggle", h)
  PROVE  RowsOK'
<1> DEFINE r == Request(kind, h, d, m)
<1>1. /\ r.kind = kind /\ r.habit = h /\ r.day = d /\ r.at = "sent"
      /\ r.answer = NoAnswer /\ r.target = "shown" /\ r # Idle
  BY RequestType DEF Request
<1>2. /\ sent'[q] = r /\ \A p \in Slots \ {q} : sent'[p] = sent[p]
      /\ sent[q] = Idle /\ UNCHANGED <<born, ended, marks, page>>
  BY DEF Send, IInv, TypeOK
<1> SUFFICES ASSUME "rows" \notin doubt'
             PROVE  RestIsRight' /\ Apart' /\ \A p \in Slots : RowsOf(p)'
  BY DEF RowsOK
<1>3. UnderWay = {} \/ OnlyToggles(r)
  BY DEF Send
<1> HIDE DEF r
<1>4. /\ "rows" \notin doubt
      /\ \A p \in Slots : sent[p] # Idle => kind = "toggle" /\ sent[p].kind = "toggle"
  BY <1>1, <1>3 DEF Send, OnlyToggles, UnderWay, r
<1>5. RestIsRight /\ Apart /\ \A p \in Slots : RowsOf(p)
  BY <1>4, RowsFacts
<1>6. \A p \in Slots : sent[p] # Idle => sent[p].habit # h
  BY <1>4, <1>5 DEF RowsOf, Waiting, UnderWay
<1>7. \A g \in HabitIds : (kind = "toggle" => g = h) => Settled(g)
  BY <1>4, <1>5, <1>6 DEF RestIsRight
<1>8. \A g \in HabitIds : Settled(g) => Settled(g)'
  BY <1>2, SettledKept
<1>9. RestIsRight'
  BY <1>2, <1>5, <1>8 DEF RestIsRight
<1>10. Apart'
  BY <1>1, <1>2, <1>4, <1>5, <1>6 DEF Apart
<1>11. ASSUME NEW p \in Slots PROVE RowsOf(p)'
  <2>1. CASE p = q
    BY <1>1, <1>2, <1>7, <1>8, <2>1 DEF RowsOf, Before, Between
  <2>2. CASE p # q
    <3>1. sent'[p] = sent[p] /\ RowsOf(p)
      BY <1>2, <1>5, <2>2
    <3>2. QED
      BY <1>2, <1>8, <3>1 DEF RowsOf, Before, Right
  <2>3. QED
    BY <2>1, <2>2
<1>12. QED
  BY <1>9, <1>10, <1>11

\* The links, the rows and the form.
LEMMA ClickRows ==
  ASSUME IInv, RowsOK, NEW q \in Slots,
         \/ ClickPrev(q) \/ ClickNext(q) \/ ClickCell(q)
         \/ ClickPrevMonth(q) \/ ClickNextMonth(q)
         \/ ClickRow(q) \/ ClickDelete(q) \/ SubmitForm(q)
  PROVE  RowsOK'
<1>1. ASSUME NEW d, GoTo(q, d) PROVE RowsOK'
  <2>1. d \in Days /\ MonthOf(d) \in Months /\ Send(q, Request("day", NoHabit, d, MonthOf(d)))
    BY <1>1, DayType DEF GoTo
  <2>2. QED
    BY <2>1, SendRows DEF Kinds
<1>2. ASSUME NEW m, GoToMonth(q, m) PROVE RowsOK'
  <2>1. /\ m \in Months /\ page.selected \in Days
        /\ Send(q, Request("calendar", NoHabit, page.selected, m))
    BY <1>2, PageDays DEF GoToMonth
  <2>2. QED
    BY <2>1, SendRows DEF Kinds
<1>3. CASE ClickPrev(q) \/ ClickNext(q) \/ ClickCell(q)
  BY <1>1, <1>3 DEF ClickPrev, ClickNext, ClickCell
<1>4. CASE ClickPrevMonth(q) \/ ClickNextMonth(q)
  BY <1>2, <1>4 DEF ClickPrevMonth, ClickNextMonth
<1>5. page.day \in Days /\ MonthOf(page.day) \in Months
  BY PageDays
<1>6. CASE ClickRow(q)
  <2>1. PICK h \in Shown : /\ ~Waiting("toggle", h)
                           /\ Send(q, Request("toggle", h, page.day, MonthOf(page.day)))
    BY <1>6 DEF ClickRow
  <2>2. QED
    BY <1>5, <2>1, ShownType, SendRows DEF Kinds
<1>7. CASE ClickDelete(q)
  <2>1. PICK h \in Shown : Send(q, Request("delete", h, page.day, MonthOf(page.day)))
    BY <1>7 DEF ClickDelete
  <2>2. QED
    BY <1>5, <2>1, ShownType, SendRows DEF Kinds
<1>8. CASE SubmitForm(q)
  BY <1>5, <1>8, SendRows DEF SubmitForm, Kinds
<1>9. QED
  BY <1>3, <1>4, <1>6, <1>7, <1>8

\* Whatever was sent besides, a request that is no toggle is alone.
LEMMA Alone ==
  ASSUME Apart, NEW q \in Slots, sent[q] # Idle, sent[q].kind # "toggle"
  PROVE  \A p \in Slots \ {q} : sent[p] = Idle
BY DEF Apart

\* What a write leaves of its request.
LEMMA WriteFields ==
  ASSUME IInv, NEW q \in Slots, sent[q] # Idle, NEW at \in Stages, Advance(q, at)
  PROVE  /\ sent'[q] # Idle /\ sent'[q].at = at
         /\ sent'[q].kind = sent[q].kind /\ sent'[q].habit = sent[q].habit
         /\ sent'[q].day = sent[q].day /\ sent'[q].answer = sent[q].answer
         /\ sent'[q].target = sent[q].target
         /\ \A p \in Slots \ {q} : sent'[p] = sent[p]
<1>1. ASSUME NEW r \in SentRequests, NEW n, n = [r EXCEPT !.at = at]
      PROVE  /\ n \in SentRequests /\ n # Idle /\ n.at = at
             /\ n.kind = r.kind /\ n.habit = r.habit /\ n.day = r.day
             /\ n.answer = r.answer /\ n.target = r.target
  <2>1. n \in SentRequests
    BY <1>1 DEF SentRequests, Stages, Between
  <2>2. QED
    BY <1>1, <2>1, TabNullAssumption DEF SentRequests
<1>2. sent[q] \in SentRequests
  BY UnderWayType DEF IInv
<1>3. /\ sent'[q] = [sent[q] EXCEPT !.at = at]
      /\ \A p \in Slots \ {q} : sent'[p] = sent[p]
  BY DEF Advance, IInv, TypeOK
<1>4. QED
  BY <1>1, <1>2, <1>3

\* Where a request is when a statement is run for it.
LEMMA WriteFrom ==
  ASSUME NEW q \in Slots, Write(q)
  PROVE  sent[q].at \in {"sent"} \cup Between
BY DEF Write, Insert, SoftDelete, Toggle, LoadHabit, CheckEntry, DeleteEntry,
       InsertEntry, Between

\* A toggle changes its own row, a delete and a create are alone.
LEMMA WriteRows ==
  ASSUME IInv, RowsOK, NEW q \in Slots, Write(q)
  PROVE  RowsOK'
<1> SUFFICES ASSUME "rows" \notin doubt'
             PROVE  RestIsRight' /\ Apart' /\ \A p \in Slots : RowsOf(p)'
  BY DEF RowsOK
<1>0. PICK h : h = sent[q].habit
  OBVIOUS
<1>1. /\ sent[q] # Idle /\ UNCHANGED <<today, page, doubt>>
      /\ sent[q].at \in {"sent"} \cup Between
  <2>1. sent[q] # Idle /\ UNCHANGED <<today, page, doubt>>
    BY DEF Write, UnderWay
  <2>2. sent[q].at \in {"sent"} \cup Between
    BY WriteFrom
  <2>3. QED
    BY <2>1, <2>2
<1>2. RestIsRight /\ Apart /\ \A p \in Slots : RowsOf(p)
  BY <1>1, RowsFacts
<1>3. PICK at \in Stages : Advance(q, at)
  BY WriteAdvances
<1>4. /\ sent'[q] # Idle /\ sent'[q].at = at
      /\ sent'[q].kind = sent[q].kind /\ sent'[q].habit = h
      /\ sent'[q].day = sent[q].day /\ sent'[q].answer = sent[q].answer
      /\ sent'[q].target = sent[q].target
      /\ \A p \in Slots \ {q} : sent'[p] = sent[p]
  BY <1>0, <1>1, <1>3, WriteFields
<1>5. Apart'
  BY <1>0, <1>1, <1>2, <1>4 DEF Apart
<1>6. /\ sent[q].target = "shown" /\ sent[q].answer = NoAnswer
      /\ sent[q].kind \in {"toggle", "delete"} => h \in HabitIds
      /\ sent[q].kind \in {"toggle", "delete", "create"} => sent[q].day = page.day
      /\ \A g \in HabitIds : (sent[q].kind = "toggle" => g = h) => Settled(g)
      /\ sent[q].at \in Between =>
           sent[q].kind = "toggle" /\ Listed(born[h], ended[h], page.day)
  BY <1>0, <1>1, <1>2 DEF RowsOf, Before, Between
<1>7. Clamp(page.day) = page.day
  BY PageDays DEF Clamp
<1>8. CASE Insert(q)
  <2>1. /\ sent[q].kind = "create" /\ UNCHANGED <<ended, marks>>
        /\ at = "answered" => UNCHANGED born
        /\ at \in {"written", "answered"}
    <3>1. \A b, c \in Stages : Advance(q, b) /\ Advance(q, c) => b = c
      BY <1>1, WriteFields
    <3>2. QED
      BY <1>3, <1>8, <3>1 DEF Insert, Stages
  <2>2. \A p \in Slots \ {q} : sent'[p] = Idle
    BY <1>1, <1>2, <1>4, <2>1, Alone
  <2>3. RestIsRight'
    BY <1>4, <2>1 DEF RestIsRight
  <2>4. at = "answered" => \A g \in HabitIds : Settled(g)'
    BY <1>1, <1>6, <2>1, SettledKept
  <2>5. RowsOf(q)'
    BY <1>1, <1>4, <1>6, <2>1, <2>4 DEF RowsOf, Before, Between
  <2>6. QED
    BY <1>5, <2>2, <2>3, <2>5 DEF RowsOf
<1>9. CASE SoftDelete(q)
  <2>1. /\ sent[q].kind = "delete" /\ UNCHANGED <<born, marks>>
        /\ ended' = [ended EXCEPT ![h] = page.day] /\ at = "written"
    <3>1. \A b, c \in Stages : Advance(q, b) /\ Advance(q, c) => b = c
      BY <1>1, WriteFields
    <3>2. QED
      BY <1>0, <1>3, <1>6, <1>7, <1>9, <3>1 DEF SoftDelete, Stages
  <2>2. \A p \in Slots \ {q} : sent'[p] = Idle
    BY <1>1, <1>2, <1>4, <2>1, Alone
  <2>3. RestIsRight'
    BY <1>4, <2>1 DEF RestIsRight
  <2>4. \A g \in HabitIds \ {h} : Settled(g)'
    BY <1>1, <1>6, <2>1, SettledKept DEF IInv, TypeOK
  <2>5. ~Listed(born'[h], ended'[h], page'.day)
    <3>1. ended'[h] = page.day /\ page.day \in Int /\ page.day # NoDay
      BY <1>6, <2>1, PageDays, DayType DEF IInv, TypeOK
    <3>2. QED
      BY <1>1, <3>1 DEF Listed
  <2>6. RowsOf(q)'
    BY <1>1, <1>4, <1>6, <2>1, <2>4, <2>5 DEF RowsOf, Before, Between
  <2>7. QED
    BY <1>5, <2>2, <2>3, <2>6 DEF RowsOf
<1>10. CASE Toggle(q)
  <2>1. /\ sent[q].kind = "toggle" /\ UNCHANGED <<born, ended>>
        /\ at # "answered" => Listed(born[h], ended[h], page.day)
        /\ at # "written" => UNCHANGED marks
        /\ \A g \in HabitIds \ {h} : marks'[g] = marks[g]
    <3>1. \A b, c \in Stages : Advance(q, b) /\ Advance(q, c) => b = c
      BY <1>1, WriteFields
    <3>2. UNCHANGED <<born, ended>> /\ \A g \in HabitIds \ {h} : marks'[g] = marks[g]
      BY <1>0, <1>10, ToggleTables DEF IInv, TypeOK
    <3>3. CASE LoadHabit(q)
      <4>1. sent[q].kind = "toggle" /\ Clamp(sent[q].day) = page.day /\ UNCHANGED marks
        BY <1>6, <1>7, <3>3 DEF LoadHabit
      <4>2. ListedOn(h, page.day) => Listed(born[h], ended[h], page.day)
        BY DEF ListedOn, Listed
      <4>3. at = IF ListedOn(h, page.day) THEN "loaded" ELSE "answered"
        BY <1>0, <1>3, <3>1, <3>3, <4>1 DEF LoadHabit, Stages, Between
      <4>4. QED
        BY <3>2, <4>1, <4>2, <4>3
    <3>4. CASE CheckEntry(q) \/ DeleteEntry(q) \/ InsertEntry(q)
      <4>1. sent[q].at \in Between
        BY <3>4 DEF CheckEntry, DeleteEntry, InsertEntry, Between
      <4>2. at = "written" \/ UNCHANGED marks
        <5>1. \A b \in Stages : Advance(q, b) => b = at
          BY <1>3, <3>1
        <5>2. QED
          BY <3>4, <5>1 DEF CheckEntry, DeleteEntry, InsertEntry, Stages
      <4>3. QED
        BY <1>6, <3>2, <4>1, <4>2
    <3>5. QED
      BY <1>10, <3>3, <3>4 DEF Toggle
  <2>2. \A g \in HabitIds \ {h} : Settled(g) => Settled(g)'
    BY <1>1, <2>1, SettledKept
  <2>3. RestIsRight'
    <3>1. SUFFICES ASSUME NEW g \in HabitIds,
                          \A p \in Slots : sent'[p] # Idle =>
                            sent'[p].kind = "toggle" /\ sent'[p].habit # g
                   PROVE  Settled(g)'
      BY DEF RestIsRight
    <3>2. g # h /\ \A p \in Slots : sent[p] # Idle =>
                     sent[p].kind = "toggle" /\ sent[p].habit # g
      BY <1>0, <1>4, <2>1, <3>1
    <3>3. QED
      BY <1>2, <2>2, <3>2 DEF RestIsRight
  <2>4. ASSUME NEW p \in Slots PROVE RowsOf(p)'
    <3>1. CASE p = q
      <4>1. at # "written" => Settled(h)'
        BY <1>1, <1>6, <2>1, SettledKept
      <4>2. QED
        BY <1>1, <1>3, <1>4, <1>6, <2>1, <3>1, <4>1 DEF RowsOf, Before, Stages, Between
    <3>2. CASE p # q
      <4>1. sent'[p] = sent[p] /\ RowsOf(p)
        BY <1>2, <1>4, <3>2
      <4>2. sent[p] # Idle => sent[p].kind = "toggle" /\ sent[p].habit # h
        BY <1>0, <1>1, <1>2, <3>2 DEF Apart
      <4>3. QED
        BY <1>1, <2>1, <2>2, <4>1, <4>2 DEF RowsOf, Before, Right
    <3>3. QED
      BY <3>1, <3>2
  <2>5. QED
    BY <1>5, <2>3, <2>4
<1>11. QED
  BY <1>8, <1>9, <1>10 DEF Write

\* The answer of a handler, and what stays of its request.
LEMMA AnswerFields ==
  ASSUME IInv, NEW q \in Slots, Answer(q), NEW rows,
         rows = IF sent[q].kind = "calendar" THEN {} ELSE ListRows(sent[q].day)
  PROVE  /\ sent[q] # Idle /\ sent'[q] # Idle /\ sent'[q].at = "answered"
         /\ sent'[q].answer = [day |-> sent[q].day, month |-> sent[q].month,
                               rows |-> rows, today |-> today]
         /\ sent'[q].answer # NoAnswer
         /\ sent'[q].kind = sent[q].kind /\ sent'[q].habit = sent[q].habit
         /\ sent'[q].day = sent[q].day /\ sent'[q].target = sent[q].target
         /\ \A p \in Slots \ {q} : sent'[p] = sent[p]
<1> DEFINE a == [day |-> sent[q].day, month |-> sent[q].month,
                 rows |-> rows, today |-> today]
<1>1. /\ sent[q] # Idle /\ sent[q] \in SentRequests
      /\ sent[q].day \in Days /\ sent[q].month \in Months /\ today \in Clock
  BY UnderWayType, RequestDays DEF Answer, UnderWay, IInv
<1>2. rows \in SUBSET Rows
  BY ListRowsType
<1>3. /\ sent'[q] = [sent[q] EXCEPT !.at = "answered", !.answer = a]
      /\ \A p \in Slots \ {q} : sent'[p] = sent[p]
  BY <1>1, RequestDays DEF Answer, DayAsked, IInv, TypeOK
<1>4. a \in Answers /\ a # NoAnswer
  BY <1>1, <1>2, TabNullAssumption DEF Answers
<1> HIDE DEF a
<1>5. ASSUME NEW r \in SentRequests, NEW n, n = [r EXCEPT !.at = "answered", !.answer = a]
      PROVE  /\ n \in SentRequests /\ n # Idle /\ n.at = "answered" /\ n.answer = a
             /\ n.kind = r.kind /\ n.habit = r.habit
             /\ n.day = r.day /\ n.target = r.target
  <2>1. n \in SentRequests
    BY <1>4, <1>5 DEF SentRequests
  <2>2. QED
    BY <1>5, <2>1, TabNullAssumption DEF SentRequests
<1>6. /\ sent'[q] # Idle /\ sent'[q].at = "answered" /\ sent'[q].answer = a
      /\ sent'[q].kind = sent[q].kind /\ sent'[q].habit = sent[q].habit
      /\ sent'[q].day = sent[q].day /\ sent'[q].target = sent[q].target
  BY <1>1, <1>3, <1>5
<1>7. QED
  BY <1>1, <1>3, <1>4, <1>6 DEF a

\* An answer is read after the write.
LEMMA AnswerRows ==
  ASSUME IInv, RowsOK, NEW q \in Slots, Answer(q)
  PROVE  RowsOK'
<1> SUFFICES ASSUME "rows" \notin doubt'
             PROVE  RestIsRight' /\ Apart' /\ \A p \in Slots : RowsOf(p)'
  BY DEF RowsOK
<1>0. PICK h, list :
        /\ h = sent[q].habit
        /\ list = IF sent[q].kind = "calendar" THEN {} ELSE ListRows(sent[q].day)
  OBVIOUS
<1> DEFINE a == [day |-> sent[q].day, month |-> sent[q].month,
                 rows |-> list, today |-> today]
<1>1. /\ sent[q] # Idle /\ UNCHANGED <<born, ended, marks, page, doubt>>
      /\ sent[q].at = (IF sent[q].kind \in {"day", "calendar"} THEN "sent" ELSE "written")
  BY DEF Answer, UnderWay
<1>2. RestIsRight /\ Apart /\ \A p \in Slots : RowsOf(p)
  BY <1>1, RowsFacts
<1>3. /\ a.day = sent[q].day
      /\ sent[q].kind # "calendar" => a.rows = ListRows(sent[q].day)
  BY <1>0
<1>4. /\ sent'[q] # Idle /\ sent'[q].at = "answered" /\ sent'[q].answer = a
      /\ sent'[q].kind = sent[q].kind /\ sent'[q].habit = h
      /\ sent'[q].day = sent[q].day /\ sent'[q].target = sent[q].target
      /\ \A p \in Slots \ {q} : sent'[p] = sent[p]
      /\ sent[q].kind \in Kinds /\ a # NoAnswer
  <2>1. sent'[q].answer = a /\ sent'[q].answer # NoAnswer
    BY <1>0, AnswerFields
  <2>2. sent'[q] # Idle /\ sent'[q].at = "answered" /\ sent'[q].kind = sent[q].kind
    BY <1>0, AnswerFields
  <2>3. sent'[q].habit = sent[q].habit /\ sent'[q].day = sent[q].day
    BY <1>0, AnswerFields
  <2>4. /\ sent'[q].target = sent[q].target
        /\ \A p \in Slots \ {q} : sent'[p] = sent[p]
    BY <1>0, AnswerFields
  <2>5. sent[q].kind \in Kinds
    BY <1>1, UnderWayType DEF IInv
  <2> HIDE DEF a
  <2>6. QED
    BY <1>0, <2>1, <2>2, <2>3, <2>4, <2>5
<1> HIDE DEF a
<1>5. RestIsRight' /\ Apart'
  <2>1. \A g \in HabitIds : Settled(g) => Settled(g)'
    BY <1>1, SettledKept
  <2>2. ASSUME NEW p \in Slots
        PROVE  /\ sent'[p] = Idle <=> sent[p] = Idle
               /\ sent'[p] # Idle =>
                    sent'[p].kind = sent[p].kind /\ sent'[p].habit = sent[p].habit
    <3>1. CASE p = q
      BY <1>0, <1>1, <1>4, <3>1
    <3>2. CASE p # q
      BY <1>4, <3>2
    <3>3. QED
      BY <3>1, <3>2
  <2>3. RestIsRight'
    BY <1>2, <2>1, <2>2 DEF RestIsRight
  <2>4. Apart'
    BY <1>2, <2>2 DEF Apart
  <2>5. QED
    BY <2>3, <2>4
<1>6. ASSUME NEW p \in Slots PROVE RowsOf(p)'
  <2>1. CASE p = q
    <3>1. PICK rows, d : rows = a.rows /\ d = sent[q].day
      OBVIOUS
    <3>2. sent[q].kind # "calendar" => \A g \in HabitIds : Right(rows, g, d)'
      <4>1. sent[q].kind # "calendar" => \A g \in HabitIds : Right(rows, g, d)
        BY <1>3, <3>1, ListIsRight
      <4>2. QED
        BY <1>1, <4>1 DEF Right
    <3>3. RowsOf(q) /\ (Before(sent[q]) <=> sent[q].kind \in {"day", "calendar"})
      BY <1>1, <1>2 DEF Before, Between
    <3>4. /\ Before(sent[q])' <=> Before(sent[q])
          /\ \A g \in HabitIds : Settled(g) => Settled(g)'
      BY <1>1, <1>4, <3>3, SettledKept DEF Before, Between
    <3>5. /\ sent'[q].answer.rows = rows /\ sent'[q].answer.day = d
          /\ sent[q].kind = "toggle" => d = page'.day /\ h \in HabitIds
      BY <1>0, <1>1, <1>3, <1>4, <3>1, <3>3 DEF RowsOf
    <3>6. sent'[q].answer # NoAnswer =>
            /\ sent'[q].kind \in {"day", "create"} =>
                 \A g \in HabitIds :
                   Right(sent[q].answer.rows, g, sent[q].answer.day)'
            /\ sent'[q].kind = "toggle" =>
                 Right(sent[q].answer.rows, sent[q].habit, page.day)'
      BY <1>4, <3>2, <3>5 DEF Right
    <3>7. QED
      <4>1. \A g \in HabitIds :
              Before(sent[q])' /\ (sent'[q].kind = "toggle" => g = sent'[q].habit) => Settled(g)'
        BY <1>0, <1>1, <1>4, <3>3, <3>4 DEF RowsOf
      <4>2. ~Before(sent[q])' /\ sent'[q].kind = "toggle" =>
              Listed(born'[sent'[q].habit], ended'[sent'[q].habit], page'.day)
        BY <1>0, <1>1, <1>4, <3>3, <3>4 DEF RowsOf
      <4>3. ~Before(sent[q])' /\ sent'[q].kind = "delete" =>
              /\ ~Listed(born'[sent'[q].habit], ended'[sent'[q].habit], page'.day)
              /\ \A g \in HabitIds \ {sent'[q].habit} : Settled(g)'
        BY <1>0, <1>1, <1>4, <3>3, <3>4 DEF RowsOf
      <4>4. QED
        BY <1>0, <1>1, <1>4, <2>1, <3>3, <3>6, <4>1, <4>2, <4>3 DEF RowsOf, Between
  <2>2. CASE p # q
    <3>1. sent'[p] = sent[p] /\ RowsOf(p)
      BY <1>2, <1>4, <2>2
    <3>2. \A g \in HabitIds : Settled(g) => Settled(g)'
      BY <1>1, SettledKept
    <3>3. QED
      BY <1>1, <3>1, <3>2 DEF RowsOf, Before, Right
  <2>3. QED
    BY <2>1, <2>2
<1>7. QED
  BY <1>5, <1>6

\* A request ends, and the rows that only it could change are right.
LEMMA EndRows ==
  ASSUME IInv, RowsOK, "rows" \notin doubt, NEW q \in Slots, sent[q] # Idle,
         NEW gone, gone \subseteq UnderWay, End(q, gone),
         UNCHANGED <<born, ended, marks>>,
         NEW h, sent[q].habit = h,
         sent[q].kind # "toggle" => \A g \in HabitIds : Settled(g)',
         sent[q].kind = "toggle" =>
           /\ page'.day = page.day
           /\ Settled(h)'
           /\ \A g \in HabitIds \ {h} : OfHabit(page'.rows, g) = OfHabit(page.rows, g)
           /\ \A p \in gone : sent[p].habit = h
  PROVE  RowsOK'
<1>1. RestIsRight /\ Apart /\ \A p \in Slots : RowsOf(p)
  BY RowsFacts
<1>2. \A p \in Slots \ {q} : p \notin gone
  BY <1>1 DEF Apart, UnderWay
<1>3. sent'[q] = Idle /\ \A p \in Slots \ {q} : sent'[p] = sent[p]
  <2>1. sent' = [p \in Slots |->
          CASE p = q -> Idle
            [] p # q /\ p \in gone /\ sent[p].target = "shown" ->
                 [sent[p] EXCEPT !.target = "swapped out"]
            [] OTHER -> sent[p]]
    BY DEF End
  <2>2. QED
    BY <1>2, <2>1
<1>4. CASE sent[q].kind # "toggle"
  BY <1>1, <1>3, <1>4, Alone, AllIdle
<1>5. CASE sent[q].kind = "toggle"
  <2>1. \A g \in HabitIds \ {h} : Settled(g) => Settled(g)'
    BY <1>5 DEF Settled, Right
  <2>2. RestIsRight'
    <3>1. SUFFICES ASSUME NEW g \in HabitIds \ {h},
                          \A p \in Slots : sent'[p] # Idle =>
                            sent'[p].kind = "toggle" /\ sent'[p].habit # g
                   PROVE  Settled(g)'
      BY <1>5 DEF RestIsRight
    <3>2. \A p \in Slots : sent[p] # Idle => sent[p].kind = "toggle" /\ sent[p].habit # g
      BY <1>3, <1>5, <3>1
    <3>3. QED
      BY <1>1, <2>1, <3>2 DEF RestIsRight
  <2>3. Apart'
    BY <1>1, <1>3 DEF Apart
  <2>4. ASSUME NEW p \in Slots PROVE RowsOf(p)'
    <3>1. CASE p = q
      BY <1>3, <3>1 DEF RowsOf
    <3>2. CASE p # q
      <4>1. sent'[p] = sent[p] /\ RowsOf(p)
        BY <1>1, <1>3, <3>2
      <4>2. sent[p] # Idle => sent[p].kind = "toggle" /\ sent[p].habit # h
        BY <1>1, <3>2 DEF Apart
      <4>3. QED
        BY <1>5, <2>1, <4>1, <4>2 DEF RowsOf, Before, Right
    <3>3. QED
      BY <3>1, <3>2
  <2>5. QED
    BY <2>2, <2>3, <2>4 DEF RowsOK
<1>6. QED
  BY <1>4, <1>5

\* The fields of the page that a swap sets.
LEMMA PageSwapped ==
  ASSUME IInv, NEW rows, NEW banner,
         page' = [page EXCEPT !.rows = rows, !.banner = banner]
  PROVE  page'.rows = rows /\ page'.day = page.day
<1>1. page \in Pages
  BY DEF IInv, TypeOK
<1>2. QED
  BY <1>1 DEF Pages

\* An answer puts in place what is right.
LEMMA ReceiveRows ==
  ASSUME IInv, RowsOK, NEW q \in Slots, Receive(q)
  PROVE  RowsOK'
<1> SUFFICES ASSUME "rows" \notin doubt' PROVE RowsOK'
  BY DEF RowsOK
<1>1. /\ sent[q] # Idle /\ sent[q].at = "answered"
      /\ UNCHANGED <<today, born, ended, marks, doubt>>
  BY DEF Receive, UnderWay
<1>2. RowsOf(q)
  BY <1>1, RowsFacts
<1>3. sent[q].target = "shown"
  BY <1>1, <1>2 DEF RowsOf
<1>4. PICK h, rows, day :
        /\ h = sent[q].habit
        /\ rows = sent[q].answer.rows
        /\ day = sent[q].answer.day
  OBVIOUS
<1>5. sent[q].kind \in {"toggle", "delete"} => h \in HabitIds /\ h # NoHabit
  BY <1>1, <1>2, <1>4, TabAssumption DEF RowsOf
<1>6. \A g \in HabitIds :
        Settled(g) /\ page'.rows = page.rows /\ page'.day = page.day => Settled(g)'
  BY <1>1, SettledKept
<1>7. CASE ReceiveDay(q) /\ sent[q].answer # NoAnswer
  <2> DEFINE gone == OfKind({"calendar", "toggle", "delete", "create"})
  <2>1. page'.rows = rows /\ page'.day = day /\ End(q, gone) /\ sent[q].kind = "day"
    BY <1>4, <1>7 DEF ReceiveDay
  <2>2. \A g \in HabitIds : Right(rows, g, day)
    BY <1>1, <1>2, <1>4, <1>7, <2>1 DEF RowsOf
  <2>3. \A g \in HabitIds : Settled(g)'
    BY <1>1, <2>1, <2>2 DEF Settled, Right
  <2>4. gone \subseteq UnderWay
    BY DEF OfKind
  <2>5. QED
    BY <1>1, <1>4, <2>1, <2>3, <2>4, EndRows
<1>8. CASE ReceiveCalendar(q) /\ sent[q].answer # NoAnswer
  <2> DEFINE gone == OfKind({"calendar"})
  <2>1. /\ page'.rows = page.rows /\ page'.day = page.day
        /\ End(q, gone) /\ sent[q].kind = "calendar"
    <3>1. page \in Pages
      BY DEF IInv, TypeOK
    <3>2. QED
      BY <1>8, <3>1 DEF ReceiveCalendar, Pages
  <2>2. \A g \in HabitIds : Settled(g)'
    BY <1>1, <1>2, <1>6, <2>1 DEF RowsOf, Before
  <2>3. gone \subseteq UnderWay
    BY DEF OfKind
  <2>4. QED
    BY <1>1, <1>4, <2>1, <2>2, <2>3, EndRows
<1>9. CASE ReceiveToggle(q) /\ sent[q].answer # NoAnswer
  <2>1. /\ page'.rows = SwapRow(h, rows) /\ page'.day = page.day
        /\ End(q, OfRow(h)) /\ sent[q].kind = "toggle"
    BY <1>3, <1>4, <1>9, PageSwapped DEF ReceiveToggle
  <2>2. /\ Right(rows, h, page.day)
        /\ Listed(born[h], ended[h], page.day)
    BY <1>1, <1>2, <1>4, <1>9, <2>1 DEF RowsOf, Before
  <2>3. OfHabit(rows, h) # {}
    BY <2>2 DEF Right
  <2>4. SwapRow(h, rows) = RowsWithout(h) \cup OfHabit(rows, h)
    BY <2>3 DEF SwapRow, OfHabit
  <2>5. OfHabit(SwapRow(h, rows), h) = OfHabit(rows, h)
    BY <2>4 DEF OfHabit, RowsWithout
  <2>6. Settled(h)'
    BY <1>1, <2>1, <2>2, <2>5 DEF Settled, Right
  <2>7. \A g \in HabitIds \ {h} : OfHabit(page'.rows, g) = OfHabit(page.rows, g)
    BY <2>1, <2>4 DEF OfHabit, RowsWithout
  <2>8. OfRow(h) \subseteq UnderWay /\ \A p \in OfRow(h) : sent[p].habit = h
    BY DEF OfRow, OfKind
  <2>9. QED
    BY <1>1, <1>4, <2>1, <2>6, <2>7, <2>8, EndRows
<1>10. CASE ReceiveDelete(q) /\ sent[q].answer # NoAnswer
  <2>1. /\ page'.rows = RowsWithout(h) /\ page'.day = page.day
        /\ End(q, OfRow(h)) /\ sent[q].kind = "delete"
    BY <1>3, <1>4, <1>10, PageSwapped DEF ReceiveDelete
  <2>2. /\ ~Listed(born[h], ended[h], page.day)
        /\ \A g \in HabitIds \ {h} : Settled(g)
    BY <1>1, <1>2, <1>4, <1>10, <2>1 DEF RowsOf, Before
  <2>3. /\ OfHabit(page'.rows, h) = {}
        /\ \A g \in HabitIds \ {h} : OfHabit(page'.rows, g) = OfHabit(page.rows, g)
    BY <2>1 DEF OfHabit, RowsWithout
  <2>4. \A g \in HabitIds : Settled(g)'
    BY <1>1, <2>1, <2>2, <2>3 DEF Settled, Right
  <2>5. OfRow(h) \subseteq UnderWay
    BY DEF OfRow, OfKind
  <2>6. QED
    BY <1>1, <1>4, <2>1, <2>4, <2>5, EndRows
<1>11. CASE ReceiveCreate(q) /\ sent[q].answer # NoAnswer
  <2> DEFINE gone == OfKind({"toggle", "delete", "create"})
  <2>1. /\ page'.rows = rows /\ page'.day = page.day
        /\ End(q, gone) /\ sent[q].kind = "create"
    BY <1>4, <1>11, PageSwapped DEF ReceiveCreate
  <2>2. day = page.day
    BY <1>1, <1>2, <1>4, <1>11, <2>1, AnswerType DEF RowsOf
  <2>3. \A g \in HabitIds : Right(rows, g, day)
    BY <1>1, <1>2, <1>4, <1>11, <2>1 DEF RowsOf
  <2>4. \A g \in HabitIds : Settled(g)'
    BY <1>1, <2>1, <2>2, <2>3 DEF Settled, Right
  <2>5. gone \subseteq UnderWay
    BY DEF OfKind
  <2>6. QED
    BY <1>1, <1>4, <2>1, <2>4, <2>5, EndRows
<1>12. CASE Discard(q)
  <2>1. End(q, {}) /\ UNCHANGED page /\ (sent[q].answer = NoAnswer)
    BY <1>3, <1>12 DEF Discard
  <2>2. Before(sent[q])
    BY <1>1, <2>1 DEF Before
  <2>3. \A g \in HabitIds : (sent[q].kind = "toggle" => g = h) => Settled(g)'
    BY <1>1, <1>2, <1>4, <1>6, <2>1, <2>2 DEF RowsOf
  <2>4. QED
    BY <1>1, <1>4, <1>5, <2>1, <2>3, EndRows
<1>13. QED
  BY <1>7, <1>8, <1>9, <1>10, <1>11, <1>12 DEF Receive

\* A link or an arrow that is lost.
LEMMA LoseRows ==
  ASSUME IInv, RowsOK, NEW q \in Slots, Lose(q)
  PROVE  RowsOK'
<1> SUFFICES ASSUME "rows" \notin doubt' PROVE RowsOK'
  BY DEF RowsOK
<1>1. /\ sent[q] # Idle /\ End(q, {}) /\ UNCHANGED <<born, ended, marks, page>>
      /\ sent[q].kind \in {"day", "calendar"} /\ "rows" \notin doubt
  BY DEF Lose, UnderWay
<1>2. \A g \in HabitIds : Settled(g)
  BY <1>1, RowsFacts DEF RowsOf, Before
<1>3. \A g \in HabitIds : Settled(g)'
  BY <1>1, <1>2, SettledKept
<1>4. PICK h : sent[q].habit = h
  OBVIOUS
<1>5. QED
  BY <1>1, <1>3, <1>4, EndRows

\* A page that is loaded shows the tables.
LEMMA LoadRows ==
  ASSUME IInv, RowsOK, NEW d \in Days \cup {NoDay}, Load(d)
  PROVE  RowsOK'
<1> SUFFICES ASSUME "rows" \notin doubt' PROVE RowsOK'
  BY DEF RowsOK
<1>1. UnderWay = {} /\ UNCHANGED <<born, ended, marks>>
  BY DEF Load
<1>2. \A p \in Slots : sent'[p] = Idle
  BY <1>1 DEF Load, UnderWay
<1>3. PICK day : day = IF d = NoDay THEN today ELSE Clamp(d)
  OBVIOUS
<1>4. page'.rows = ListRows(day) /\ page'.day = day
  BY <1>3 DEF Load, PageOf
<1>5. \A g \in HabitIds : Right(ListRows(day), g, day)
  BY ListIsRight
<1>6. \A g \in HabitIds : Settled(g)'
  <2>1. PICK rows : rows = ListRows(day)
    OBVIOUS
  <2>2. \A g \in HabitIds : Right(rows, g, day)
    BY <1>5, <2>1
  <2>3. QED
    BY <1>1, <1>4, <2>1, <2>2 DEF Settled, Right
<1>7. QED
  BY <1>2, <1>6, AllIdle

LEMMA InitRows ==
  ASSUME Init
  PROVE  RowsOK
<1>1. page.rows = ListRows(today) /\ page.day = today
  BY DEF Init, PageOf
<1>2. \A g \in HabitIds : Settled(g)
  BY <1>1, ListIsRight DEF Settled
<1>3. \A p \in Slots : sent[p] = Idle
  BY DEF Init
<1>4. QED
  BY <1>2, <1>3 DEF RowsOK, RestIsRight, Apart, RowsOf

LEMMA NextRows ==
  ASSUME IInv, RowsOK, [Next]_vars
  PROVE  RowsOK'
<1>1. CASE Midnight \/ UNCHANGED vars
  BY <1>1, RowsStutter DEF Midnight, vars
<1>2. CASE Home \/ Reload
  BY <1>2, LoadRows DEF Home, Reload, IInv, TypeOK
<1>3. ASSUME NEW q \in Slots,
             \/ ClickPrev(q) \/ ClickNext(q) \/ ClickCell(q)
             \/ ClickPrevMonth(q) \/ ClickNextMonth(q)
             \/ ClickRow(q) \/ ClickDelete(q) \/ SubmitForm(q)
      PROVE  RowsOK'
  BY <1>3, ClickRows
<1>4. ASSUME NEW p \in Slots, NEW q \in Slots, KeyOnDelete(p, q) PROVE RowsOK'
  BY <1>4 DEF KeyOnDelete, RowsOK
<1>5. ASSUME NEW q \in Slots, Write(q) PROVE RowsOK'
  BY <1>5, WriteRows
<1>6. ASSUME NEW q \in Slots, Answer(q) PROVE RowsOK'
  BY <1>6, AnswerRows
<1>7. ASSUME NEW q \in Slots, Receive(q) PROVE RowsOK'
  BY <1>7, ReceiveRows
<1>8. ASSUME NEW q \in Slots, Lose(q) PROVE RowsOK'
  BY <1>8, LoseRows
<1>9. QED
  BY <1>1, <1>2, <1>3, <1>4, <1>5, <1>6, <1>7, <1>8 DEF Next

\* However many toggles overlap and in whatever order they are answered, the
\* rows at rest are those of the tables (handler.go:297-311,
\* habits_templ.go:573-605).
THEOREM RowsAreAlwaysRight == Spec => []RowsAreRight
<1>1. ASSUME RowsOK PROVE RowsAreRight
  <2>1. SUFFICES ASSUME "rows" \notin doubt, NEW h \in HabitIds, ~Busy(h)
                 PROVE  OfHabit(page.rows, h) = OfHabit(ListRows(page.day), h)
    BY DEF RowsAreRight, OfHabit
  <2>2. Settled(h)
    BY <1>1, <2>1 DEF RowsOK, RestIsRight, Busy, UnderWay
  <2>3. QED
    BY <2>2, ListIsRight DEF Settled, Right
<1>2. Init => RowsOK
  BY InitRows
<1>3. IInv /\ RowsOK /\ [Next]_vars => RowsOK'
  BY NextRows
<1>4. QED
  BY <1>1, <1>2, <1>3, TabInvariant, PTL DEF Spec

-----------------------------------------------------------------------------
(* The banner.                                                             *)

AllMarked(rows) == rows # {} /\ \A row \in rows : row.marked

\* A banner that fits a list of this day.
Fits(banner, rows, day) ==
  /\ banner => AllMarked(rows)
  /\ AllMarked(rows) /\ day = today => banner

\* Every row has its habit.
Filled(rows) == \A row \in rows : row.habit \in HabitIds

\* The list of an answer is that of the tables.
Whole(q) ==
  sent[q] # Idle /\ sent[q].answer # NoAnswer /\ sent[q].kind # "calendar" =>
    /\ Filled(sent[q].answer.rows)
    /\ \A g \in HabitIds : Right(sent[q].answer.rows, g, sent[q].answer.day)

OneAtATime == \A p, q \in Slots : p # q => sent[p] = Idle \/ sent[q] = Idle

PageFits == Filled(page.rows) /\ Fits(page.banner, page.rows, page.day)

BannerOK == doubt = {} => OneAtATime /\ PageFits /\ \A q \in Slots : Whole(q)

\* Lists that show the same of every habit are the same.
LEMMA SameRows ==
  ASSUME NEW rows, NEW other, Filled(rows), Filled(other),
         \A g \in HabitIds : OfHabit(rows, g) = OfHabit(other, g)
  PROVE  rows = other
<1>1. ASSUME NEW row \in rows PROVE row \in other
  <2>1. row \in OfHabit(rows, row.habit) /\ row.habit \in HabitIds
    BY DEF OfHabit, Filled
  <2>2. QED
    BY <2>1 DEF OfHabit
<1>2. ASSUME NEW row \in other PROVE row \in rows
  <2>1. row \in OfHabit(other, row.habit) /\ row.habit \in HabitIds
    BY DEF OfHabit, Filled
  <2>2. QED
    BY <2>1 DEF OfHabit
<1>3. QED
  BY <1>1, <1>2

LEMMA ListFilled ==
  ASSUME NEW d PROVE Filled(ListRows(d))
<1> DEFINE row(g) == [habit |-> g, marked |-> d \in marks[g]]
<1>1. \A g : row(g).habit = g
  OBVIOUS
<1>2. ListRows(d) = {row(g) : g \in {g \in HabitIds : ListedOn(g, d)}}
  BY DEF ListRows
<1> HIDE DEF row
<1>3. QED
  BY <1>1, <1>2 DEF Filled

\* A banner rendered with a list that is not of the future fits it later too.
LEMMA BannerFits ==
  ASSUME NEW rows, NEW day \in Int, NEW time \in Int, today \in Int,
         day <= time, time <= today
  PROVE  Fits(Banner(rows, day, time), rows, day)
BY DEF Fits, Banner, AllMarked

\* The page is not touched, and no answer comes.
LEMMA SamePage ==
  ASSUME BannerOK, doubt' = {}, UNCHANGED <<today, page>>, doubt = {},
         OneAtATime', \A q \in Slots : Whole(q)'
  PROVE  BannerOK'
<1>1. PageFits'
  BY DEF BannerOK, PageFits, Filled, Fits
<1>2. QED
  BY <1>1 DEF BannerOK

\* A request that is sent.
LEMMA SendBanner ==
  ASSUME IInv, BannerOK, NEW q \in Slots, NEW r, r.answer = NoAnswer, Send(q, r)
  PROVE  BannerOK'
<1> SUFFICES ASSUME doubt' = {} PROVE BannerOK'
  BY DEF BannerOK
<1>1. /\ sent' = [sent EXCEPT ![q] = r] /\ UNCHANGED <<today, born, ended, marks, page>>
      /\ UnderWay = {} /\ doubt = {}
  BY DEF Send
<1>2. \A p \in Slots \ {q} : sent'[p] = Idle
  BY <1>1 DEF UnderWay, IInv, TypeOK
<1>3. sent'[q] = r
  BY <1>1 DEF IInv, TypeOK
<1>4. OneAtATime' /\ \A p \in Slots : Whole(p)'
  BY <1>2, <1>3 DEF OneAtATime, Whole
<1>5. QED
  BY <1>1, <1>4, SamePage

LEMMA ClickBanner ==
  ASSUME IInv, BannerOK, NEW q \in Slots,
         \/ ClickPrev(q) \/ ClickNext(q) \/ ClickCell(q)
         \/ ClickPrevMonth(q) \/ ClickNextMonth(q)
         \/ ClickRow(q) \/ ClickDelete(q) \/ SubmitForm(q)
  PROVE  BannerOK'
<1>1. PICK kind, h, d, m : Send(q, Request(kind, h, d, m))
  BY DEF ClickPrev, ClickNext, ClickCell, ClickPrevMonth, ClickNextMonth,
         ClickRow, ClickDelete, SubmitForm, GoTo, GoToMonth
<1>2. QED
  BY <1>1, RequestFields, SendBanner

\* A write is not an answer yet, or is refused.
LEMMA WriteBanner ==
  ASSUME IInv, RowsOK, BannerOK, NEW q \in Slots, Write(q)
  PROVE  BannerOK'
<1> SUFFICES ASSUME doubt' = {} PROVE BannerOK'
  BY DEF BannerOK
<1>1. sent[q] # Idle /\ UNCHANGED <<today, page, doubt>> /\ doubt = {}
  BY DEF Write, UnderWay
<1>2. PICK at \in Stages : Advance(q, at)
  BY WriteAdvances
<1>3. sent[q].answer = NoAnswer
  BY <1>1, WriteFrom, RowsFacts DEF RowsOf, Between
<1>4. /\ sent'[q].answer = NoAnswer
      /\ \A p \in Slots \ {q} : sent'[p] = sent[p] /\ sent[p] = Idle
  BY <1>1, <1>2, <1>3, WriteFields DEF BannerOK, OneAtATime
<1>5. OneAtATime' /\ \A p \in Slots : Whole(p)'
  BY <1>4 DEF OneAtATime, Whole
<1>6. QED
  BY <1>1, <1>5, SamePage

\* The list of an answer is read from the tables.
LEMMA AnswerBanner ==
  ASSUME IInv, BannerOK, NEW q \in Slots, Answer(q)
  PROVE  BannerOK'
<1> SUFFICES ASSUME doubt' = {} PROVE BannerOK'
  BY DEF BannerOK
<1> DEFINE a == [day |-> DayAsked(q), month |-> MonthAsked(q),
                 rows |-> IF sent[q].kind = "calendar" THEN {} ELSE ListRows(DayAsked(q)),
                 today |-> today]
<1>1. /\ sent[q] # Idle /\ doubt = {}
      /\ UNCHANGED <<today, born, ended, marks, page, doubt>>
      /\ sent' = [sent EXCEPT ![q].at = "answered", ![q].answer = a]
  BY DEF Answer, UnderWay
<1>2. PICK d, rows : d = DayAsked(q) /\ rows = a.rows
  OBVIOUS
<1>3. /\ a.day = d /\ a.rows = rows
      /\ sent[q].kind # "calendar" => rows = ListRows(d)
  BY <1>2
<1> HIDE DEF a
<1>4. sent'[q].kind = sent[q].kind /\ sent'[q].answer = a
  <2>1. sent[q] \in SentRequests
    BY <1>1, UnderWayType DEF IInv
  <2>2. sent'[q] = [sent[q] EXCEPT !.at = "answered", !.answer = a]
    BY <1>1 DEF IInv, TypeOK
  <2>3. QED
    BY <2>1, <2>2 DEF SentRequests
<1>5. \A p \in Slots \ {q} : sent'[p] = sent[p] /\ sent[p] = Idle
  BY <1>1 DEF BannerOK, OneAtATime, IInv, TypeOK
<1>6. sent[q].kind # "calendar" =>
        Filled(rows) /\ \A g \in HabitIds : Right(rows, g, d)
  BY <1>3, ListIsRight, ListFilled
<1>7. Whole(q)'
  BY <1>1, <1>3, <1>4, <1>6 DEF Whole, Right, Filled
<1>8. OneAtATime' /\ \A p \in Slots : Whole(p)'
  BY <1>5, <1>7 DEF OneAtATime, Whole
<1>9. QED
  BY <1>1, <1>8, SamePage

\* What arrives is the list its banner was rendered with.
LEMMA ReceiveBanner ==
  ASSUME IInv, RowsOK, BannerOK, NEW q \in Slots, Receive(q)
  PROVE  BannerOK'
<1> SUFFICES ASSUME doubt' = {} PROVE BannerOK'
  BY DEF BannerOK
<1>1. /\ sent[q] # Idle /\ sent[q].at = "answered" /\ doubt = {}
      /\ UNCHANGED <<today, born, ended, marks, doubt>>
  BY DEF Receive, UnderWay
<1>2. RowsOf(q) /\ Whole(q) /\ PageFits
  BY <1>1, RowsFacts DEF BannerOK
<1>3. sent[q].target = "shown"
  BY <1>1, <1>2 DEF RowsOf
<1>4. \A p \in Slots : sent'[p] = Idle
  <2>1. PICK gone : gone \subseteq UnderWay /\ End(q, gone)
    BY <1>3 DEF Receive, ReceiveDay, ReceiveCalendar, ReceiveToggle, ReceiveDelete,
                ReceiveCreate, Discard, OfKind, OfRow
  <2>2. \A p \in Slots \ {q} : sent[p] = Idle /\ p \notin gone
    BY <1>1, <2>1 DEF BannerOK, OneAtATime, UnderWay
  <2>3. sent' = [p \in Slots |->
          CASE p = q -> Idle
            [] p # q /\ p \in gone /\ sent[p].target = "shown" ->
                 [sent[p] EXCEPT !.target = "swapped out"]
            [] OTHER -> sent[p]]
    BY <2>1 DEF End
  <2>4. QED
    BY <2>2, <2>3
<1>5. ASSUME PageFits' PROVE BannerOK'
  BY <1>4, <1>5 DEF BannerOK, OneAtATime, Whole
<1>6. \A g \in HabitIds : Settled(g)'
  BY <1>1, <1>4, ReceiveRows DEF RowsOK, RestIsRight
<1>7. CASE sent[q].answer = NoAnswer \/ ReceiveCalendar(q)
  <2>1. page'.rows = page.rows /\ page'.day = page.day /\ page'.banner = page.banner
    <3>1. page \in Pages
      BY DEF IInv, TypeOK
    <3>2. QED
      BY <1>7, <3>1 DEF Receive, Discard, ReceiveCalendar, Pages
  <2>2. QED
    BY <1>1, <1>2, <1>5, <2>1 DEF PageFits, Filled, Fits
<1>8. CASE /\ sent[q].answer # NoAnswer
           /\ ReceiveDay(q) \/ ReceiveToggle(q) \/ ReceiveDelete(q) \/ ReceiveCreate(q)
  <2>1. PICK h, rows, day, time :
          /\ h = sent[q].habit
          /\ rows = sent[q].answer.rows
          /\ day = sent[q].answer.day
          /\ time = sent[q].answer.today
    OBVIOUS
  <2>2. sent[q].kind \in {"day", "toggle", "delete", "create"}
    BY <1>8 DEF ReceiveDay, ReceiveToggle, ReceiveDelete, ReceiveCreate
  <2>3. /\ Filled(rows)
        /\ \A g \in HabitIds : Right(rows, g, day)
    BY <1>1, <1>2, <1>8, <2>1, <2>2 DEF Whole
  <2>4. /\ day = sent[q].day /\ day \in Int /\ time \in Int /\ today \in Int
        /\ day <= time /\ time <= today
    BY <1>1, <1>8, <2>1, AnswerType, DayType, ClockType DEF IInv, TypeOK
  <2>5. /\ page'.day = day /\ page'.banner = Banner(rows, day, time)
        /\ \/ page'.rows = rows
           \/ page'.rows = SwapRow(h, rows) /\ sent[q].kind = "toggle"
           \/ page'.rows = RowsWithout(h)
    <3>1. CASE ReceiveDay(q)
      BY <2>1, <3>1 DEF ReceiveDay
    <3>2. page \in Pages /\ (sent[q].kind # "day" => sent[q].day = page.day)
      BY <1>1, <1>2, <2>2 DEF IInv, TypeOK, RowsOf
    <3>3. ASSUME NEW list, NEW banner, sent[q].kind # "day",
                 page' = [page EXCEPT !.rows = list, !.banner = banner]
          PROVE  page'.day = day /\ page'.banner = banner /\ page'.rows = list
      BY <2>4, <3>2, <3>3 DEF Pages
    <3>4. CASE ReceiveToggle(q)
      BY <1>3, <2>1, <3>3, <3>4 DEF ReceiveToggle
    <3>5. CASE ReceiveDelete(q)
      BY <1>3, <2>1, <3>3, <3>5 DEF ReceiveDelete
    <3>6. CASE ReceiveCreate(q)
      BY <2>1, <3>3, <3>6 DEF ReceiveCreate
    <3>7. QED
      BY <1>8, <3>1, <3>4, <3>5, <3>6
  <2>6. Filled(page'.rows)
    <3>1. Filled(RowsWithout(h))
      BY <1>2 DEF PageFits, Filled, RowsWithout
    <3>2. CASE page'.rows = SwapRow(h, rows) /\ sent[q].kind = "toggle"
      <4>1. /\ Right(rows, h, page.day)
            /\ Listed(born[h], ended[h], page.day)
        BY <1>1, <1>2, <1>8, <2>1, <3>2 DEF RowsOf, Before
      <4>2. OfHabit(rows, h) # {}
        BY <4>1 DEF Right
      <4>3. SwapRow(h, rows) = RowsWithout(h) \cup OfHabit(rows, h)
        BY <4>2 DEF SwapRow, OfHabit
      <4>4. QED
        BY <2>3, <3>1, <3>2, <4>3 DEF Filled, OfHabit
    <3>3. QED
      BY <2>3, <2>5, <3>1, <3>2
  <2>7. page'.rows = rows
    <3>1. \A g \in HabitIds : OfHabit(page'.rows, g) = OfHabit(rows, g)
      BY <1>1, <1>6, <2>3, <2>5 DEF Settled, Right
    <3>2. PICK list : list = page'.rows
      OBVIOUS
    <3>3. QED
      BY <2>3, <2>6, <3>1, <3>2, SameRows
  <2>8. Fits(Banner(rows, day, time), rows, day)
    BY <2>4, BannerFits
  <2>9. PageFits'
    BY <1>1, <2>5, <2>6, <2>7, <2>8 DEF PageFits, Fits, Filled
  <2>10. QED
    BY <1>5, <2>9
<1>9. Discard(q) => sent[q].answer = NoAnswer
  BY <1>3 DEF Discard
<1>10. QED
  BY <1>7, <1>8, <1>9 DEF Receive

\* A request that changes nothing is lost.
LEMMA LoseBanner ==
  ASSUME IInv, BannerOK, NEW q \in Slots, Lose(q)
  PROVE  BannerOK'
<1> SUFFICES ASSUME doubt' = {} PROVE BannerOK'
  BY DEF BannerOK
<1>1. /\ sent[q] # Idle /\ End(q, {}) /\ doubt = {}
      /\ UNCHANGED <<today, born, ended, marks, page>>
  BY DEF Lose, UnderWay
<1>2. \A p \in Slots : sent'[p] = Idle
  BY <1>1 DEF End, BannerOK, OneAtATime
<1>3. QED
  BY <1>1, <1>2, SamePage DEF OneAtATime, Whole

\* A page rendered now.
LEMMA LoadedFits ==
  ASSUME NEW d \in Int, today \in Int, d <= today
  PROVE  /\ PageOf(d).rows = ListRows(d) /\ PageOf(d).day = d
         /\ Filled(PageOf(d).rows)
         /\ Fits(PageOf(d).banner, PageOf(d).rows, PageOf(d).day)
<1>1. /\ PageOf(d).rows = ListRows(d) /\ PageOf(d).day = d
      /\ PageOf(d).banner = Banner(ListRows(d), d, today)
  BY DEF PageOf
<1>2. QED
  BY <1>1, ListFilled, BannerFits

LEMMA LoadBanner ==
  ASSUME IInv, BannerOK, NEW d \in Days \cup {NoDay}, Load(d)
  PROVE  BannerOK'
<1> SUFFICES ASSUME doubt' = {} PROVE BannerOK'
  BY DEF BannerOK
<1>1. UnderWay = {} /\ UNCHANGED today
  BY DEF Load
<1>2. \A p \in Slots : sent'[p] = Idle
  BY <1>1 DEF Load, UnderWay
<1>3. PICK day : day = IF d = NoDay THEN today ELSE Clamp(d)
  OBVIOUS
<1>4. page' = PageOf(day)
  BY <1>3 DEF Load
<1>5. day \in Int /\ day <= today /\ today \in Int
  BY <1>3, ClockType, DayType DEF IInv, TypeOK, Clamp
<1>6. PageFits'
  <2>1. Filled(page'.rows) /\ Fits(page'.banner, page'.rows, page'.day)
    BY <1>4, <1>5, LoadedFits
  <2>2. QED
    BY <1>1, <2>1 DEF PageFits, Filled, Fits
<1>7. QED
  BY <1>2, <1>6 DEF BannerOK, OneAtATime, Whole

\* At midnight the page becomes one of yesterday.
LEMMA MidnightBanner ==
  ASSUME IInv, BannerOK, Midnight
  PROVE  BannerOK'
<1>1. /\ today' \in Clock /\ today < today'
      /\ UNCHANGED <<born, ended, marks, page, sent, doubt>>
  BY DEF Midnight
<1>2. page.day # today'
  BY <1>1, PageDays, ClockType
<1>3. PageFits => PageFits'
  BY <1>1, <1>2 DEF PageFits, Fits, Filled
<1>4. ASSUME NEW q \in Slots, Whole(q) PROVE Whole(q)'
  BY <1>1, <1>4 DEF Whole, Filled, Right
<1>5. QED
  BY <1>1, <1>3, <1>4 DEF BannerOK, OneAtATime

LEMMA NextBanner ==
  ASSUME IInv, RowsOK, BannerOK, [Next]_vars
  PROVE  BannerOK'
<1>1. CASE Midnight
  BY <1>1, MidnightBanner
<1>2. CASE UNCHANGED vars
  <2>1. UNCHANGED <<today, born, ended, marks, page, sent, doubt>>
    BY <1>2 DEF vars
  <2>2. ASSUME NEW q \in Slots, Whole(q) PROVE Whole(q)'
    BY <2>1, <2>2 DEF Whole, Filled, Right
  <2>3. QED
    BY <2>1, <2>2 DEF BannerOK, OneAtATime, PageFits, Filled, Fits
<1>3. CASE Home \/ Reload
  BY <1>3, LoadBanner DEF Home, Reload, IInv, TypeOK
<1>4. ASSUME NEW q \in Slots,
             \/ ClickPrev(q) \/ ClickNext(q) \/ ClickCell(q)
             \/ ClickPrevMonth(q) \/ ClickNextMonth(q)
             \/ ClickRow(q) \/ ClickDelete(q) \/ SubmitForm(q)
      PROVE  BannerOK'
  BY <1>4, ClickBanner
<1>5. ASSUME NEW p \in Slots, NEW q \in Slots, KeyOnDelete(p, q) PROVE BannerOK'
  BY <1>5 DEF KeyOnDelete, BannerOK
<1>6. ASSUME NEW q \in Slots, Write(q) PROVE BannerOK'
  BY <1>6, WriteBanner
<1>7. ASSUME NEW q \in Slots, Answer(q) PROVE BannerOK'
  BY <1>7, AnswerBanner
<1>8. ASSUME NEW q \in Slots, Receive(q) PROVE BannerOK'
  BY <1>8, ReceiveBanner
<1>9. ASSUME NEW q \in Slots, Lose(q) PROVE BannerOK'
  BY <1>9, LoseBanner
<1>10. QED
  BY <1>1, <1>2, <1>3, <1>4, <1>5, <1>6, <1>7, <1>8, <1>9 DEF Next

\* While requests do not overlap the banner is that of the rows, whichever
\* of them a request replaced (habits_templ.go:534-634).
THEOREM BannerIsAlwaysRight == Spec => []BannerIsRight
<1>1. ASSUME BannerOK PROVE BannerIsRight
  BY <1>1 DEF BannerOK, BannerIsRight, PageFits, Fits, AllMarked
<1>2. ASSUME Init PROVE BannerOK
  <2>1. today \in Int /\ page = PageOf(today) /\ \A q \in Slots : sent[q] = Idle
    BY <1>2, ClockType DEF Init
  <2>2. PageFits
    BY <2>1, LoadedFits DEF PageFits
  <2>3. QED
    BY <2>1, <2>2 DEF BannerOK, OneAtATime, Whole
<1>3. Init => RowsOK
  BY InitRows
<1>4. IInv /\ RowsOK /\ [Next]_vars => RowsOK'
  BY NextRows
<1>5. IInv /\ RowsOK /\ BannerOK /\ [Next]_vars => BannerOK'
  BY NextBanner
<1>6. QED
  BY <1>1, <1>2, <1>3, <1>4, <1>5, TabInvariant, PTL DEF Spec

-----------------------------------------------------------------------------
(* The ledger.                                                             *)

Born == {h \in HabitIds : born[h] # NoDay}

\* Rows of these habits, or of none.
HabitsIn(rows, some) == \A row \in rows : row.habit \in some \cup {NoHabit}

\* A request that is for one of these habits if it is for any, and answered
\* with them.
Asks(r, some) ==
  r # Idle =>
    /\ r.kind \in {"toggle", "delete"} => r.habit \in some
    /\ r.answer # NoAnswer => HabitsIn(r.answer.rows, some)

\* Nothing that is deleted, shown, asked for or on its way was never created.
KnownOK ==
  /\ \A h \in HabitIds : ended[h] # NoDay => h \in Born
  /\ HabitsIn(page.rows, Born)
  /\ \A q \in Slots : Asks(sent[q], Born)

LEMMA AsksMore ==
  ASSUME NEW r, NEW some, NEW more, some \subseteq more, Asks(r, some)
  PROVE  Asks(r, more)
BY DEF Asks, HabitsIn

\* The list has habits that were created.
LEMMA ListKnown == ASSUME NEW d PROVE HabitsIn(ListRows(d), Born)
<1> DEFINE row(g) == [habit |-> g, marked |-> d \in marks[g]]
<1>1. \A g : row(g).habit = g
  OBVIOUS
<1>2. ListRows(d) = {row(g) : g \in {g \in HabitIds : ListedOn(g, d)}}
  BY DEF ListRows
<1> HIDE DEF row
<1>3. QED
  BY <1>1, <1>2 DEF HabitsIn, ListedOn, Born

LEMMA ShownKnown == ASSUME KnownOK, NEW h \in Shown PROVE h \in Born
BY DEF Shown, KnownOK, HabitsIn

\* Nothing is forgotten, and what is under way is kept or is known.
LEMMA KnownStays ==
  ASSUME KnownOK, Born \subseteq Born', UNCHANGED <<ended, page>>,
         \A q \in Slots : sent'[q] = sent[q] \/ Asks(sent'[q], Born')
  PROVE  KnownOK'
<1>1. HabitsIn(page'.rows, Born')
  BY DEF KnownOK, HabitsIn
<1>2. ASSUME NEW q \in Slots PROVE Asks(sent'[q], Born')
  BY AsksMore DEF KnownOK
<1>3. \A h \in HabitIds : ended'[h] # NoDay => h \in Born'
  BY DEF KnownOK
<1>4. QED
  BY <1>1, <1>2, <1>3 DEF KnownOK

LEMMA SendKnown ==
  ASSUME IInv, KnownOK, NEW q \in Slots, NEW r, Send(q, r),
         r.answer = NoAnswer, r.kind \in {"toggle", "delete"} => r.habit \in Born
  PROVE  KnownOK'
<1>1. sent' = [sent EXCEPT ![q] = r] /\ UNCHANGED <<born, ended, page>>
  BY DEF Send
<1>2. Born' = Born
  BY <1>1 DEF Born
<1>3. ASSUME NEW p \in Slots PROVE sent'[p] = sent[p] \/ Asks(sent'[p], Born')
  BY <1>1, <1>2 DEF Asks, IInv, TypeOK
<1>4. QED
  BY <1>1, <1>2, <1>3, KnownStays

LEMMA ClickKnown ==
  ASSUME IInv, KnownOK, NEW q \in Slots,
         \/ ClickPrev(q) \/ ClickNext(q) \/ ClickCell(q)
         \/ ClickPrevMonth(q) \/ ClickNextMonth(q)
         \/ ClickRow(q) \/ ClickDelete(q) \/ SubmitForm(q)
  PROVE  KnownOK'
<1>1. CASE \/ ClickPrev(q) \/ ClickNext(q) \/ ClickCell(q)
           \/ ClickPrevMonth(q) \/ ClickNextMonth(q) \/ SubmitForm(q)
  <2>1. PICK kind, h, d, m :
          kind \in {"day", "calendar", "create"} /\ Send(q, Request(kind, h, d, m))
    BY <1>1 DEF ClickPrev, ClickNext, ClickCell, ClickPrevMonth, ClickNextMonth,
                SubmitForm, GoTo, GoToMonth
  <2>2. QED
    BY <2>1, RequestFields, SendKnown
<1>2. CASE ClickRow(q) \/ ClickDelete(q)
  <2>1. PICK kind, h, d, m : h \in Shown /\ Send(q, Request(kind, h, d, m))
    BY <1>2 DEF ClickRow, ClickDelete
  <2>2. Request(kind, h, d, m).habit = h
    BY DEF Request
  <2>3. QED
    BY <2>1, <2>2, RequestFields, ShownKnown, SendKnown
<1>3. QED
  BY <1>1, <1>2

LEMMA KeyKnown ==
  ASSUME IInv, KnownOK, NEW p \in Slots, NEW q \in Slots, KeyOnDelete(p, q)
  PROVE  KnownOK'
<1>1. PICK h, d, m :
        /\ h \in Shown
        /\ sent' = [sent EXCEPT ![p] = Request("toggle", h, d, m),
                                ![q] = Request("delete", h, d, m)]
  BY DEF KeyOnDelete
<1>2. UNCHANGED <<born, ended, page>>
  BY DEF KeyOnDelete
<1>3. Born' = Born
  BY <1>2 DEF Born
<1>4. ASSUME NEW kind PROVE Asks(Request(kind, h, d, m), Born)
  BY <1>1, ShownKnown DEF Request, Asks
<1>5. ASSUME NEW r \in Slots PROVE sent'[r] = sent[r] \/ Asks(sent'[r], Born')
  BY <1>1, <1>3, <1>4 DEF IInv, TypeOK
<1>6. QED
  BY <1>2, <1>3, <1>5, KnownStays

LEMMA WriteKnown ==
  ASSUME IInv, KnownOK, NEW q \in Slots, Write(q)
  PROVE  KnownOK'
<1>1. sent[q] # Idle /\ UNCHANGED page
  BY DEF Write, UnderWay
<1>2. PICK at \in Stages : Advance(q, at)
  BY WriteAdvances
<1>3. Born \subseteq Born'
  BY ClockType, DayType, ToggleTables DEF Write, Insert, SoftDelete, Born, IInv, TypeOK
<1>4. \A h \in HabitIds : ended'[h] # NoDay => h \in Born'
  <2>1. CASE SoftDelete(q)
    <3>1. sent[q].habit \in Born
      BY <1>1, <2>1 DEF SoftDelete, KnownOK, Asks
    <3>2. \A h \in HabitIds : h = sent[q].habit \/ ended'[h] = ended[h]
      BY <2>1 DEF SoftDelete, IInv, TypeOK
    <3>3. QED
      BY <1>3, <3>1, <3>2 DEF KnownOK
  <2>2. CASE ended' = ended
    BY <1>3, <2>2 DEF KnownOK
  <2>3. QED
    BY <2>1, <2>2, ToggleTables DEF Write, Insert
<1>5. ASSUME NEW p \in Slots PROVE Asks(sent'[p], Born')
  <2>1. Asks(sent'[p], Born)
    BY <1>1, <1>2, WriteFields DEF KnownOK, Asks
  <2>2. QED
    BY <1>3, <2>1, AsksMore
<1>6. HabitsIn(page'.rows, Born')
  BY <1>1, <1>3 DEF KnownOK, HabitsIn
<1>7. QED
  BY <1>4, <1>5, <1>6 DEF KnownOK

LEMMA AnswerKnown ==
  ASSUME IInv, KnownOK, NEW q \in Slots, Answer(q)
  PROVE  KnownOK'
<1>1. UNCHANGED <<born, ended, page>>
  BY DEF Answer
<1>2. Born' = Born
  BY <1>1 DEF Born
<1>3. PICK rows :
        rows = IF sent[q].kind = "calendar" THEN {} ELSE ListRows(sent[q].day)
  OBVIOUS
<1>4. /\ sent'[q].answer.rows = rows /\ sent[q] # Idle
      /\ sent'[q].kind = sent[q].kind /\ sent'[q].habit = sent[q].habit
      /\ \A p \in Slots \ {q} : sent'[p] = sent[p]
  <2>1. sent[q] # Idle /\ sent'[q].kind = sent[q].kind /\ sent'[q].habit = sent[q].habit
    BY <1>3, AnswerFields
  <2>2. \A p \in Slots \ {q} : sent'[p] = sent[p]
    BY <1>3, AnswerFields
  <2>3. sent'[q].answer = [day |-> sent[q].day, month |-> sent[q].month,
                          rows |-> rows, today |-> today]
    BY <1>3, AnswerFields
  <2>4. QED
    BY <2>1, <2>2, <2>3
<1>5. HabitsIn(rows, Born)
  BY <1>3, ListKnown DEF HabitsIn
<1>6. Asks(sent'[q], Born')
  BY <1>2, <1>4, <1>5 DEF KnownOK, Asks
<1>7. QED
  BY <1>1, <1>2, <1>4, <1>6, KnownStays

LEMMA KeptKnown ==
  ASSUME NEW p \in Slots, NEW gone, Kept(p, gone), NEW some, Asks(sent[p], some)
  PROVE  Asks(sent'[p], some)
BY DEF Kept, Asks

LEMMA LoadKnown ==
  ASSUME IInv, KnownOK, NEW d, Load(d)
  PROVE  KnownOK'
<1>1. UNCHANGED <<born, ended>> /\ \A p \in Slots : Kept(p, Slots)
  BY LoadKeeps DEF Load, IInv
<1>2. Born' = Born
  BY <1>1 DEF Born
<1>3. PICK day : page' = PageOf(day)
  BY DEF Load
<1>4. HabitsIn(page'.rows, Born')
  BY <1>2, <1>3, ListKnown DEF PageOf
<1>5. \A p \in Slots : Asks(sent'[p], Born')
  BY <1>1, <1>2, KeptKnown DEF KnownOK
<1>6. \A h \in HabitIds : ended'[h] # NoDay => h \in Born'
  BY <1>1, <1>2 DEF KnownOK
<1>7. QED
  BY <1>4, <1>5, <1>6 DEF KnownOK

\* What an answer puts on the page was on it, or is in the answer.
LEMMA ReceiveKnown ==
  ASSUME IInv, KnownOK, NEW q \in Slots, Receive(q)
  PROVE  KnownOK'
<1>1. sent[q] # Idle /\ UNCHANGED <<born, ended>>
  BY DEF Receive, UnderWay
<1>2. Born' = Born
  BY <1>1 DEF Born
<1>3. \A p \in Slots : Asks(sent'[p], Born')
  <2>1. PICK gone : gone \subseteq UnderWay /\ End(q, gone)
    BY DEF Receive, ReceiveDay, ReceiveCalendar, ReceiveToggle, ReceiveDelete,
           ReceiveCreate, Discard, OfKind, OfRow
  <2>2. \A p \in Slots : Kept(p, gone)
    BY <2>1, EndKeeps DEF IInv
  <2>3. QED
    BY <1>2, <2>2, KeptKnown DEF KnownOK
<1>4. HabitsIn(page'.rows, Born)
  <2>1. PICK h, rows : h = sent[q].habit /\ rows = sent[q].answer.rows
    OBVIOUS
  <2>2. page \in Pages /\ HabitsIn(page.rows, Born)
    BY DEF IInv, TypeOK, KnownOK
  <2>3. HabitsIn(RowsWithout(h), Born)
    BY <2>2 DEF HabitsIn, RowsWithout
  <2>4. CASE sent[q].answer # NoAnswer /\ ~Discard(q) /\ ~ReceiveCalendar(q)
    <3>1. HabitsIn(rows, Born)
      BY <1>1, <2>1, <2>4 DEF KnownOK, Asks
    <3>2. HabitsIn(SwapRow(h, rows), Born)
      <4>1. SwapRow(h, rows) \subseteq
              RowsWithout(h) \cup rows \cup {[habit |-> NoHabit, marked |-> FALSE]}
        BY DEF SwapRow
      <4>2. QED
        BY <2>3, <3>1, <4>1 DEF HabitsIn
    <3>3. \/ page'.rows = rows \/ page'.rows = page.rows
          \/ page'.rows = SwapRow(h, rows) \/ page'.rows = RowsWithout(h)
      <4>1. ASSUME NEW list, NEW banner,
                   page' = [page EXCEPT !.rows = list, !.banner = banner]
            PROVE  page'.rows = list
        BY <2>2, <4>1 DEF Pages
      <4>2. CASE ReceiveDay(q)
        BY <2>1, <4>2 DEF ReceiveDay
      <4>3. CASE ReceiveToggle(q)
        BY <2>1, <4>1, <4>3 DEF ReceiveToggle
      <4>4. CASE ReceiveDelete(q)
        BY <2>1, <4>1, <4>4 DEF ReceiveDelete
      <4>5. CASE ReceiveCreate(q)
        BY <2>1, <4>1, <4>5 DEF ReceiveCreate
      <4>6. QED
        BY <2>4, <4>2, <4>3, <4>4, <4>5 DEF Receive
    <3>4. QED
      BY <2>2, <2>3, <3>1, <3>2, <3>3
  <2>5. CASE Discard(q) \/ ReceiveCalendar(q)
    <3>1. page'.rows = page.rows
      BY <2>2, <2>5 DEF Discard, ReceiveCalendar, Pages
    <3>2. QED
      BY <2>2, <3>1
  <2>6. QED
    BY <2>4, <2>5 DEF Receive
<1>5. HabitsIn(page'.rows, Born')
  BY <1>2, <1>4
<1>6. \A h \in HabitIds : ended'[h] # NoDay => h \in Born'
  BY <1>1, <1>2 DEF KnownOK
<1>7. QED
  BY <1>3, <1>5, <1>6 DEF KnownOK

LEMMA NextKnown ==
  ASSUME IInv, KnownOK, [Next]_vars
  PROVE  KnownOK'
<1>1. CASE Midnight \/ UNCHANGED vars
  <2>1. UNCHANGED <<born, ended, page, sent>>
    BY <1>1 DEF Midnight, vars
  <2>2. Born' = Born
    BY <2>1 DEF Born
  <2>3. QED
    BY <2>1, <2>2, KnownStays
<1>2. CASE Home \/ Reload
  BY <1>2, LoadKnown DEF Home, Reload
<1>3. ASSUME NEW q \in Slots,
             \/ ClickPrev(q) \/ ClickNext(q) \/ ClickCell(q)
             \/ ClickPrevMonth(q) \/ ClickNextMonth(q)
             \/ ClickRow(q) \/ ClickDelete(q) \/ SubmitForm(q)
      PROVE  KnownOK'
  BY <1>3, ClickKnown
<1>4. ASSUME NEW p \in Slots, NEW q \in Slots, KeyOnDelete(p, q) PROVE KnownOK'
  BY <1>4, KeyKnown
<1>5. ASSUME NEW q \in Slots, Write(q) PROVE KnownOK'
  BY <1>5, WriteKnown
<1>6. ASSUME NEW q \in Slots, Answer(q) PROVE KnownOK'
  BY <1>6, AnswerKnown
<1>7. ASSUME NEW q \in Slots, Receive(q) PROVE KnownOK'
  BY <1>7, ReceiveKnown
<1>8. ASSUME NEW q \in Slots, Lose(q) PROVE KnownOK'
  <2>1. End(q, {}) /\ UNCHANGED <<born, ended, page>>
    BY <1>8 DEF Lose
  <2>2. Born' = Born /\ \A p \in Slots : Kept(p, {})
    BY <2>1, EndKeeps DEF Born, IInv
  <2>3. QED
    BY <2>1, <2>2, KeptKnown, KnownStays DEF KnownOK
<1>9. QED
  BY <1>1, <1>2, <1>3, <1>4, <1>5, <1>6, <1>7, <1>8 DEF Next

\* A toggle that goes on after its first statement is of a habit that was
\* there by the day it is for.
LoadedOK ==
  \A q \in Slots :
    sent[q] # Idle /\ sent[q].at \in Between =>
      /\ sent[q].kind = "toggle" /\ sent[q].habit \in Born
      /\ born[sent[q].habit] <= sent[q].day

\* The date a habit was created on stays.
LEMMA BornStays ==
  ASSUME IInv, [Next]_vars
  PROVE  \A h \in Born : h \in Born' /\ born'[h] = born[h]
<1>1. ASSUME NEW q \in Slots, Insert(q)
      PROVE  \A h \in Born : born'[h] = born[h]
  BY <1>1 DEF Insert, Born, IInv, TypeOK
<1>2. ASSUME NEW q \in Slots, Write(q)
      PROVE  \A h \in Born : born'[h] = born[h]
  BY <1>1, <1>2, ToggleTables DEF Write, SoftDelete
<1>3. (\A q \in Slots : ~Write(q)) => UNCHANGED born
  BY DEF Next, vars, Midnight, Home, Reload, Load, ClickPrev, ClickNext, ClickCell,
         ClickPrevMonth, ClickNextMonth, ClickRow, ClickDelete, SubmitForm, GoTo,
         GoToMonth, Send, KeyOnDelete, Answer, Receive, Lose
<1>4. QED
  BY <1>2, <1>3 DEF Born

\* What a step makes of a request between two statements: it stays where it
\* is, or is taken there by a statement of its own.
LEMMA BetweenSteps ==
  ASSUME IInv, [Next]_vars, NEW p \in Slots, sent'[p] # Idle, sent'[p].at \in Between
  PROVE  \/ /\ sent[p] # Idle /\ sent'[p].at = sent[p].at
            /\ sent'[p].kind = sent[p].kind /\ sent'[p].habit = sent[p].habit
            /\ sent'[p].day = sent[p].day
         \/ Write(p)
<1> DEFINE Same == /\ sent[p] # Idle /\ sent'[p].at = sent[p].at
                   /\ sent'[p].kind = sent[p].kind /\ sent'[p].habit = sent[p].habit
                   /\ sent'[p].day = sent[p].day
<1>1. ASSUME sent'[p] = sent[p] PROVE Same
  BY <1>1
<1>2. ASSUME NEW gone, Kept(p, gone) PROVE Same
  BY <1>2 DEF Kept
<1> HIDE DEF Same
<1>3. ASSUME NEW kind, NEW h, NEW d, NEW m, sent'[p] = Request(kind, h, d, m)
      PROVE  FALSE
  BY <1>3 DEF Request, Between
<1>4. ASSUME NEW q \in Slots, NEW kind, NEW h, NEW d, NEW m,
             Send(q, Request(kind, h, d, m))
      PROVE  Same
  <2>1. sent' = [sent EXCEPT ![q] = Request(kind, h, d, m)]
    BY <1>4 DEF Send
  <2>2. p # q
    BY <1>3, <2>1 DEF IInv, TypeOK
  <2>3. QED
    BY <1>1, <2>1, <2>2 DEF IInv, TypeOK
<1>5. ASSUME NEW q \in Slots,
             \/ ClickPrev(q) \/ ClickNext(q) \/ ClickCell(q)
             \/ ClickPrevMonth(q) \/ ClickNextMonth(q)
             \/ ClickRow(q) \/ ClickDelete(q) \/ SubmitForm(q)
      PROVE  Same
  <2>1. PICK kind, h, d, m : Send(q, Request(kind, h, d, m))
    BY <1>5 DEF ClickPrev, ClickNext, ClickCell, ClickPrevMonth, ClickNextMonth,
                ClickRow, ClickDelete, SubmitForm, GoTo, GoToMonth
  <2>2. QED
    BY <1>4, <2>1
<1>6. ASSUME NEW q \in Slots, NEW o \in Slots, KeyOnDelete(o, q) PROVE Same
  <2>1. PICK h, d, m :
          sent' = [sent EXCEPT ![o] = Request("toggle", h, d, m),
                               ![q] = Request("delete", h, d, m)]
    BY <1>6 DEF KeyOnDelete
  <2>2. p # q /\ p # o
    BY <1>3, <2>1 DEF IInv, TypeOK
  <2>3. QED
    BY <1>1, <2>1, <2>2 DEF IInv, TypeOK
<1>7. ASSUME NEW q \in Slots, Write(q), p # q PROVE Same
  <2>1. PICK at \in Stages : Advance(q, at)
    BY <1>7, WriteAdvances
  <2>2. QED
    BY <1>1, <1>7, <2>1 DEF Advance, IInv, TypeOK
<1>8. ASSUME NEW q \in Slots, Answer(q) PROVE Same
  <2>1. PICK rows :
          rows = IF sent[q].kind = "calendar" THEN {} ELSE ListRows(sent[q].day)
    OBVIOUS
  <2>2. sent'[q].at = "answered" /\ \A o \in Slots \ {q} : sent'[o] = sent[o]
    BY <1>8, <2>1, AnswerFields
  <2>3. QED
    BY <1>1, <2>2 DEF Between
<1>9. ASSUME NEW q \in Slots, Receive(q) PROVE Same
  <2>1. PICK gone : gone \subseteq UnderWay /\ End(q, gone)
    BY <1>9 DEF Receive, ReceiveDay, ReceiveCalendar, ReceiveToggle, ReceiveDelete,
                ReceiveCreate, Discard, OfKind, OfRow
  <2>2. QED
    BY <1>2, <2>1, EndKeeps DEF IInv
<1>10. ASSUME NEW q \in Slots, Lose(q) PROVE Same
  BY <1>2, <1>10, EndKeeps DEF Lose, IInv
<1>11. ASSUME NEW d, Load(d) PROVE Same
  BY <1>2, <1>11, LoadKeeps DEF IInv
<1>12. CASE Midnight \/ UNCHANGED vars
  BY <1>1, <1>12 DEF Midnight, vars
<1>13. QED
  BY <1>5, <1>6, <1>7, <1>8, <1>9, <1>10, <1>11, <1>12 DEF Next, Home, Reload, Same

LEMMA NextLoaded ==
  ASSUME IInv, KnownOK, LoadedOK, [Next]_vars
  PROVE  LoadedOK'
<1> SUFFICES ASSUME NEW q \in Slots, sent'[q] # Idle, sent'[q].at \in Between
             PROVE  /\ sent'[q].kind = "toggle" /\ sent'[q].habit \in Born'
                    /\ born'[sent'[q].habit] <= sent'[q].day
  BY DEF LoadedOK
<1>1. \A h \in Born : h \in Born' /\ born'[h] = born[h]
  BY BornStays
<1>2. CASE ~Write(q)
  BY <1>1, <1>2, BetweenSteps DEF LoadedOK
<1>3. CASE Write(q)
  <2>1. sent[q] # Idle
    BY <1>3 DEF Write, UnderWay
  <2>2. PICK at \in Stages : Advance(q, at)
    BY <1>3, WriteAdvances
  <2>3. /\ sent'[q].at = at /\ sent'[q].kind = sent[q].kind
        /\ sent'[q].habit = sent[q].habit /\ sent'[q].day = sent[q].day
    BY <2>1, <2>2, WriteFields
  <2>4. \A b \in Stages : Advance(q, b) => b = at
    BY <2>1, <2>3, WriteFields
  <2>5. CASE LoadHabit(q)
    <3>1. sent[q].kind = "toggle" /\ Clamp(sent[q].day) = sent[q].day
      BY <2>1, <2>5, RequestDays DEF LoadHabit
    <3>2. sent[q].habit \in Born
      BY <2>1, <3>1 DEF KnownOK, Asks
    <3>3. ListedOn(sent[q].habit, sent[q].day)
      BY <2>3, <2>4, <2>5, <3>1 DEF LoadHabit, Stages, Between
    <3>4. born[sent[q].habit] <= sent[q].day
      BY <3>3 DEF ListedOn
    <3>5. QED
      BY <1>1, <2>3, <3>1, <3>2, <3>4
  <2>6. CASE CheckEntry(q)
    <3>1. sent[q].at \in Between
      BY <2>6 DEF CheckEntry, Between
    <3>2. QED
      BY <1>1, <2>1, <2>3, <3>1 DEF LoadedOK
  <2>7. CASE Insert(q) \/ SoftDelete(q) \/ DeleteEntry(q) \/ InsertEntry(q)
    BY <2>3, <2>4, <2>7 DEF Insert, SoftDelete, DeleteEntry, InsertEntry, Stages, Between
  <2>8. QED
    BY <1>3, <2>5, <2>6, <2>7 DEF Write, Toggle
<1>4. QED
  BY <1>2, <1>3

LEMMA InitKnown == Init => KnownOK
<1> SUFFICES ASSUME Init PROVE KnownOK
  OBVIOUS
<1>1. HabitsIn(page.rows, Born)
  BY ListKnown DEF Init, PageOf
<1>2. QED
  BY <1>1 DEF Init, KnownOK, Asks

\* The tables as lives.
Life == [h \in HabitIds |-> [owner |-> User, first |-> born[h], end |-> ended[h]]]

LEMMA LifeFields ==
  ASSUME NEW h \in HabitIds
  PROVE  /\ Life[h] = [owner |-> User, first |-> born[h], end |-> ended[h]]
         /\ Life[h].owner = User /\ Life[h].first = born[h] /\ Life[h].end = ended[h]
         /\ h \in Born => Life[h] # [owner |-> User, first |-> NoDay, end |-> NoDay]
         /\ h \notin Born /\ ended[h] = NoDay =>
              Life[h] = [owner |-> User, first |-> NoDay, end |-> NoDay]
BY DEF Life, Born

LEMMA LifeSame == ASSUME UNCHANGED <<born, ended>> PROVE Life' = Life
BY DEF Life

LEMMA MidnightIsNewDay == ASSUME IInv, Midnight PROVE Ledger!NewDay
<1>1. today' > today /\ UNCHANGED <<born, ended, marks>>
  BY ClockType DEF Midnight, IInv, TypeOK
<1>2. QED
  BY <1>1 DEF Ledger!NewDay

\* A habit that is not there is registered as of today.
LEMMA InsertRegisters ==
  ASSUME IInv, KnownOK, NEW q \in Slots, Insert(q), UNCHANGED today
  PROVE  \/ UNCHANGED <<born, ended, marks>>
         \/ \E h \in HabitIds : Ledger!Register(User, h)
<1>1. UNCHANGED <<ended, marks>>
  BY DEF Insert
<1>2. ASSUME NEW h \in HabitIds, born[h] = NoDay, born' = [born EXCEPT ![h] = today]
      PROVE  Ledger!Register(User, h)
  <2>1. ended[h] = NoDay
    BY <1>2 DEF KnownOK, Born
  <2>2. Life[h] = [owner |-> User, first |-> NoDay, end |-> NoDay]
    BY <1>2, <2>1, LifeFields DEF Born
  <2>3. Life' = [Life EXCEPT ![h] = [owner |-> User, first |-> today, end |-> NoDay]]
    BY <1>1, <1>2, <2>1 DEF Life, IInv, TypeOK
  <2>4. QED
    BY <1>1, <2>2, <2>3 DEF Life, Ledger!Register
<1>3. QED
  BY <1>1, <1>2 DEF Insert

\* An entry is made or removed on a day that is not before the habit's first
\* and not one to come.
LEMMA ToggleMarks ==
  ASSUME IInv, LoadedOK, NEW q \in Slots, sent[q] # Idle, Toggle(q), UNCHANGED today
  PROVE  \/ UNCHANGED <<born, ended, marks>>
         \/ \E h \in HabitIds, d \in Days :
              Ledger!Mark(User, h, d) \/ Ledger!Unmark(User, h, d)
<1>1. UNCHANGED <<born, ended>> /\ Life' = Life
  BY LifeSame, ToggleTables
<1>2. PICK h, d : h = sent[q].habit /\ d = sent[q].day
  OBVIOUS
<1>3. CASE LoadHabit(q) \/ CheckEntry(q)
  BY <1>3 DEF LoadHabit, CheckEntry
<1>4. CASE DeleteEntry(q) \/ InsertEntry(q)
  <2>1. d \in Days /\ d <= today /\ d = Clamp(sent[q].day)
    BY <1>2, RequestDays
  <2>2. h \in Born /\ h \in HabitIds /\ born[h] <= d
    BY <1>2, <1>4 DEF DeleteEntry, InsertEntry, LoadedOK, Between, Born
  <2>3. /\ Life[h] # [owner |-> User, first |-> NoDay, end |-> NoDay]
        /\ Life[h].owner = User /\ Life[h].first <= d
    BY <2>2, LifeFields
  <2>4. CASE DeleteEntry(q)
    <3>1. marks' = [marks EXCEPT ![h] = @ \ {d}]
      BY <1>2, <2>1, <2>4 DEF DeleteEntry
    <3>2. CASE d \in marks[h]
      <4>1. Ledger!Unmark(User, h, d)
        BY <1>1, <2>1, <2>3, <3>1, <3>2 DEF Life, Ledger!Unmark, Ledger!MayMark
      <4>2. QED
        BY <2>1, <2>2, <4>1
    <3>3. CASE d \notin marks[h]
      BY <1>1, <2>2, <3>1, <3>3 DEF IInv, TypeOK
    <3>4. QED
      BY <3>2, <3>3
  <2>5. CASE InsertEntry(q)
    <3>1. UNCHANGED marks \/ (d \notin marks[h] /\ marks' = [marks EXCEPT ![h] = @ \cup {d}])
      BY <1>2, <2>1, <2>5 DEF InsertEntry
    <3>2. CASE d \notin marks[h] /\ marks' = [marks EXCEPT ![h] = @ \cup {d}]
      <4>1. Ledger!Mark(User, h, d)
        BY <1>1, <2>1, <2>3, <3>2 DEF Life, Ledger!Mark, Ledger!MayMark
      <4>2. QED
        BY <2>1, <2>2, <4>1
    <3>3. QED
      BY <1>1, <3>1, <3>2
  <2>6. QED
    BY <1>4, <2>4, <2>5
<1>5. QED
  BY <1>3, <1>4 DEF Toggle

\* A life ends, or ends on another day than before, which is none to come.
LEMMA DeleteCloses ==
  ASSUME IInv, KnownOK, NEW q \in Slots, sent[q] # Idle, SoftDelete(q), UNCHANGED today
  PROVE  \E h \in HabitIds, d \in Days : Ledger!Close(User, h, d)
<1>1. PICK h, d : h = sent[q].habit /\ d = sent[q].day
  OBVIOUS
<1>2. /\ h \in Born /\ h \in HabitIds /\ d \in Days /\ d <= today
      /\ ended' = [ended EXCEPT ![h] = d] /\ UNCHANGED <<born, marks>>
  BY <1>1, RequestDays DEF SoftDelete, KnownOK, Asks, Born
<1>3. Life' = [Life EXCEPT ![h].end = d]
  BY <1>2 DEF Life, IInv, TypeOK
<1>4. /\ Life[h] # [owner |-> User, first |-> NoDay, end |-> NoDay]
      /\ Life[h].owner = User
  BY <1>2, LifeFields
<1>5. Ledger!Close(User, h, d)
  BY <1>2, <1>3, <1>4 DEF Life, Ledger!Close
<1>6. QED
  BY <1>2, <1>5

\* Every step of the tab is one of the ledger, or none.
LEMMA TabStepIsLedgers ==
  ASSUME IInv, KnownOK, LoadedOK, [Next]_vars
  PROVE  [Ledger!Next]_Ledger!vars
<1>1. ASSUME UNCHANGED <<today, born, ended, marks>> PROVE UNCHANGED Ledger!vars
  BY <1>1 DEF Ledger!vars
<1>2. CASE Midnight
  BY <1>2, MidnightIsNewDay DEF Ledger!Next
<1>3. ASSUME NEW q \in Slots, Write(q) PROVE [Ledger!Next]_Ledger!vars
  <2>1. sent[q] # Idle /\ UNCHANGED today
    BY <1>3 DEF Write, UnderWay
  <2>2. CASE Insert(q)
    BY <1>1, <2>1, <2>2, InsertRegisters DEF Ledger!Next
  <2>3. CASE Toggle(q)
    BY <1>1, <2>1, <2>3, ToggleMarks DEF Ledger!Next
  <2>4. CASE SoftDelete(q)
    BY <2>1, <2>4, DeleteCloses DEF Ledger!Next
  <2>5. QED
    BY <1>3, <2>2, <2>3, <2>4 DEF Write
<1>4. ASSUME NEW q \in Slots,
             \/ ClickPrev(q) \/ ClickNext(q) \/ ClickCell(q)
             \/ ClickPrevMonth(q) \/ ClickNextMonth(q)
             \/ ClickRow(q) \/ ClickDelete(q) \/ SubmitForm(q)
             \/ Answer(q) \/ Receive(q) \/ Lose(q)
      PROVE  UNCHANGED <<today, born, ended, marks>>
  BY <1>4 DEF ClickPrev, ClickNext, ClickCell, ClickPrevMonth, ClickNextMonth,
              ClickRow, ClickDelete, SubmitForm, GoTo, GoToMonth, Send,
              Answer, Receive, Lose
<1>5. ASSUME NEW p \in Slots, NEW q \in Slots, KeyOnDelete(p, q)
      PROVE  UNCHANGED <<today, born, ended, marks>>
  BY <1>5 DEF KeyOnDelete
<1>6. CASE Home \/ Reload \/ UNCHANGED vars
  BY <1>1, <1>6 DEF Home, Reload, Load, vars
<1>7. QED
  BY <1>1, <1>2, <1>3, <1>4, <1>5, <1>6 DEF Next

\* What a tab makes of the tables, however the statements of its requests
\* overlap and whichever are lost, is what a ledger allows that does not bind
\* marks to the deletion: one operation of one habit that is there at a time,
\* no mark before the habit was created and none on a day to come
\* (handler.go:43-59, 270-324, habit.go:251-291).
THEOREM TabKeepsTheLedger == Spec => ImplementsLedger
<1>1. Init => Ledger!Init
  <2> SUFFICES ASSUME Init PROVE Ledger!Init
    OBVIOUS
  <2>1. today \in Days /\ \A h \in HabitIds : ended[h] = NoDay
    BY ClockType DEF Init
  <2>2. ASSUME NEW h \in HabitIds
        PROVE  \/ Life[h] = [owner |-> User, first |-> NoDay, end |-> NoDay]
               \/ /\ Life[h].owner = User /\ Life[h].first <= today
                  /\ Life[h].end = NoDay
    <3>1. born[h] = NoDay \/ born[h] <= today
      BY DEF Init
    <3>2. QED
      BY <2>1, <3>1, LifeFields DEF Born
  <2>3. QED
    BY <2>1, <2>2 DEF Ledger!Init, Init, Life
<1>2. IInv /\ KnownOK /\ LoadedOK /\ [Next]_vars => [Ledger!Next]_Ledger!vars
  BY TabStepIsLedgers
<1>3. IInv /\ KnownOK /\ [Next]_vars => KnownOK'
  BY NextKnown
<1>4. IInv /\ KnownOK /\ LoadedOK /\ [Next]_vars => LoadedOK'
  BY NextLoaded
<1>5. Init => LoadedOK
  BY DEF Init, LoadedOK
<1>6. QED
  BY <1>1, <1>2, <1>3, <1>4, <1>5, InitKnown, TabInvariant, PTL
     DEF Spec, ImplementsLedger, Ledger!Spec

=============================================================================
