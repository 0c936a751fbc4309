-------------------------- MODULE HabitServiceProofs --------------------------
(***************************************************************************)
(* The safety of the habit tracker's writes for any number of users,       *)
(* habits, requests and dates, and for any two time zones less than a day  *)
(* apart.                                                                  *)
(***************************************************************************)
EXTENDS HabitServiceLedger, FiniteSetTheorems, TLAPS

OnDay == {"delete", "load", "check", "insert", "remove"}

\* What a request knows when it sends a statement, however long ago it was
\* told: its arguments are complete, its day is not in the future, and once
\* Toggle has loaded the habit it is the user's and exists on that day.
RequestsOK ==
  \A r \in Requests :
    /\ pc[r] # "returned" => result[r] = "none"
    /\ pc[r] = "create" => arg[r].user \in Users /\ arg[r].target # 0
    /\ pc[r] \in OnDay =>
         /\ arg[r].user \in Users
         /\ arg[r].habit \in HabitIds
         /\ arg[r].day \in Days
         /\ arg[r].day <= Today
    /\ pc[r] \in {"check", "insert", "remove"} =>
         /\ Owns(habits, arg[r].user, arg[r].habit)
         /\ GoDate[habits[arg[r].habit].createdAt] <= arg[r].day

\* A habit was created in the past, and deleted at the midnight of a day
\* that is not in the future.
LivesOK ==
  \A h \in HabitIds :
    habits[h] # NoHabit =>
      /\ habits[h].createdAt <= now
      /\ habits[h].deletedAt # NotDeleted =>
           \E d \in Days : d <= Today /\ habits[h].deletedAt = PgMidnight[d]

IInv ==
  /\ TypeOK
  /\ RequestsOK
  /\ LivesOK
  /\ EntriesWithinLife

-----------------------------------------------------------------------------
(* Dates.                                                                  *)

\* The clock's date is a date a request can carry.
LEMMA TodayType ==
  ASSUME now \in Clock
  PROVE  now \in Instants /\ now \in Int /\ Today \in Days /\ Today \in Int
BY ZoneAssumption DEF Today

\* Dates are numbers in both zones.
LEMMA DateType ==
  /\ \A i \in Instants : i \in Int /\ GoDate[i] \in Int /\ PgDate[i] \in Int
  /\ \A d \in Days : d \in Int /\ PgMidnight[d] \in Instants
BY ZoneAssumption

\* The handlers' day is a date that is not in the future.
LEMMA ParsedDay ==
  ASSUME now \in Clock, NEW query \in RawDays, NEW form \in RawDays
  PROVE  /\ ParseDateParam(query, form) \in Days
         /\ ParseDateParam(query, form) <= Today
BY TodayType, FrequencyAssumption DEF ParseDateParam, RawDays

\* The handlers' target is positive and their period one of three.
LEMMA ParsedFrequency ==
  ASSUME NEW f \in Frequencies
  PROVE  /\ ParseFrequency(f).target \in Nat \ {0}
         /\ ParseFrequency(f).period \in Periods
BY FrequencyAssumption DEF ParseFrequency, Periods

\* A row is not the absence of a row.
LEMMA RowType ==
  ASSUME NEW row \in HabitRow \cup {NoHabit}, row # NoHabit
  PROVE  /\ row \in HabitRow
         /\ row.createdAt \in Instants
         /\ row.deletedAt \in Instants \cup {NotDeleted}
BY DEF HabitRow

-----------------------------------------------------------------------------
(* The invariant is kept.                                                  *)

LEMMA InitIInv == Init => IInv
<1> SUFFICES ASSUME Init PROVE IInv
  OBVIOUS
<1>1. \A h \in HabitIds : habits[h] # NoHabit => habits[h] \in LegacyRows
  BY DEF Init
<1>2. LegacyRows \subseteq HabitRow
  BY NullAssumption DEF LegacyRows, HabitRow, Periods
<1>3. TypeOK
  <2>1. NoArg \in Args
    BY DEF NoArg, Args, RawDays, Periods
  <2>2. QED
    BY <1>2, <2>1 DEF Init, TypeOK, Results
<1>4. RequestsOK
  BY DEF Init, RequestsOK, OnDay
<1>5. LivesOK
  BY <1>1 DEF LivesOK, LegacyRows
<1>6. EntriesWithinLife
  BY DEF Init, EntriesWithinLife
<1>7. QED
  BY <1>3, <1>4, <1>5, <1>6 DEF IInv

\* As time passes the past stays the past.
LEMMA TickIInv == IInv /\ Tick => IInv'
<1> SUFFICES ASSUME IInv, Tick
             PROVE  IInv'
  OBVIOUS
<1>1. /\ now' \in Clock
      /\ now' > now
      /\ UNCHANGED <<habits, entries, pc, arg, result>>
  BY DEF Tick
<1>2. /\ now \in Int /\ now' \in Int
      /\ Today \in Int /\ Today' \in Int
      /\ Today <= Today'
  BY <1>1, ZoneAssumption DEF IInv, TypeOK, Today
<1>3. TypeOK'
  BY <1>1 DEF IInv, TypeOK
<1>4. RequestsOK'
  BY <1>1, <1>2, DateType DEF IInv, RequestsOK, Owns
<1>5. LivesOK'
  <2>1. SUFFICES ASSUME NEW h \in HabitIds, habits[h] # NoHabit
                 PROVE  /\ habits[h].createdAt <= now'
                        /\ habits[h].deletedAt # NotDeleted =>
                             \E d \in Days : /\ d <= Today'
                                             /\ habits[h].deletedAt = PgMidnight[d]
    BY <1>1 DEF LivesOK
  <2>2. habits[h].createdAt \in Int
    BY <2>1, RowType, DateType DEF IInv, TypeOK
  <2>3. QED
    BY <1>1, <1>2, <2>1, <2>2, DateType DEF IInv, LivesOK
<1>6. EntriesWithinLife'
  <2>1. SUFFICES ASSUME NEW e \in entries
                 PROVE  e[2] <= Today'
    BY <1>1 DEF IInv, EntriesWithinLife
  <2>2. e[2] \in Int /\ e[2] <= Today
    BY DateType DEF IInv, TypeOK, EntriesWithinLife
  <2>3. QED
    BY <1>2, <2>2
<1>7. QED
  BY <1>3, <1>4, <1>5, <1>6 DEF IInv

\* A statement that writes no table leaves the lives as they are.
LEMMA SameTables ==
  ASSUME IInv, UNCHANGED <<now, habits, entries>>
  PROVE  LivesOK' /\ EntriesWithinLife'
BY DEF IInv, LivesOK, EntriesWithinLife, Today

\* A request that begins knows what its first statement needs.
LEMMA BeginIInv ==
  ASSUME IInv, NEW r \in Requests,
         BeginCreate(r) \/ BeginToggle(r) \/ BeginDelete(r)
  PROVE  IInv'
<1>1. UNCHANGED <<now, habits, entries, result>>
  BY DEF BeginCreate, BeginToggle, BeginDelete, Begin
<1>2. now \in Clock /\ Today' = Today
  BY <1>1 DEF IInv, TypeOK, Today
<1>3. CASE BeginCreate(r)
  <2>1. PICK u \in Users, f \in Frequencies :
          Begin(r, "create", [NoArg EXCEPT !.user   = u,
                                           !.target = ParseFrequency(f).target,
                                           !.period = ParseFrequency(f).period])
    BY <1>3 DEF BeginCreate
  <2> DEFINE a == [NoArg EXCEPT !.user   = u,
                                !.target = ParseFrequency(f).target,
                                !.period = ParseFrequency(f).period]
  <2>2. /\ a \in Args
        /\ a.user \in Users
        /\ a.target # 0
    BY ParsedFrequency DEF NoArg, Args, RawDays
  <2> HIDE DEF a
  <2>3. /\ pc[r] = "idle"
        /\ pc' = [pc EXCEPT ![r] = "create"]
        /\ arg' = [arg EXCEPT ![r] = a]
    BY <2>1 DEF Begin, a
  <2>4. TypeOK'
    BY <1>1, <2>2, <2>3 DEF IInv, TypeOK, Statements
  <2>5. RequestsOK'
    BY <1>1, <1>2, <2>2, <2>3 DEF IInv, TypeOK, RequestsOK, OnDay, Owns
  <2>6. QED
    BY <1>1, <2>4, <2>5, SameTables DEF IInv
<1>4. CASE BeginToggle(r) \/ BeginDelete(r)
  <2>1. PICK u \in Users, h \in HabitIds, query \in RawDays, form \in RawDays,
             statement \in {"load", "delete"} :
          Begin(r, statement, OnDayArgs(u, h, ParseDateParam(query, form)))
    BY <1>4 DEF BeginToggle, BeginDelete
  <2> DEFINE a == OnDayArgs(u, h, ParseDateParam(query, form))
  <2>2. /\ a \in Args
        /\ a.user \in Users
        /\ a.habit \in HabitIds
        /\ a.day \in Days
        /\ a.day <= Today
    BY <1>2, ParsedDay DEF OnDayArgs, NoArg, Args, RawDays, Periods
  <2> HIDE DEF a
  <2>3. /\ pc[r] = "idle"
        /\ pc' = [pc EXCEPT ![r] = statement]
        /\ arg' = [arg EXCEPT ![r] = a]
    BY <2>1 DEF Begin, a
  <2>4. TypeOK'
    BY <1>1, <2>2, <2>3 DEF IInv, TypeOK, Statements
  <2>5. RequestsOK'
    BY <1>1, <1>2, <2>2, <2>3 DEF IInv, TypeOK, RequestsOK, OnDay, Owns
  <2>6. QED
    BY <1>1, <2>4, <2>5, SameTables DEF IInv
<1>5. QED
  BY <1>3, <1>4

\* A request that has returned knows nothing and needs nothing.
LEMMA ReturnKeeps ==
  ASSUME IInv, NEW r \in Requests, NEW res \in Results, Return(r, res)
  PROVE  /\ pc' \in [Requests -> Statements \cup {"idle", "returned"}]
         /\ result' \in [Requests -> Results]
         /\ UNCHANGED <<now, arg, Today>>
         /\ pc'[r] = "returned"
         /\ \A q \in Requests \ {r} : pc'[q] = pc[q] /\ result'[q] = result[q]
BY DEF IInv, TypeOK, Return, Today

\* An answer that comes without a change of the tables.
LEMMA ReturnIInv ==
  ASSUME IInv, NEW r \in Requests, NEW res \in Results, Return(r, res),
         UNCHANGED <<habits, entries>>
  PROVE  IInv'
<1>1. TypeOK'
  BY ReturnKeeps DEF IInv, TypeOK
<1>2. RequestsOK'
  BY ReturnKeeps DEF IInv, RequestsOK, OnDay, Owns
<1>3. QED
  BY <1>1, <1>2, ReturnKeeps, SameTables DEF IInv

\* Toggle's checks let a request through to its next statement.
LEMMA GotoIInv ==
  ASSUME IInv, NEW r \in Requests, NEW statement \in {"check", "insert", "remove"},
         pc[r] \in OnDay,
         Owns(habits, arg[r].user, arg[r].habit),
         GoDate[habits[arg[r].habit].createdAt] <= arg[r].day,
         Goto(r, statement)
  PROVE  IInv'
<1>1. /\ UNCHANGED <<now, habits, entries, arg, result, Today>>
      /\ pc' = [pc EXCEPT ![r] = statement]
  BY DEF Goto, Today
<1>2. TypeOK'
  BY <1>1 DEF IInv, TypeOK, Statements
<1>3. RequestsOK'
  <2>1. SUFFICES ASSUME NEW q \in Requests
                 PROVE  /\ pc'[q] # "returned" => result[q] = "none"
                        /\ pc'[q] = "create" =>
                             arg[q].user \in Users /\ arg[q].target # 0
                        /\ pc'[q] \in OnDay =>
                             /\ arg[q].user \in Users
                             /\ arg[q].habit \in HabitIds
                             /\ arg[q].day \in Days
                             /\ arg[q].day <= Today
                        /\ pc'[q] \in {"check", "insert", "remove"} =>
                             /\ Owns(habits, arg[q].user, arg[q].habit)
                             /\ GoDate[habits[arg[q].habit].createdAt]
                                  <= arg[q].day
    BY <1>1 DEF RequestsOK, Owns
  <2>2. CASE q = r
    BY <1>1, <2>2 DEF IInv, TypeOK, RequestsOK, OnDay
  <2>3. CASE q # r
    BY <1>1, <2>3 DEF IInv, TypeOK, RequestsOK
  <2>4. QED
    BY <2>2, <2>3
<1>4. QED
  BY <1>1, <1>2, <1>3, SameTables DEF IInv

\* A change of the table habits that keeps every habit's owner and creation
\* date takes nothing from what other requests know or from the entries.
LEMMA HabitsWrite ==
  ASSUME IInv, UNCHANGED <<now, entries, arg>>,
         habits' \in [HabitIds -> HabitRow \cup {NoHabit}],
         \A h \in HabitIds : habits[h] # NoHabit =>
           /\ habits'[h] # NoHabit
           /\ habits'[h].owner = habits[h].owner
           /\ habits'[h].createdAt = habits[h].createdAt,
         NEW r \in Requests, NEW res \in Results, Return(r, res)
  PROVE  TypeOK' /\ RequestsOK' /\ EntriesWithinLife'
<1>1. TypeOK'
  BY ReturnKeeps DEF IInv, TypeOK
<1>2. RequestsOK'
  <2>1. SUFFICES ASSUME NEW q \in Requests \ {r}
                 PROVE  /\ pc'[q] # "returned" => result'[q] = "none"
                        /\ pc'[q] = "create" =>
                             arg[q].user \in Users /\ arg[q].target # 0
                        /\ pc'[q] \in OnDay =>
                             /\ arg[q].user \in Users
                             /\ arg[q].habit \in HabitIds
                             /\ arg[q].day \in Days
                             /\ arg[q].day <= Today
                        /\ pc'[q] \in {"check", "insert", "remove"} =>
                             /\ Owns(habits', arg[q].user, arg[q].habit)
                             /\ GoDate[habits'[arg[q].habit].createdAt]
                                  <= arg[q].day
    BY ReturnKeeps DEF RequestsOK, OnDay, Owns
  <2>2. pc'[q] = pc[q] /\ result'[q] = result[q]
    BY ReturnKeeps
  <2>3. QED
    BY <2>2 DEF IInv, RequestsOK, OnDay, Owns
<1>3. EntriesWithinLife'
  BY ReturnKeeps DEF IInv, TypeOK, EntriesWithinLife
<1>4. QED
  BY <1>1, <1>2, <1>3

LEMMA CreateIInv ==
  ASSUME IInv, NEW r \in Requests, CreateHabit(r)
  PROVE  IInv'
<1>1. CASE Return(r, "error") /\ UNCHANGED <<habits, entries>>
  BY <1>1, ReturnIInv DEF Results
<1>2. CASE /\ arg[r].target <= MaxInt4
           /\ \E h \in {h \in HabitIds : habits[h] = NoHabit} :
                habits' = [habits EXCEPT ![h] =
                  [owner     |-> arg[r].user,
                   target    |-> arg[r].target,
                   period    |-> arg[r].period,
                   createdAt |-> now,
                   deletedAt |-> NotDeleted]]
           /\ \E res \in {"ok", "error"} : Return(r, res)
           /\ UNCHANGED entries
  <2> DEFINE row == [owner     |-> arg[r].user,
                     target    |-> arg[r].target,
                     period    |-> arg[r].period,
                     createdAt |-> now,
                     deletedAt |-> NotDeleted]
  <2>1. PICK h \in HabitIds : /\ habits[h] = NoHabit
                              /\ habits' = [habits EXCEPT ![h] = row]
    BY <1>2
  <2>2. PICK res \in Results : Return(r, res)
    BY <1>2 DEF Results
  <2>3. row \in HabitRow
    <3>1. arg[r] \in Args /\ arg[r].user \in Users /\ arg[r].target # 0
      BY DEF CreateHabit, IInv, TypeOK, RequestsOK
    <3>2. arg[r].target \in 1 .. MaxInt4 /\ arg[r].period \in Periods
      BY <1>2, <3>1, NullAssumption DEF Args
    <3>3. QED
      BY <3>1, <3>2, TodayType DEF HabitRow, IInv, TypeOK
  <2>4. habits' \in [HabitIds -> HabitRow \cup {NoHabit}]
    BY <2>1, <2>3 DEF IInv, TypeOK
  <2>5. UNCHANGED <<now, arg, entries, Today>>
    BY <1>2, <2>2, ReturnKeeps
  <2>6. TypeOK' /\ RequestsOK' /\ EntriesWithinLife'
    <3>1. \A k \in HabitIds : habits[k] # NoHabit => habits'[k] = habits[k]
      BY <2>1 DEF IInv, TypeOK
    <3>2. QED
      BY <2>2, <2>4, <2>5, <3>1, HabitsWrite
  <2>7. LivesOK'
    <3>1. SUFFICES ASSUME NEW k \in HabitIds, habits'[k] # NoHabit
                   PROVE  /\ habits'[k].createdAt <= now
                          /\ habits'[k].deletedAt # NotDeleted =>
                               \E d \in Days : /\ d <= Today
                                               /\ habits'[k].deletedAt = PgMidnight[d]
      BY <2>5 DEF LivesOK
    <3>2. CASE k = h
      <4>1. habits'[k] = row
        BY <2>1, <3>2 DEF IInv, TypeOK
      <4>2. QED
        BY <4>1, TodayType DEF IInv, TypeOK
    <3>3. CASE k # h
      BY <2>1, <3>1, <3>3 DEF IInv, TypeOK, LivesOK
    <3>4. QED
      BY <3>2, <3>3
  <2>8. QED
    BY <2>6, <2>7 DEF IInv
<1>3. QED
  BY <1>1, <1>2 DEF CreateHabit

LEMMA DeleteIInv ==
  ASSUME IInv, NEW r \in Requests, SoftDelete(r)
  PROVE  IInv'
<1>1. CASE Return(r, "notFound") /\ UNCHANGED <<habits, entries>>
  BY <1>1, ReturnIInv DEF Results
<1>2. CASE /\ Owns(habits, arg[r].user, arg[r].habit)
           /\ habits' = [habits EXCEPT
                ![arg[r].habit].deletedAt = PgMidnight[arg[r].day]]
           /\ \E res \in {"ok", "error"} : Return(r, res)
           /\ UNCHANGED entries
  <2> DEFINE h == arg[r].habit
             d == arg[r].day
  <2>1. PICK res \in Results : Return(r, res)
    BY <1>2 DEF Results
  <2>2. /\ h \in HabitIds
        /\ d \in Days /\ d <= Today
        /\ PgMidnight[d] \in Instants
        /\ habits[h] \in HabitRow
    BY <1>2, DateType DEF SoftDelete, IInv, TypeOK, RequestsOK, OnDay, Owns
  <2>3. /\ habits' = [habits EXCEPT ![h] =
                        [habits[h] EXCEPT !.deletedAt = PgMidnight[d]]]
        /\ [habits[h] EXCEPT !.deletedAt = PgMidnight[d]] \in HabitRow
    BY <1>2, <2>2 DEF HabitRow
  <2>4. habits' \in [HabitIds -> HabitRow \cup {NoHabit}]
    BY <2>3 DEF IInv, TypeOK
  <2>5. UNCHANGED <<now, arg, entries, Today>>
    BY <1>2, <2>1, ReturnKeeps
  <2>6. \A k \in HabitIds : habits[k] # NoHabit =>
          /\ habits'[k] # NoHabit
          /\ habits'[k].owner = habits[k].owner
          /\ habits'[k].createdAt = habits[k].createdAt
    BY <2>2, <2>3, NullAssumption DEF IInv, TypeOK, HabitRow
  <2>7. TypeOK' /\ RequestsOK' /\ EntriesWithinLife'
    BY <2>1, <2>4, <2>5, <2>6, HabitsWrite
  <2>8. LivesOK'
    <3>1. SUFFICES ASSUME NEW k \in HabitIds, habits'[k] # NoHabit
                   PROVE  /\ habits'[k].createdAt <= now
                          /\ habits'[k].deletedAt # NotDeleted =>
                               \E dd \in Days : /\ dd <= Today
                                                /\ habits'[k].deletedAt = PgMidnight[dd]
      BY <2>5 DEF LivesOK
    <3>2. CASE k = h
      <4>1. habits'[k] = [habits[h] EXCEPT !.deletedAt = PgMidnight[d]]
        BY <2>2, <2>3, <3>2 DEF IInv, TypeOK
      <4>2. /\ habits'[k].deletedAt = PgMidnight[d]
            /\ habits'[k].createdAt = habits[h].createdAt
        BY <2>2, <4>1 DEF HabitRow
      <4>3. habits[h].createdAt <= now
        BY <1>2, <2>2 DEF IInv, LivesOK, Owns
      <4>4. QED
        BY <2>2, <4>2, <4>3
    <3>3. CASE k # h
      BY <2>3, <3>1, <3>3 DEF IInv, TypeOK, LivesOK
    <3>4. QED
      BY <3>2, <3>3
  <2>9. QED
    BY <2>7, <2>8 DEF IInv
<1>3. QED
  BY <1>1, <1>2 DEF SoftDelete

\* Toggle's two reads.
LEMMA ToggleReadIInv ==
  ASSUME IInv, NEW r \in Requests, ToggleLoad(r) \/ ToggleCheck(r)
  PROVE  IInv'
<1>1. CASE ToggleLoad(r)
  <2>1. CASE /\ Owns(habits, arg[r].user, arg[r].habit)
             /\ ActiveOn(habits[arg[r].habit], arg[r].day)
             /\ Goto(r, "check")
    BY <1>1, <2>1, GotoIInv DEF ToggleLoad, OnDay, ActiveOn
  <2>2. CASE /\ \E res \in {"inactive", "notFound"} : Return(r, res)
             /\ UNCHANGED <<habits, entries>>
    BY <2>2, ReturnIInv DEF Results
  <2>3. QED
    BY <1>1, <2>1, <2>2 DEF ToggleLoad
<1>2. CASE ToggleCheck(r)
  <2>1. PICK statement \in {"remove", "insert"} : Goto(r, statement)
    BY <1>2 DEF ToggleCheck
  <2>2. /\ pc[r] \in OnDay
        /\ Owns(habits, arg[r].user, arg[r].habit)
        /\ GoDate[habits[arg[r].habit].createdAt] <= arg[r].day
    BY <1>2 DEF ToggleCheck, IInv, RequestsOK, OnDay
  <2>3. QED
    BY <2>1, <2>2, GotoIInv
<1>3. QED
  BY <1>1, <1>2

\* Toggle's two writes: what the request was told of the habit when it
\* loaded the row still holds.
LEMMA ToggleWriteIInv ==
  ASSUME IInv, NEW r \in Requests, ToggleRemove(r) \/ ToggleInsert(r)
  PROVE  IInv'
<1> DEFINE e == <<arg[r].habit, arg[r].day>>
<1>1. PICK res \in Results : Return(r, res)
  BY DEF ToggleRemove, ToggleInsert, Results
<1>2. UNCHANGED <<now, habits, arg, Today>>
  BY <1>1, ReturnKeeps DEF ToggleRemove, ToggleInsert
<1>3. /\ arg[r].user \in Users
      /\ arg[r].habit \in HabitIds
      /\ arg[r].day \in Days
      /\ arg[r].day <= Today
      /\ Owns(habits, arg[r].user, arg[r].habit)
      /\ GoDate[habits[arg[r].habit].createdAt] <= arg[r].day
  BY DEF ToggleRemove, ToggleInsert, IInv, RequestsOK, OnDay
<1>4. entries' \subseteq entries \cup {e}
  BY DEF ToggleRemove, ToggleInsert
<1>5. TypeOK'
  <2>1. e \in HabitIds \X Days
    BY <1>3
  <2>2. entries' \subseteq HabitIds \X Days
    BY <1>4, <2>1 DEF IInv, TypeOK
  <2>3. QED
    BY <1>1, <1>2, <2>2, ReturnKeeps DEF IInv, TypeOK
<1>6. RequestsOK'
  BY <1>1, <1>2, ReturnKeeps DEF IInv, RequestsOK, OnDay, Owns
<1>7. LivesOK'
  BY <1>2 DEF IInv, LivesOK
<1>8. EntriesWithinLife'
  <2>1. SUFFICES ASSUME NEW f \in entries'
                 PROVE  /\ habits[f[1]] # NoHabit
                        /\ habits[f[1]].owner \in Users
                        /\ GoDate[habits[f[1]].createdAt] <= f[2]
                        /\ f[2] <= Today
    BY <1>2 DEF EntriesWithinLife
  <2>2. CASE f \in entries
    BY <2>2 DEF IInv, EntriesWithinLife
  <2>3. CASE f = e
    BY <1>3, <2>3 DEF Owns
  <2>4. QED
    BY <1>4, <2>2, <2>3
<1>9. QED
  BY <1>5, <1>6, <1>7, <1>8 DEF IInv

\* The end of a request.
LEMMA EndIInv ==
  ASSUME IInv, NEW r \in Requests, Abort(r) \/ Respond(r)
  PROVE  IInv'
<1>1. CASE Abort(r)
  BY <1>1, ReturnIInv DEF Abort, Results
<1>2. CASE Respond(r)
  <2>1. /\ UNCHANGED <<now, habits, entries, Today>>
        /\ pc' = [pc EXCEPT ![r] = "idle"]
        /\ arg' = [arg EXCEPT ![r] = NoArg]
        /\ result' = [result EXCEPT ![r] = "none"]
    BY <1>2 DEF Respond, Today
  <2>2. NoArg \in Args
    BY DEF NoArg, Args, RawDays, Periods
  <2>3. TypeOK'
    BY <2>1, <2>2 DEF IInv, TypeOK, Results
  <2>4. RequestsOK'
    BY <2>1 DEF IInv, TypeOK, RequestsOK, OnDay, Owns
  <2>5. QED
    BY <2>1, <2>3, <2>4, SameTables DEF IInv
<1>3. QED
  BY <1>1, <1>2

LEMMA NextIInv == IInv /\ [Next]_vars => IInv'
<1> SUFFICES ASSUME IInv, [Next]_vars
             PROVE  IInv'
  OBVIOUS
<1>1. CASE Tick
  BY <1>1, TickIInv
<1>2. ASSUME NEW r \in Requests,
             \/ BeginCreate(r) \/ BeginToggle(r) \/ BeginDelete(r)
             \/ Serve(r) \/ Abort(r)
      PROVE  IInv'
  BY <1>2, BeginIInv, CreateIInv, DeleteIInv, ToggleReadIInv, ToggleWriteIInv,
     EndIInv
     DEF Serve
<1>3. CASE UNCHANGED vars
  <2>1. UNCHANGED <<now, habits, entries, pc, arg, result>>
    BY <1>3 DEF vars
  <2>2. TypeOK' /\ RequestsOK'
    BY <2>1 DEF IInv, TypeOK, RequestsOK, Owns, Today
  <2>3. QED
    BY <2>1, <2>2, SameTables DEF IInv
<1>4. QED
  BY <1>1, <1>2, <1>3 DEF Next

\* The system keeps its invariant.
THEOREM Invariant == Spec => []IInv
BY InitIInv, NextIInv, PTL DEF Spec

-----------------------------------------------------------------------------
(* What follows.                                                           *)

\* Every variable keeps its type: no column of the tables ever holds a value
\* its constraints refuse (001_init.sql, 002_auth.sql).
THEOREM TypeCorrect == Spec => []TypeOK
<1>1. IInv => TypeOK
  BY DEF IInv
<1>2. QED
  BY <1>1, Invariant, PTL

\* An entry lies between its habit's creation date and today, and its habit
\* has an owner, whatever requests ran between Toggle's statements
\* (habit.go:257-289).
THEOREM EntriesAreWithinLife == Spec => []EntriesWithinLife
<1>1. IInv => EntriesWithinLife
  BY DEF IInv
<1>2. QED
  BY <1>1, Invariant, PTL

\* A habit is never deleted as of a date that is in the future in either
\* zone (handler.go:322, habit.go:238).
THEOREM DeletionsAreNotInFuture == Spec => []DeletionsNotInFuture
<1>1. IInv => DeletionsNotInFuture
  <2>1. SUFFICES ASSUME IInv, NEW h \in HabitIds, habits[h] # NoHabit,
                        habits[h].deletedAt # NotDeleted
                 PROVE  /\ PgDate[habits[h].deletedAt] <= Today
                        /\ GoDate[habits[h].deletedAt] <= Today
    BY DEF DeletionsNotInFuture
  <2>2. PICK d \in Days : d <= Today /\ habits[h].deletedAt = PgMidnight[d]
    BY <2>1 DEF IInv, LivesOK
  <2>3. PgDate[PgMidnight[d]] = d /\ GoDate[PgMidnight[d]] \in {d - 1, d}
    BY ZoneAssumption
  <2>4. d \in Int /\ Today \in Int
    BY <2>1, DateType, TodayType DEF IInv, TypeOK
  <2>5. QED
    BY <2>2, <2>3, <2>4
<1>2. QED
  BY <1>1, Invariant, PTL

\* When time.Local is the session's zone or ahead of it, a habit and day
\* that Toggle accepts is a row List returns (handler.go:280-304).
THEOREM TogglableIsAlwaysListed ==
  ASSUME \A i \in Instants : PgDate[i] <= GoDate[i]
  PROVE  Spec => []TogglableIsListed
<1>1. IInv => TogglableIsListed
  <2>1. SUFFICES ASSUME IInv, NEW u \in Users, NEW h \in HabitIds, NEW d \in Days,
                        Owns(habits, u, h), ActiveOn(habits[h], d)
                 PROVE  ListedOn(habits, entries, u, h, d)
    BY DEF TogglableIsListed
  <2>2. /\ habits[h].createdAt \in Instants
        /\ habits[h].deletedAt \in Instants \cup {NotDeleted}
    BY <2>1, RowType DEF IInv, TypeOK, Owns
  <2>3. PgDate[habits[h].createdAt] <= d
    BY <2>1, <2>2, DateType DEF ActiveOn
  <2>4. NotYetDeleted(habits[h], d)
    <3>1. SUFFICES ASSUME habits[h].deletedAt # NotDeleted
                   PROVE  d < PgDate[habits[h].deletedAt]
      BY DEF NotYetDeleted
    <3>2. PICK dd \in Days : habits[h].deletedAt = PgMidnight[dd]
      BY <2>1, <3>1 DEF IInv, LivesOK, Owns
    <3>3. PgDate[PgMidnight[dd]] = dd /\ GoDate[PgMidnight[dd]] \in {dd - 1, dd}
      BY ZoneAssumption
    <3>4. d < GoDate[PgMidnight[dd]]
      BY <2>1, <3>1, <3>2 DEF ActiveOn
    <3>5. QED
      BY <3>2, <3>3, <3>4, DateType
  <2>5. QED
    BY <2>1, <2>3, <2>4 DEF ListedOn
<1>2. QED
  BY <1>1, Invariant, PTL

\* As long as the user has deleted no habit, AllDone is what model.go:43 says
\* (habit.go:176-192): the habits with an entry are then among the active
\* ones, and there are as many of them only when they are all.
THEOREM AllDoneIsTrueUntilDeletion ==
  ASSUME IsFiniteSet(HabitIds), \A i \in Instants : PgDate[i] <= GoDate[i]
  PROVE  Spec => []AllDoneMeansAllUntilDeletion
<1>1. IInv => AllDoneMeansAllUntilDeletion
  <2> SUFFICES ASSUME IInv, NEW u \in Users, NEW d \in Days,
                      \A h \in HabitIds :
                        Owns(habits, u, h) => habits[h].deletedAt = NotDeleted,
                      DaySummary(habits, entries, u, d).allDone
               PROVE  \A h \in ActiveHabits(habits, u, d) : <<h, d>> \in entries
    BY DEF AllDoneMeansAllUntilDeletion
  <2> DEFINE active == ActiveHabits(habits, u, d)
             marked == EntryHabits(habits, entries, u, d)
  <2>1. Cardinality(marked) >= Cardinality(active)
    BY DEF DaySummary
  <2>2. marked \subseteq active
    <3>1. SUFFICES ASSUME NEW h \in marked PROVE h \in active
      OBVIOUS
    <3>2. h \in HabitIds /\ Owns(habits, u, h) /\ <<h, d>> \in entries
      BY <3>1 DEF EntryHabits
    <3>3. GoDate[habits[h].createdAt] <= d
      BY <3>2 DEF IInv, EntriesWithinLife
    <3>4. habits[h].createdAt \in Instants
      BY <3>2, RowType DEF IInv, TypeOK, Owns
    <3>5. PgDate[habits[h].createdAt] <= d
      BY <3>3, <3>4, DateType
    <3>6. QED
      BY <3>2, <3>5 DEF ActiveHabits, NotYetDeleted
  <2>3. IsFiniteSet(active)
    BY FS_Subset DEF ActiveHabits
  <2>4. IsFiniteSet(marked) /\ Cardinality(marked) <= Cardinality(active)
    BY <2>2, <2>3, FS_Subset
  <2>5. Cardinality(marked) = Cardinality(active)
    <3>1. Cardinality(marked) \in Nat /\ Cardinality(active) \in Nat
      BY <2>3, <2>4, FS_CardinalityType
    <3>2. QED
      BY <2>1, <2>4, <3>1
  <2>6. marked = active
    BY <2>2, <2>3, <2>5, FS_Subset
  <2>7. QED
    BY <2>6 DEF EntryHabits
<1>2. QED
  BY <1>1, Invariant, PTL

\* When both processes run in one time zone, List in SQL and Toggle in Go
\* agree on the days a habit is active on (habit.go:103-107, 268-273): an
\* entry, which alone would keep a habit listed, is never older than it.
THEOREM ListAgreesWithToggle ==
  ASSUME GoDate = PgDate
  PROVE  Spec => []ListedIffTogglable
<1>1. IInv => ListedIffTogglable
  <2>1. SUFFICES ASSUME IInv, NEW u \in Users, NEW h \in HabitIds, NEW d \in Days
                 PROVE  ListedOn(habits, entries, u, h, d)
                          <=> Owns(habits, u, h) /\ ActiveOn(habits[h], d)
    BY DEF ListedIffTogglable
  <2>2. ASSUME Owns(habits, u, h)
        PROVE  (\E e \in entries : e[1] = h /\ e[2] <= d)
                 => GoDate[habits[h].createdAt] <= d
    <3>1. SUFFICES ASSUME NEW e \in entries, e[1] = h, e[2] <= d
                   PROVE  GoDate[habits[h].createdAt] <= d
      OBVIOUS
    <3>2. habits[h].createdAt \in Instants /\ e[2] \in Days
      BY <2>1, <2>2, <3>1, RowType DEF IInv, TypeOK, Owns
    <3>3. GoDate[habits[h].createdAt] <= e[2]
      BY <2>1, <3>1 DEF IInv, EntriesWithinLife
    <3>4. QED
      BY <3>1, <3>2, <3>3, DateType
  <2>3. QED
    BY <2>2 DEF ListedOn, ActiveOn, NotYetDeleted
<1>2. QED
  BY <1>1, Invariant, PTL

-----------------------------------------------------------------------------
(* What a step may not do.                                                 *)

\* A statement of a request is the step that ends it, or changes no table.
LEMMA WhoWrites ==
  ASSUME IInv, [Next]_vars, <<habits, entries>>' # <<habits, entries>>
  PROVE  \E r \in Requests :
           CreateHabit(r) \/ SoftDelete(r) \/ ToggleRemove(r) \/ ToggleInsert(r)
BY DEF Next, vars, Tick, BeginCreate, BeginToggle, BeginDelete, Begin, Serve, ToggleLoad,
       ToggleCheck, Goto, Respond, Abort

\* What is stored about a habit changes only in a statement of a request of
\* the user who owns it, although Toggle's writes name no user
\* (habit.go:285, 289).
THEOREM OnlyOwnersWrite == Spec => OwnerOnly
<1> DEFINE Changed(h) ==
      \/ habits'[h] # habits[h]
      \/ \E d \in Days : <<h, d>> \in entries' <=> <<h, d>> \notin entries
<1>1. ASSUME IInv, [Next]_vars, NEW h \in HabitIds, Changed(h)
      PROVE  \E r \in Requests : /\ pc[r] \in Statements
                                  /\ pc'[r] = "returned"
                                  /\ arg[r].user = habits'[h].owner
  <2>1. <<habits, entries>>' # <<habits, entries>>
    BY <1>1
  <2>2. PICK r \in Requests :
          CreateHabit(r) \/ SoftDelete(r) \/ ToggleRemove(r) \/ ToggleInsert(r)
    BY <1>1, <2>1, WhoWrites
  <2>3. pc[r] \in Statements
    BY <2>2 DEF CreateHabit, SoftDelete, ToggleRemove, ToggleInsert, Statements
  <2>4. pc'[r] = "returned"
    <3>1. PICK res : Return(r, res)
      BY <2>2 DEF CreateHabit, SoftDelete, ToggleRemove, ToggleInsert
    <3>2. QED
      BY <1>1, <3>1 DEF Return, IInv, TypeOK
  <2>5. arg[r].user = habits'[h].owner
    <3>1. CASE CreateHabit(r)
      <4>1. entries' = entries /\ habits'[h] # habits[h]
        BY <1>1, <3>1 DEF CreateHabit
      <4>2. PICK k \in HabitIds :
              habits' = [habits EXCEPT ![k] =
                [owner     |-> arg[r].user,
                 target    |-> arg[r].target,
                 period    |-> arg[r].period,
                 createdAt |-> now,
                 deletedAt |-> NotDeleted]]
        BY <3>1, <4>1 DEF CreateHabit
      <4>3. QED
        BY <1>1, <4>1, <4>2 DEF IInv, TypeOK
    <3>2. CASE SoftDelete(r)
      <4>1. PICK k \in HabitIds :
              /\ k = arg[r].habit
              /\ Owns(habits, arg[r].user, k)
              /\ habits' = [habits EXCEPT ![k].deletedAt = PgMidnight[arg[r].day]]
        BY <1>1, <3>2 DEF SoftDelete, IInv, RequestsOK, OnDay
      <4>2. h = k
        BY <1>1, <3>2, <4>1 DEF SoftDelete, IInv, TypeOK
      <4>3. habits[k] \in HabitRow /\ habits[k].owner = arg[r].user
        BY <1>1, <4>1, RowType DEF IInv, TypeOK, Owns
      <4>4. habits'[k].owner = habits[k].owner
        BY <1>1, <4>1, <4>3 DEF IInv, TypeOK, HabitRow
      <4>5. QED
        BY <4>2, <4>3, <4>4
    <3>3. CASE ToggleRemove(r) \/ ToggleInsert(r)
      <4>1. /\ habits' = habits
            /\ entries' \subseteq entries \cup {<<arg[r].habit, arg[r].day>>}
            /\ entries \subseteq entries' \cup {<<arg[r].habit, arg[r].day>>}
            /\ pc[r] \in {"insert", "remove"}
        BY <3>3 DEF ToggleRemove, ToggleInsert
      <4>2. h = arg[r].habit
        BY <1>1, <4>1
      <4>3. QED
        BY <1>1, <4>1, <4>2 DEF IInv, RequestsOK, Owns
    <3>4. QED
      BY <2>2, <3>1, <3>2, <3>3
  <2>6. QED
    BY <2>3, <2>4, <2>5
<1>2. IInv /\ [Next]_vars =>
        [\A h \in HabitIds :
           Changed(h) => \E r \in Requests : /\ pc[r] \in Statements
                                              /\ pc'[r] = "returned"
                                              /\ arg[r].user = habits'[h].owner]_vars
  BY <1>1
<1>3. QED
  BY <1>2, Invariant, PTL DEF Spec, OwnerOnly

\* A successful Delete excludes the habit from its date onwards and leaves
\* every earlier day of its history as visible as it was (habit.go:234-235).
THEOREM DeleteKeepsHistory == Spec => DeleteSplitsHistory
<1> DEFINE Split(r) ==
      pc[r] = "delete" /\ result'[r] = "ok" =>
        \A d \in Days :
          LET listed  == ListedOn(habits, entries, arg[r].user,
                                  arg[r].habit, d)
              listed2 == ListedOn(habits', entries', arg[r].user,
                                  arg[r].habit, d)
          IN  IF d < arg[r].day THEN listed => listed2 ELSE ~listed2
<1>1. ASSUME IInv, [Next]_vars, NEW r \in Requests,
             pc[r] = "delete", result'[r] = "ok", NEW d \in Days
      PROVE  LET listed  == ListedOn(habits, entries, arg[r].user,
                                     arg[r].habit, d)
                 listed2 == ListedOn(habits', entries', arg[r].user,
                                     arg[r].habit, d)
             IN  IF d < arg[r].day THEN listed => listed2 ELSE ~listed2
  <2>1. result[r] = "none"
    BY <1>1 DEF IInv, RequestsOK
  <2>2. SoftDelete(r)
    <3>1. PICK q \in Requests :
            \/ BeginCreate(q) \/ BeginToggle(q) \/ BeginDelete(q)
            \/ Serve(q) \/ Abort(q)
      BY <1>1, <2>1 DEF Next, vars, Tick
    <3>2. ~BeginCreate(q) /\ ~BeginToggle(q) /\ ~BeginDelete(q)
      BY <1>1, <2>1 DEF BeginCreate, BeginToggle, BeginDelete, Begin
    <3>3. \E res : result' = [result EXCEPT ![q] = res]
      <4>1. CASE ToggleLoad(q) \/ ToggleCheck(q)
        BY <1>1, <2>1, <4>1 DEF ToggleLoad, ToggleCheck, Goto, Return
      <4>2. CASE CreateHabit(q) \/ SoftDelete(q)
        BY <4>2 DEF CreateHabit, SoftDelete, Return
      <4>3. CASE ToggleRemove(q) \/ ToggleInsert(q)
        BY <4>3 DEF ToggleRemove, ToggleInsert, Return
      <4>4. CASE Abort(q) \/ Respond(q)
        BY <4>4 DEF Abort, Respond, Return
      <4>5. QED
        BY <3>1, <3>2, <4>1, <4>2, <4>3, <4>4 DEF Serve
    <3>4. q = r
      BY <1>1, <2>1, <3>3 DEF IInv, TypeOK
    <3>5. ~Abort(q)
      BY <1>1, <3>4 DEF Abort, Return, IInv, TypeOK
    <3>6. QED
      BY <1>1, <3>1, <3>2, <3>4, <3>5 DEF Serve, CreateHabit, ToggleLoad,
         ToggleCheck, ToggleRemove, ToggleInsert, Respond
  <2>3. PICK h \in HabitIds, dd \in Days :
          /\ h = arg[r].habit /\ dd = arg[r].day
          /\ Owns(habits, arg[r].user, h)
          /\ habits' = [habits EXCEPT ![h].deletedAt = PgMidnight[dd]]
          /\ entries' = entries
    BY <1>1, <2>2 DEF SoftDelete, Return, IInv, TypeOK, RequestsOK, OnDay
  <2>4. /\ habits[h] \in HabitRow
        /\ habits'[h] = [habits[h] EXCEPT !.deletedAt = PgMidnight[dd]]
    BY <1>1, <2>3, RowType DEF IInv, TypeOK, Owns
  <2>5. /\ habits'[h].deletedAt = PgMidnight[dd]
        /\ habits'[h].createdAt = habits[h].createdAt
        /\ habits'[h].owner = habits[h].owner
    BY <2>4 DEF HabitRow
  <2>6. /\ PgMidnight[dd] # NotDeleted
        /\ PgDate[PgMidnight[dd]] = dd
    BY NullAssumption, ZoneAssumption
  <2>7. NotYetDeleted(habits'[h], d) <=> d < dd
    BY <2>5, <2>6 DEF NotYetDeleted
  <2>8. habits'[h] # NoHabit
    <3>1. PgMidnight[dd] \in Instants
      BY DateType
    <3>2. habits'[h] \in HabitRow
      BY <2>4, <3>1 DEF HabitRow
    <3>3. QED
      BY <3>2, NullAssumption
  <2>9. d < dd /\ ListedOn(habits, entries, arg[r].user, h, d)
          => ListedOn(habits', entries', arg[r].user, h, d)
    <3>1. SUFFICES ASSUME d < dd, ListedOn(habits, entries, arg[r].user, h, d)
                   PROVE  ListedOn(habits', entries', arg[r].user, h, d)
      OBVIOUS
    <3>2. Owns(habits', arg[r].user, h)
      BY <2>3, <2>5, <2>8 DEF Owns
    <3>3. QED
      BY <2>3, <2>5, <2>7, <3>1, <3>2 DEF ListedOn
  <2>10. ~(d < dd) => ~ListedOn(habits', entries', arg[r].user, h, d)
    BY <2>7 DEF ListedOn
  <2>11. QED
    BY <2>3, <2>9, <2>10
<1>2. IInv /\ [Next]_vars => [\A r \in Requests : Split(r)]_vars
  BY <1>1
<1>3. QED
  BY <1>2, Invariant, PTL DEF Spec, DeleteSplitsHistory

=============================================================================
