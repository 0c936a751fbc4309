-------------------------- MODULE HabitLedgerProofs ---------------------------
(***************************************************************************)
(* HabitService implements HabitLedger: with any number of requests as far *)
(* as atomicity, ownership and dates are concerned, and with one request   *)
(* at a time as far as the end of a habit's life is concerned too.         *)
(***************************************************************************)
EXTENDS HabitServiceProofs

\* The life of a habit, field by field.
LEMMA LifeFacts ==
  ASSUME TypeOK, NEW h \in HabitIds
  PROVE  /\ habits[h] = NoHabit <=> LifeOfHabits[h] = NoHabit
         /\ habits[h] # NoHabit =>
              /\ LifeOfHabits[h].owner = habits[h].owner
              /\ LifeOfHabits[h].first = GoDate[habits[h].createdAt]
              /\ LifeOfHabits[h].end =
                   IF habits[h].deletedAt = NotDeleted
                   THEN NotDeleted ELSE PgDate[habits[h].deletedAt]
BY LifeAssumption DEF LifeOfHabits, LifeOf, TypeOK

\* The marks of a habit.
LEMMA MarkFacts ==
  ASSUME NEW h \in HabitIds, NEW d \in Days
  PROVE  d \in Marks[h] <=> <<h, d>> \in entries
BY DEF Marks

\* A step that writes no table and stays on the same date is a stutter.
LEMMA TablesFixLedger ==
  ASSUME UNCHANGED <<habits, entries>>
  PROVE  LifeOfHabits' = LifeOfHabits /\ Marks' = Marks
BY DEF LifeOfHabits, Marks

LEMMA InitLedger == Init => Ledger!Init
<1> SUFFICES ASSUME Init PROVE Ledger!Init
  OBVIOUS
<1>1. TypeOK
  BY InitIInv DEF IInv
<1>2. Today \in Days
  BY <1>1, TodayType DEF TypeOK
<1>3. ASSUME NEW h \in HabitIds
      PROVE  \/ LifeOfHabits[h] = NoHabit
             \/ /\ LifeOfHabits[h].owner = NoUser
                /\ LifeOfHabits[h].first <= Today
                /\ LifeOfHabits[h].end = NotDeleted
  <2>1. CASE habits[h] = NoHabit
    BY <1>1, <2>1, LifeFacts
  <2>2. CASE habits[h] \in LegacyRows
    <3>1. PICK t \in Instants :
            /\ t <= now
            /\ habits[h] = [owner     |-> NoUser,
                            target    |-> 1,
                            period    |-> "day",
                            createdAt |-> t,
                            deletedAt |-> NotDeleted]
      BY <2>2 DEF LegacyRows
    <3>2. GoDate[t] <= Today
      BY <1>1, <3>1, TodayType, ZoneAssumption DEF TypeOK, Today
    <3>3. habits[h] # NoHabit \/ LifeOfHabits[h] = NoHabit
      BY <1>1, LifeFacts
    <3>4. QED
      BY <1>1, <3>1, <3>2, <3>3, LifeFacts
  <2>3. QED
    BY <2>1, <2>2 DEF Init
<1>4. Marks = [h \in HabitIds |-> {}]
  BY DEF Init, Marks
<1>5. QED
  BY <1>2, <1>3, <1>4 DEF Ledger!Init

LEMMA TickLedger ==
  ASSUME IInv, Tick
  PROVE  Ledger!NewDay \/ UNCHANGED Ledger!vars
<1>1. LifeOfHabits' = LifeOfHabits /\ Marks' = Marks
  BY TablesFixLedger DEF Tick
<1>2. Today \in Int /\ Today' \in Int /\ Today <= Today'
  BY ZoneAssumption DEF Tick, IInv, TypeOK, Today
<1>3. QED
  BY <1>1, <1>2 DEF Ledger!NewDay, Ledger!vars

LEMMA CreateLedger ==
  ASSUME IInv, NEW r \in Requests, CreateHabit(r)
  PROVE  \/ \E u \in Users, h \in HabitIds : Ledger!Register(u, h)
         \/ UNCHANGED Ledger!vars
<1> DEFINE row == [owner     |-> arg[r].user,
                   target    |-> arg[r].target,
                   period    |-> arg[r].period,
                   createdAt |-> now,
                   deletedAt |-> NotDeleted]
<1>1. now' = now /\ Today' = Today
  BY DEF CreateHabit, Return, Today
<1>2. CASE UNCHANGED <<habits, entries>>
  BY <1>1, <1>2, TablesFixLedger DEF Ledger!vars
<1>3. CASE /\ arg[r].target <= MaxInt4
           /\ \E h \in {h \in HabitIds : habits[h] = NoHabit} :
                habits' = [habits EXCEPT ![h] = row]
           /\ UNCHANGED entries
  <2>1. PICK h \in HabitIds : /\ habits[h] = NoHabit
                              /\ habits' = [habits EXCEPT ![h] = row]
    BY <1>3
  <2>2. arg[r].user \in Users
    BY DEF CreateHabit, IInv, RequestsOK
  <2>3. row \in HabitRow
    <3>1. arg[r] \in Args /\ arg[r].target # 0
      BY DEF CreateHabit, IInv, TypeOK, RequestsOK
    <3>2. QED
      BY <1>3, <2>2, <3>1, TodayType, NullAssumption
         DEF HabitRow, Args, IInv, TypeOK
  <2>4. row # NoHabit
    BY <2>3, NullAssumption
  <2>5. LifeOf(row) = [owner |-> arg[r].user,
                       first |-> Today,
                       end   |-> NotDeleted]
    BY <2>4 DEF LifeOf, Today
  <2>6. LifeOfHabits' = [LifeOfHabits EXCEPT ![h] = LifeOf(row)]
    BY <2>1 DEF LifeOfHabits, IInv, TypeOK
  <2>7. Marks' = Marks
    BY <1>3 DEF Marks
  <2>8. LifeOfHabits[h] = NoHabit
    BY <2>1, LifeFacts DEF IInv
  <2>9. Ledger!Register(arg[r].user, h)
    BY <1>1, <2>5, <2>6, <2>7, <2>8 DEF Ledger!Register
  <2>10. QED
    BY <2>2, <2>9
<1>4. QED
  BY <1>2, <1>3 DEF CreateHabit

LEMMA DeleteLedger ==
  ASSUME IInv, NEW r \in Requests, SoftDelete(r)
  PROVE  \/ \E u \in Users, h \in HabitIds, d \in Days : Ledger!Close(u, h, d)
         \/ UNCHANGED Ledger!vars
<1>1. now' = now /\ Today' = Today
  BY DEF SoftDelete, Return, Today
<1>2. CASE UNCHANGED <<habits, entries>>
  BY <1>1, <1>2, TablesFixLedger DEF Ledger!vars
<1>3. CASE /\ Owns(habits, arg[r].user, arg[r].habit)
           /\ habits' = [habits EXCEPT
                ![arg[r].habit].deletedAt = PgMidnight[arg[r].day]]
           /\ UNCHANGED entries
  <2>1. PICK u \in Users, h \in HabitIds, d \in Days :
          /\ u = arg[r].user /\ h = arg[r].habit /\ d = arg[r].day
          /\ d <= Today
          /\ Owns(habits, u, h)
          /\ habits' = [habits EXCEPT ![h].deletedAt = PgMidnight[d]]
    BY <1>3 DEF SoftDelete, IInv, RequestsOK, OnDay
  <2> DEFINE row == [habits[h] EXCEPT !.deletedAt = PgMidnight[d]]
  <2>2. /\ habits[h] \in HabitRow
        /\ PgMidnight[d] \in Instants
        /\ PgMidnight[d] # NotDeleted
        /\ PgDate[PgMidnight[d]] = d
    BY <2>1, RowType, NullAssumption, ZoneAssumption DEF IInv, TypeOK, Owns
  <2>3. /\ row \in HabitRow
        /\ row.owner = habits[h].owner
        /\ row.createdAt = habits[h].createdAt
        /\ row.deletedAt = PgMidnight[d]
    BY <2>2 DEF HabitRow
  <2>4. habits' = [habits EXCEPT ![h] = row]
    BY <2>1
  <2>5. row # NoHabit /\ habits[h] # NoHabit
    BY <2>2, <2>3, NullAssumption
  <2> HIDE DEF row
  <2>6. LifeOf(row) = [LifeOf(habits[h]) EXCEPT !.end = d]
    BY <2>2, <2>3, <2>5 DEF LifeOf
  <2>7. LifeOfHabits' = [LifeOfHabits EXCEPT ![h].end = d]
    <3>1. LifeOfHabits' = [LifeOfHabits EXCEPT ![h] = LifeOf(row)]
      BY <2>4 DEF LifeOfHabits, IInv, TypeOK
    <3>2. LifeOfHabits[h] = LifeOf(habits[h])
      BY DEF LifeOfHabits
    <3>3. QED
      BY <2>6, <3>1, <3>2
  <2>8. Marks' = Marks
    BY <1>3 DEF Marks
  <2>9. LifeOfHabits[h] # NoHabit /\ LifeOfHabits[h].owner = u
    BY <2>1, <2>5, LifeFacts DEF IInv, Owns
  <2>10. QED
    BY <1>1, <2>1, <2>7, <2>8, <2>9 DEF Ledger!Close
<1>4. QED
  BY <1>2, <1>3 DEF SoftDelete

\* The marks after one of Toggle's writes.
LEMMA ToggleWriteMarks ==
  ASSUME IInv, NEW r \in Requests, ToggleRemove(r) \/ ToggleInsert(r)
  PROVE  LET h == arg[r].habit
             d == arg[r].day
         IN  \/ Marks' = Marks
             \/ d \in Marks[h] /\ Marks' = [Marks EXCEPT ![h] = @ \ {d}]
             \/ d \notin Marks[h] /\ Marks' = [Marks EXCEPT ![h] = @ \cup {d}]
<1>1. PICK h \in HabitIds, d \in Days : h = arg[r].habit /\ d = arg[r].day
  BY DEF ToggleRemove, ToggleInsert, IInv, RequestsOK, OnDay
<1>2. CASE <<h, d>> \in entries /\ entries' = entries \ {<<h, d>>}
  <2>1. \A k \in HabitIds :
          Marks'[k] = IF k = h THEN Marks[k] \ {d} ELSE Marks[k]
    BY <1>2 DEF Marks
  <2>2. Marks' = [Marks EXCEPT ![h] = @ \ {d}]
    BY <2>1 DEF Marks
  <2>3. QED
    BY <1>1, <1>2, <2>2, MarkFacts
<1>3. CASE <<h, d>> \notin entries /\ entries' = entries \cup {<<h, d>>}
  <2>1. \A k \in HabitIds :
          Marks'[k] = IF k = h THEN Marks[k] \cup {d} ELSE Marks[k]
    BY <1>3 DEF Marks
  <2>2. Marks' = [Marks EXCEPT ![h] = @ \cup {d}]
    BY <2>1 DEF Marks
  <2>3. QED
    BY <1>1, <1>3, <2>2, MarkFacts
<1>4. CASE entries' = entries
  BY <1>4 DEF Marks
<1>5. QED
  <2>1. CASE ToggleRemove(r)
    BY <1>1, <1>2, <1>4, <2>1 DEF ToggleRemove
  <2>2. CASE ToggleInsert(r)
    BY <1>1, <1>3, <1>4, <2>2 DEF ToggleInsert
  <2>3. QED
    BY <2>1, <2>2

\* What a request may mark when it comes to Toggle's writes.
LEMMA ToggleWriteAllowed ==
  ASSUME IInv, NEW r \in Requests, ToggleRemove(r) \/ ToggleInsert(r)
  PROVE  /\ arg[r].user \in Users
         /\ arg[r].habit \in HabitIds
         /\ arg[r].day \in Days
         /\ LifeOfHabits[arg[r].habit] # NoHabit
         /\ LifeOfHabits[arg[r].habit].owner = arg[r].user
         /\ arg[r].day \in LifeOfHabits[arg[r].habit].first .. Today
         /\ LifeOfHabits' = LifeOfHabits
         /\ Today' = Today
<1>1. /\ arg[r].user \in Users
      /\ arg[r].habit \in HabitIds
      /\ arg[r].day \in Days
      /\ arg[r].day <= Today
      /\ Owns(habits, arg[r].user, arg[r].habit)
      /\ GoDate[habits[arg[r].habit].createdAt] <= arg[r].day
  BY DEF ToggleRemove, ToggleInsert, IInv, RequestsOK, OnDay
<1>2. habits[arg[r].habit].createdAt \in Instants
  BY <1>1, RowType DEF IInv, TypeOK, Owns
<1>3. UNCHANGED <<now, habits>>
  BY DEF ToggleRemove, ToggleInsert, Return
<1>4. LifeOfHabits' = LifeOfHabits /\ Today' = Today
  BY <1>3 DEF LifeOfHabits, Today
<1>5. /\ LifeOfHabits[arg[r].habit] # NoHabit
      /\ LifeOfHabits[arg[r].habit].owner = arg[r].user
      /\ LifeOfHabits[arg[r].habit].first
           = GoDate[habits[arg[r].habit].createdAt]
  BY <1>1, LifeFacts DEF IInv, Owns
<1>6. QED
  BY <1>1, <1>2, <1>4, <1>5, DateType, TodayType DEF IInv, TypeOK

LEMMA ToggleLedger ==
  ASSUME IInv, NEW r \in Requests, ToggleRemove(r) \/ ToggleInsert(r)
  PROVE  \/ \E u \in Users, h \in HabitIds, d \in Days :
              Ledger!Mark(u, h, d) \/ Ledger!Unmark(u, h, d)
         \/ UNCHANGED Ledger!vars
BY ToggleWriteMarks, ToggleWriteAllowed
   DEF Ledger!Mark, Ledger!Unmark, Ledger!MayMark, Ledger!vars

\* Every step is a write of Toggle, another operation of the ledger, or a
\* stutter.
LEMMA StepOfLedger ==
  ASSUME IInv, [Next]_vars
  PROVE  \/ \E r \in Requests : ToggleRemove(r) \/ ToggleInsert(r)
         \/ Ledger!NewDay
         \/ \E u \in Users, h \in HabitIds : Ledger!Register(u, h)
         \/ \E u \in Users, h \in HabitIds, d \in Days : Ledger!Close(u, h, d)
         \/ UNCHANGED Ledger!vars
<1>1. CASE UNCHANGED <<now, habits, entries>>
  BY <1>1, TablesFixLedger DEF Ledger!vars, Today
<1>2. ASSUME NEW r \in Requests,
             \/ BeginCreate(r) \/ BeginToggle(r) \/ BeginDelete(r)
             \/ ToggleLoad(r) \/ ToggleCheck(r) \/ Abort(r) \/ Respond(r)
      PROVE  UNCHANGED <<now, habits, entries>>
  BY <1>2 DEF BeginCreate, BeginToggle, BeginDelete, Begin, ToggleLoad, ToggleCheck, Goto,
     Return, Abort, Respond
<1>3. CASE UNCHANGED vars
  BY <1>1, <1>3 DEF vars
<1>4. QED
  BY <1>1, <1>2, <1>3, TickLedger, CreateLedger, DeleteLedger DEF Next, Serve

LEMMA NextLedger == IInv /\ [Next]_vars => [Ledger!Next]_(Ledger!vars)
BY StepOfLedger, ToggleLedger DEF Ledger!Next

\* Whatever requests run at once and however they fail, every statement is
\* at most one operation of the ledger, and one its user was entitled to
\* (habit.go:221-291).
THEOREM LedgerIsImplemented == Spec => ImplementsLedger
BY InitLedger, NextLedger, Invariant, PTL
   DEF Spec, ImplementsLedger, Ledger!Spec

-----------------------------------------------------------------------------
(* One request at a time.                                                  *)

\* What Toggle read is still so when it writes, as nobody else has written.
FreshReads ==
  \A r \in Requests :
    /\ pc[r] \in {"check", "insert", "remove"} =>
         ActiveOn(habits[arg[r].habit], arg[r].day)
    /\ pc[r] = "insert" => <<arg[r].habit, arg[r].day>> \notin entries
    /\ pc[r] = "remove" => <<arg[r].habit, arg[r].day>> \in entries

LEMMA NextFresh ==
  ASSUME \A q, r \in Requests : q = r, IInv, FreshReads, [Next]_vars
  PROVE  FreshReads'
<1>1. CASE Tick \/ UNCHANGED vars
  BY <1>1 DEF Tick, vars, FreshReads, ActiveOn
<1>2. ASSUME NEW r \in Requests,
             \/ BeginCreate(r) \/ BeginToggle(r) \/ BeginDelete(r)
             \/ Serve(r) \/ Abort(r)
      PROVE  FreshReads'
  <2>1. \A q \in Requests : q = r
    OBVIOUS
  <2>2. CASE BeginCreate(r) \/ BeginToggle(r) \/ BeginDelete(r)
    BY <2>1, <2>2 DEF BeginCreate, BeginToggle, BeginDelete, Begin, FreshReads, IInv, TypeOK
  <2>3. CASE ToggleLoad(r)
    BY <2>1, <2>3 DEF ToggleLoad, Goto, Return, FreshReads, ActiveOn, IInv,
       TypeOK
  <2>4. CASE ToggleCheck(r)
    BY <2>1, <2>4 DEF ToggleCheck, Goto, FreshReads, ActiveOn, IInv, TypeOK
  <2>5. CASE \E res \in Results : Return(r, res)
    BY <2>1, <2>5 DEF Return, FreshReads, IInv, TypeOK
  <2>6. CASE Respond(r)
    BY <2>1, <2>6 DEF Respond, FreshReads, IInv, TypeOK
  <2>7. QED
    BY <1>2, <2>2, <2>3, <2>4, <2>5, <2>6
       DEF Serve, CreateHabit, SoftDelete, ToggleRemove, ToggleInsert, Abort,
           Results
<1>3. QED
  BY <1>1, <1>2 DEF Next

LEMMA FreshInvariant ==
  ASSUME \A q, r \in Requests : q = r
  PROVE  Spec => [](IInv /\ FreshReads)
<1>1. Init => FreshReads
  BY DEF Init, FreshReads
<1>2. IInv /\ FreshReads /\ [Next]_vars => FreshReads'
  BY NextFresh
<1>3. QED
  BY <1>1, <1>2, InitIInv, NextIInv, PTL DEF Spec

\* With one request at a time, an entry that Toggle reports as created or
\* removed was created or removed by it (habit.go:249-250).
THEOREM SequentialToggleReports ==
  ASSUME \A q, r \in Requests : q = r
  PROVE  Spec => ToggleReportsItsEffect
<1>1. ASSUME IInv, FreshReads, [Next]_vars, NEW r \in Requests,
             pc[r] \in {"insert", "remove"},
             result'[r] \in {"added", "removed"}
      PROVE  entries' # entries
  <2>1. result[r] = "none"
    BY <1>1 DEF IInv, RequestsOK
  <2>2. ToggleRemove(r) \/ ToggleInsert(r)
    BY <1>1, <2>1 DEF Next, vars, Tick, BeginCreate, BeginToggle, BeginDelete, Begin, Serve,
       CreateHabit, SoftDelete, ToggleLoad, ToggleCheck, Goto, Return,
       Abort, Respond, IInv, TypeOK
  <2>3. /\ pc[r] = "insert" => <<arg[r].habit, arg[r].day>> \notin entries
        /\ pc[r] = "remove" => <<arg[r].habit, arg[r].day>> \in entries
    BY <1>1 DEF FreshReads
  <2>4. CASE ToggleRemove(r)
    BY <2>3, <2>4 DEF ToggleRemove
  <2>5. CASE ToggleInsert(r)
    BY <1>1, <2>3, <2>5 DEF ToggleInsert, Return, IInv, TypeOK
  <2>6. QED
    BY <2>2, <2>4, <2>5
<1>2. IInv /\ FreshReads /\ [Next]_vars =>
        [\A r \in Requests :
           pc[r] \in {"insert", "remove"} /\ result'[r] \in {"added", "removed"}
             => entries' # entries]_vars
  BY <1>1
<1>3. QED
  BY <1>2, FreshInvariant, PTL DEF Spec, ToggleReportsItsEffect

\* With one request at a time, Toggle adds entries only on days on which the
\* habit is active when it writes (habit_toggle_test.go:29-33).
THEOREM SequentialAddsOnActiveDays ==
  ASSUME \A q, r \in Requests : q = r
  PROVE  Spec => AddsOnActiveDaysOnly
<1>1. FreshReads =>
        [\A r \in Requests :
           pc[r] = "insert" /\ result'[r] = "added" =>
             ActiveOn(habits[arg[r].habit], arg[r].day)]_vars
  BY DEF FreshReads
<1>2. QED
  BY <1>1, FreshInvariant, PTL DEF Spec, AddsOnActiveDaysOnly

\* With one request at a time, the marks of a habit change only within its
\* life (habit.go:268-273).
THEOREM StrictLedgerIsImplemented ==
  ASSUME \A q, r \in Requests : q = r
  PROVE  Spec => ImplementsStrictLedger
<1>1. Init => StrictLedger!Init
  BY InitLedger DEF Ledger!Init, StrictLedger!Init
<1>2. ASSUME IInv, FreshReads, [Next]_vars
      PROVE  StrictLedger!Next \/ UNCHANGED StrictLedger!vars
  <2>1. CASE UNCHANGED Ledger!vars
    BY <2>1 DEF Ledger!vars, StrictLedger!vars
  <2>2. CASE Ledger!NewDay
    BY <2>2 DEF Ledger!NewDay, StrictLedger!NewDay, StrictLedger!Next
  <2>3. ASSUME NEW u \in Users, NEW h \in HabitIds, Ledger!Register(u, h)
        PROVE  StrictLedger!Next
    BY <2>3 DEF Ledger!Register, StrictLedger!Register, StrictLedger!Next
  <2>4. ASSUME NEW u \in Users, NEW h \in HabitIds, NEW d \in Days,
               Ledger!Close(u, h, d)
        PROVE  StrictLedger!Next
    BY <2>4 DEF Ledger!Close, StrictLedger!Close, StrictLedger!Next
  <2>5. ASSUME NEW r \in Requests, ToggleRemove(r) \/ ToggleInsert(r)
        PROVE  StrictLedger!Next \/ UNCHANGED StrictLedger!vars
    <3>1. ActiveOn(habits[arg[r].habit], arg[r].day)
      BY <1>2, <2>5 DEF FreshReads, ToggleRemove, ToggleInsert
    <3>2. PICK u \in Users, h \in HabitIds, d \in Days :
            u = arg[r].user /\ h = arg[r].habit /\ d = arg[r].day
      BY <1>2, <2>5, ToggleWriteAllowed
    <3>3. LifeOfHabits[h].end # NotDeleted => d < LifeOfHabits[h].end
      <4>1. SUFFICES ASSUME LifeOfHabits[h].end # NotDeleted
                     PROVE  d < LifeOfHabits[h].end
        OBVIOUS
      <4>2. habits[h] # NoHabit
        BY <1>2, <2>5, <3>2, ToggleWriteAllowed, LifeFacts DEF IInv
      <4>3. /\ habits[h].deletedAt # NotDeleted
            /\ LifeOfHabits[h].end = PgDate[habits[h].deletedAt]
        BY <1>2, <4>1, <4>2, LifeFacts DEF IInv
      <4>4. PICK dd \in Days : habits[h].deletedAt = PgMidnight[dd]
        BY <1>2, <4>2, <4>3 DEF IInv, LivesOK
      <4>5. /\ PgDate[PgMidnight[dd]] = dd
            /\ GoDate[PgMidnight[dd]] \in {dd - 1, dd}
            /\ d \in Int /\ dd \in Int
        BY ZoneAssumption
      <4>6. d < GoDate[PgMidnight[dd]]
        BY <3>1, <3>2, <4>3, <4>4 DEF ActiveOn
      <4>7. QED
        BY <4>3, <4>4, <4>5, <4>6
    <3>4. StrictLedger!MayMark(u, h, d)
      BY <1>2, <2>5, <3>2, <3>3, ToggleWriteAllowed DEF StrictLedger!MayMark
    <3>5. \/ UNCHANGED StrictLedger!vars
          \/ StrictLedger!Mark(u, h, d)
          \/ StrictLedger!Unmark(u, h, d)
      BY <1>2, <2>5, <3>2, <3>4, ToggleWriteMarks, ToggleWriteAllowed
         DEF StrictLedger!Mark, StrictLedger!Unmark, StrictLedger!vars
    <3>6. QED
      BY <3>5 DEF StrictLedger!Next
  <2>6. \/ \E r \in Requests : ToggleRemove(r) \/ ToggleInsert(r)
        \/ Ledger!NewDay
        \/ \E u \in Users, h \in HabitIds : Ledger!Register(u, h)
        \/ \E u \in Users, h \in HabitIds, d \in Days : Ledger!Close(u, h, d)
        \/ UNCHANGED Ledger!vars
    BY <1>2, StepOfLedger
  <2>7. QED
    BY <2>1, <2>2, <2>3, <2>4, <2>5, <2>6
<1>3. IInv /\ FreshReads /\ [Next]_vars => [StrictLedger!Next]_(StrictLedger!vars)
  BY <1>2
<1>4. QED
  BY <1>1, <1>3, FreshInvariant, PTL
     DEF Spec, ImplementsStrictLedger, StrictLedger!Spec

=============================================================================
