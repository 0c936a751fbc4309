-------------------------- MODULE HabitServiceLedger --------------------------
(***************************************************************************)
(* HabitService implements HabitLedger.  A habit's first day is its        *)
(* creation date as Toggle computes it, its last is the date Delete was    *)
(* asked for, as the database reads it back.                               *)
(***************************************************************************)
EXTENDS HabitService

LifeOf(row) ==
  IF row = NoHabit
  THEN NoHabit
  ELSE [owner |-> row.owner,
        first |-> GoDate[row.createdAt],
        end   |-> IF row.deletedAt = NotDeleted
                  THEN NotDeleted ELSE PgDate[row.deletedAt]]

\* The life of a habit is not the absence of one.
ASSUME LifeAssumption == \A row \in HabitRow : LifeOf(row) # NoHabit

LifeOfHabits == [h \in HabitIds |-> LifeOf(habits[h])]

Marks == [h \in HabitIds |-> {d \in Days : <<h, d>> \in entries}]

Ledger == INSTANCE HabitLedger WITH
  Dates    <- Days,
  Nobody   <- NoUser,
  Unborn   <- NoHabit,
  Forever  <- NotDeleted,
  OpenOnly <- FALSE,
  today    <- Today,
  life     <- LifeOfHabits,
  marks    <- Marks

StrictLedger == INSTANCE HabitLedger WITH
  Dates    <- Days,
  Nobody   <- NoUser,
  Unborn   <- NoHabit,
  Forever  <- NotDeleted,
  OpenOnly <- TRUE,
  today    <- Today,
  life     <- LifeOfHabits,
  marks    <- Marks

\* Whatever requests run at once and however they fail, the tables go
\* through the states of a ledger whose operations are atomic: no statement
\* does more than one operation of the ledger, and none does an operation
\* its user was not entitled to when it ran (habit.go:221-291).
ImplementsLedger == Ledger!Spec

\* When one request runs at a time, marks change only within the life of
\* the habit, as Toggle's tests of created_at and deleted_at intend
\* (habit.go:268-273).
ImplementsStrictLedger == StrictLedger!Spec

=============================================================================
