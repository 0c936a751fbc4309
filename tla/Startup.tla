-------------------------------- MODULE Startup --------------------------------
(***************************************************************************)
(* Processes that start: connect, ping, migrate, serve; whatever fails on  *)
(* the way ends the process, and the deployment starts another.  An update *)
(* or a restart has several start at once.                                 *)
(*                                                                         *)
(* goose is external: it reads the version of the last row of its table,   *)
(* runs the next migration in a transaction that also adds its row, and    *)
(* reads again.  It takes no lock.  Its table is version 0 here.           *)
(*                                                                         *)
(* PostgreSQL is external: two transactions that create one table wait for *)
(* each other, and the second fails if the first commits, IF NOT EXISTS or *)
(* not.  Indexes are left out, and down migrations, which nothing runs.    *)
(***************************************************************************)
EXTENDS Integers, Sequences

CONSTANTS
  Procs,
  MaxFaults    \* bound: kills of a process and stops of the database

VARIABLES
  at,          \* what each process does
  next,        \* the version it migrates to
  pos,         \* the statement of that migration it has come to
  made,        \* what its transaction has created
  schema,      \* the tables and columns that are committed
  version,     \* the last row of goose's table
  db,          \* "up" or "down"
  faults

vars == <<at, next, pos, made, schema, version, db, faults>>

ASSUME StartupAssumption == MaxFaults \in Nat

\* The last migration.
Last == 2

Versions == 0 .. Last

\* No table of versions yet.
NoVersion == -1

\* What the statements of a migration create.
Created ==
  [v \in Versions |->
     CASE v = 0 -> <<"goose_db_version">>
       [] v = 1 -> <<"habits", "entries">>
       [] v = 2 -> <<"users", "sessions", "habits.user_id">>]

All(v) == {Created[v][i] : i \in 1 .. Len(Created[v])}

Objects == UNION {All(v) : v \in Versions}

\* The tables and columns the services and handlers name in their SQL.
Queried == All(1) \cup All(2)

\* Faulty variant: the column is added without IF NOT EXISTS.
IfNotExistsTables == {"habits", "entries", "users", "sessions"}

\* What is created only if it does not exist.
IfNotExists == {"habits", "entries", "users", "sessions", "habits.user_id"}

-----------------------------------------------------------------------------

\* log.Fatalf: an open transaction is rolled back.
Exit(p) ==
  /\ at' = [at EXCEPT ![p] = "stopped"]
  /\ made' = [made EXCEPT ![p] = {}]
  /\ UNCHANGED <<next, pos, schema, version>>

Become(p, state) == at' = [at EXCEPT ![p] = state]

\* The deployment keeps a process running.
Start(p) ==
  /\ at[p] = "stopped"
  /\ Become(p, "connecting")
  /\ UNCHANGED <<next, pos, made, schema, version, db, faults>>

Connect(p) ==
  /\ at[p] = "connecting"
  /\ \/ /\ db = "up"
        /\ Become(p, "reading")
        /\ UNCHANGED <<next, pos, made, schema, version>>
     \/ db = "down" /\ Exit(p)
  /\ UNCHANGED <<db, faults>>

\* Faulty variant: one more after the last.
PendingPast == version <= Last

\* A migration has not been applied.
Pending == version < Last

ReadPending(p) ==
  /\ Pending
  /\ Become(p, "running")
  /\ next' = [next EXCEPT ![p] = version + 1]
  /\ pos' = [pos EXCEPT ![p] = 1]
  /\ UNCHANGED <<made, schema, version>>

\* Faulty variant: a process that cannot migrate serves all the same.
ReadVersionUnchecked(p) ==
  /\ at[p] = "reading"
  /\ \/ db = "up" /\ ReadPending(p)
     \/ /\ db = "down" \/ ~Pending
        /\ Become(p, "serving")
        /\ UNCHANGED <<next, pos, made, schema, version>>
  /\ UNCHANGED <<db, faults>>

\* With no migration left the process serves.
ReadVersion(p) ==
  /\ at[p] = "reading"
  /\ \/ db = "up" /\ ReadPending(p)
     \/ /\ db = "up" /\ ~Pending
        /\ Become(p, "serving")
        /\ UNCHANGED <<next, pos, made, schema, version>>
     \/ db = "down" /\ Exit(p)
  /\ UNCHANGED <<db, faults>>

\* The object the next statement creates.
Object(p) == Created[next[p]][pos[p]]

HasStatement(p) == at[p] \in {"running", "waiting"} /\ pos[p] <= Len(Created[next[p]])

\* Another transaction, not committed, has created it.
Held(p) == \E q \in Procs \ {p} : Object(p) \in made[q]

Visible(p) == schema \cup made[p]

\* A statement of a migration.
Run(p) ==
  /\ at[p] = "running" /\ HasStatement(p)
  /\ \/ /\ Object(p) \in Visible(p) /\ Object(p) \in IfNotExists
        /\ pos' = [pos EXCEPT ![p] = @ + 1]
        /\ UNCHANGED <<at, next, made, schema, version>>
     \/ Object(p) \in Visible(p) /\ Object(p) \notin IfNotExists /\ Exit(p)
     \/ /\ Object(p) \notin Visible(p) /\ Held(p)
        /\ Become(p, "waiting")
        /\ UNCHANGED <<next, pos, made, schema, version>>
     \/ /\ Object(p) \notin Visible(p) /\ ~Held(p)
        /\ made' = [made EXCEPT ![p] = @ \cup {Object(p)}]
        /\ pos' = [pos EXCEPT ![p] = @ + 1]
        /\ UNCHANGED <<at, next, schema, version>>
  /\ UNCHANGED <<db, faults>>

\* The transaction it waited for has ended.
Resume(p) ==
  /\ at[p] = "waiting" /\ ~Held(p)
  /\ \/ Object(p) \in schema /\ Exit(p)
     \/ /\ Object(p) \notin schema
        /\ Become(p, "running")
        /\ UNCHANGED <<next, pos, made, schema, version>>
  /\ UNCHANGED <<db, faults>>

\* Faulty variant: the version's row is committed before the statements run.
CommitFirst(p) ==
  /\ at[p] = "running" /\ pos[p] = 1
  /\ version' = next[p]
  /\ UNCHANGED <<at, next, pos, made, schema, db, faults>>

\* Faulty variant: each statement is committed by itself.
CommitEach(p) ==
  /\ at[p] = "running" /\ (made[p] # {} \/ ~HasStatement(p))
  /\ schema' = schema \cup made[p]
  /\ made' = [made EXCEPT ![p] = {}]
  /\ \/ HasStatement(p) /\ UNCHANGED <<at, version>>
     \/ ~HasStatement(p) /\ version' = next[p] /\ Become(p, "reading")
  /\ UNCHANGED <<next, pos, db, faults>>

\* The tables and the version's row become visible together.
Commit(p) ==
  /\ at[p] = "running" /\ ~HasStatement(p)
  /\ schema' = schema \cup made[p]
  /\ version' = next[p]
  /\ made' = [made EXCEPT ![p] = {}]
  /\ Become(p, "reading")
  /\ UNCHANGED <<next, pos, db, faults>>

\* ListenAndServe: a process that has started sends queries to the tables.
Serve(p) ==
  /\ at[p] = "serving"
  /\ UNCHANGED vars

\* A crash, or the end of a process that is replaced.
Kill(p) ==
  /\ faults < MaxFaults /\ faults' = faults + 1
  /\ at[p] # "stopped"
  /\ Exit(p)
  /\ UNCHANGED db

\* A transaction that is open fails, and its process with it; the pool of a
\* process that serves connects anew.
StopDB ==
  /\ faults < MaxFaults /\ faults' = faults + 1
  /\ db = "up" /\ db' = "down"
  /\ at' = [p \in Procs |-> IF at[p] \in {"running", "waiting"} THEN "stopped" ELSE at[p]]
  /\ made' = [p \in Procs |-> {}]
  /\ UNCHANGED <<next, pos, schema, version>>

StartDB ==
  /\ db = "down" /\ db' = "up"
  /\ UNCHANGED <<at, next, pos, made, schema, version, faults>>

\* A database that is new, or that an older program has migrated so far.
Init ==
  /\ at = [p \in Procs |-> "stopped"]
  /\ next = [p \in Procs |-> 0]
  /\ pos = [p \in Procs |-> 1]
  /\ made = [p \in Procs |-> {}]
  /\ version \in {NoVersion} \cup Versions
  /\ schema = UNION {All(v) : v \in 0 .. version}
  /\ db \in {"up", "down"}
  /\ faults = 0

Step(p) ==
  Start(p) \/ Connect(p) \/ ReadVersion(p) \/ Run(p) \/ Resume(p) \/ Commit(p)

Next ==
  \/ \E p \in Procs : Step(p) \/ Serve(p) \/ Kill(p)
  \/ StopDB \/ StartDB

Spec == Init /\ [][Next]_vars

\* The deployment restarts what has ended, the scheduler runs every process,
\* and a database that is down comes back.
Fairness == WF_vars(StartDB) /\ \A p \in Procs : WF_vars(Step(p))

FairSpec == Spec /\ Fairness

-----------------------------------------------------------------------------

TypeOK ==
  /\ at \in [Procs -> {"stopped", "connecting", "reading", "running",
                       "waiting", "serving"}]
  /\ next \in [Procs -> Versions]
  /\ pos \in [Procs -> 1 .. 4]
  /\ made \in [Procs -> SUBSET Objects]
  /\ schema \in SUBSET Objects
  /\ version \in {NoVersion} \cup Versions
  /\ db \in {"up", "down"}
  /\ faults \in 0 .. MaxFaults

\* What goose's table says is there, is there: after a crash at any point of
\* a migration, and after a process that read an old version has put its row
\* behind a newer one (connect.go:35-47).
VersionIsTrue == \A v \in 0 .. version : All(v) \subseteq schema

\* A process that serves finds all it queries, also while others start
\* (main.go:24-33).
ServingFindsItsTables ==
  \A p \in Procs : at[p] = "serving" => Queried \subseteq schema

\* Migrations take effect whole, in their order, and are never undone,
\* however many processes run them (connect.go:42-44).
MigrationsAreWhole ==
  [][schema' # schema =>
       \E v \in Versions :
         /\ schema' = schema \cup All(v)
         /\ \A u \in 0 .. v - 1 : All(u) \subseteq schema]_vars

\* Once nothing fails any more every process serves: a start that loses
\* against another one, or finds the last row to be an old one, succeeds
\* when it is repeated (main.go:19-26, 001_init.sql, 002_auth.sql).
EveryProcessServes == <>[](\A p \in Procs : at[p] = "serving")

-----------------------------------------------------------------------------

Abstract == INSTANCE Schema WITH
  Clients <- Procs,
  Creates <- [v \in Versions |-> All(v)],
  clients <- {p \in Procs : at[p] = "serving"}

\* However many processes start together, fall over each other's statements,
\* are killed or cut off, whoever uses the database sees it rise one whole
\* version at a time, and no process serves before it has the last one
\* (connect.go:35-47, main.go:19-33).
ImplementsSchema == Abstract!Spec

=============================================================================
