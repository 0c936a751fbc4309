----------------------------- MODULE StartupProofs -----------------------------
(***************************************************************************)
(* A process that serves finds its tables, for any number of processes     *)
(* that start, and any number of faults.                                   *)
(***************************************************************************)
EXTENDS Startup, TLAPS

\* In the transaction of a migration.
Migrating(p) == at[p] \in {"running", "waiting"}

\* What a process knows of the migrations before its own, which never goes
\* away, and what its transaction has come to.
ProcOK(p) ==
  /\ at[p] = "serving" => Queried \subseteq schema
  /\ ~Migrating(p) => made[p] = {}
  /\ Migrating(p) =>
       /\ \A v \in 0 .. next[p] - 1 : All(v) \subseteq schema
       /\ made[p] \subseteq All(next[p])
       /\ \A i \in 1 .. Len(Created[next[p]]) :
            i < pos[p] => Created[next[p]][i] \in Visible(p)
       /\ pos[p] <= Len(Created[next[p]]) + 1
       /\ at[p] = "waiting" => pos[p] <= Len(Created[next[p]])

IInv == TypeOK /\ VersionIsTrue /\ \A p \in Procs : ProcOK(p)

-----------------------------------------------------------------------------

\* The statements of the migrations.
LEMMA CreatedType ==
  ASSUME NEW v \in Versions
  PROVE  /\ Len(Created[v]) \in 1 .. 3
         /\ \A o : o \in All(v) <=> \E i \in 1 .. Len(Created[v]) : o = Created[v][i]
         /\ All(v) \subseteq Objects
<1>1. \A w \in Versions : w = 0 \/ w = 1 \/ w = 2
  BY DEF Versions, Last
<1>2. /\ Created[0] = <<"goose_db_version">>
      /\ Created[1] = <<"habits", "entries">>
      /\ Created[2] = <<"users", "sessions", "habits.user_id">>
  BY DEF Created, Versions, Last
<1>3. Len(Created[0]) = 1 /\ Len(Created[1]) = 2 /\ Len(Created[2]) = 3
  BY <1>2
<1>4. QED
  BY <1>1, <1>3 DEF All, Objects

LEMMA QueriedIsCreated ==
  ASSUME VersionIsTrue, version = Last
  PROVE  Queried \subseteq schema
<1>1. 1 \in 0 .. version /\ 2 \in 0 .. version
  BY DEF Last
<1>2. QED
  BY <1>1 DEF VersionIsTrue, Queried

\* A process that stays where it is is as it was, while nothing is undone.
LEMMA ProcKept ==
  ASSUME NEW p \in Procs, ProcOK(p), schema \subseteq schema',
         at'[p] = at[p], next'[p] = next[p], pos'[p] = pos[p], made'[p] = made[p]
  PROVE  ProcOK(p)'
BY DEF ProcOK, Migrating, Visible

\* A process outside of a transaction.
LEMMA ProcOutside ==
  ASSUME NEW p \in Procs, at'[p] \in {"stopped", "connecting", "reading"}, made'[p] = {}
  PROVE  ProcOK(p)'
BY DEF ProcOK, Migrating

LEMMA ExitStep ==
  ASSUME IInv, NEW p \in Procs, Exit(p), db' \in {"up", "down"}, faults' \in 0 .. MaxFaults
  PROVE  IInv'
<1>1. TypeOK'
  BY DEF Exit, IInv, TypeOK
<1>2. VersionIsTrue'
  BY DEF Exit, IInv, VersionIsTrue
<1>3. ASSUME NEW q \in Procs PROVE ProcOK(q)'
  <2>1. CASE q = p
    BY <2>1, ProcOutside DEF Exit, IInv, TypeOK
  <2>2. CASE q # p
    BY <2>2, ProcKept DEF Exit, IInv, TypeOK
  <2>3. QED
    BY <2>1, <2>2
<1>4. QED
  BY <1>1, <1>2, <1>3 DEF IInv

\* One process moves, and nothing is committed.
LEMMA MoveStep ==
  ASSUME IInv, NEW p \in Procs, UNCHANGED <<schema, version, db, faults>>,
         TypeOK', ProcOK(p)',
         \A q \in Procs \ {p} : /\ at'[q] = at[q] /\ next'[q] = next[q]
                                /\ pos'[q] = pos[q] /\ made'[q] = made[q]
  PROVE  IInv'
<1>1. VersionIsTrue'
  BY DEF IInv, VersionIsTrue
<1>2. ASSUME NEW q \in Procs PROVE ProcOK(q)'
  BY ProcKept DEF IInv
<1>3. QED
  BY <1>1, <1>2 DEF IInv

LEMMA BeginStep ==
  ASSUME IInv, NEW p \in Procs, Start(p) \/ Connect(p)
  PROVE  IInv'
<1>1. CASE db = "down" /\ Connect(p)
  BY <1>1, ExitStep DEF Connect, IInv, TypeOK
<1>2. CASE Start(p) \/ (db = "up" /\ Connect(p))
  <2>1. PICK state \in {"connecting", "reading"} : Become(p, state)
    BY <1>2 DEF Start, Connect
  <2>2. UNCHANGED <<next, pos, made, schema, version, db, faults>>
    BY <1>2 DEF Start, Connect
  <2>5. made[p] = {}
    BY <1>2 DEF Start, Connect, IInv, ProcOK, Migrating
  <2>3. /\ TypeOK' /\ at'[p] \in {"stopped", "connecting", "reading"}
        /\ made'[p] = {}
    BY <2>1, <2>2, <2>5 DEF Become, IInv, TypeOK
  <2>4. QED
    BY <2>1, <2>2, <2>3, ProcOutside, MoveStep DEF Become, IInv, TypeOK
<1>3. QED
  BY <1>1, <1>2 DEF Connect

LEMMA ReadStep ==
  ASSUME IInv, NEW p \in Procs, ReadVersion(p)
  PROVE  IInv'
<1>1. CASE Exit(p)
  BY <1>1, ExitStep DEF ReadVersion, IInv, TypeOK
<1>2. CASE ReadPending(p)
  <2>1. /\ at' = [at EXCEPT ![p] = "running"] /\ next' = [next EXCEPT ![p] = version + 1]
        /\ pos' = [pos EXCEPT ![p] = 1]
        /\ UNCHANGED <<made, schema, version, db, faults>>
    BY <1>2 DEF ReadPending, Become, ReadVersion
  <2>2. version + 1 \in Versions /\ version \in Int
    BY <1>2 DEF ReadPending, Pending, Versions, NoVersion, Last, IInv, TypeOK
  <2>3. TypeOK'
    BY <2>1, <2>2 DEF IInv, TypeOK
  <2>4. /\ at'[p] = "running" /\ next'[p] = version + 1 /\ pos'[p] = 1
        /\ made'[p] = made[p]
    BY <2>1 DEF IInv, TypeOK
  <2>5. made[p] = {}
    BY DEF ReadVersion, IInv, ProcOK, Migrating
  <2>6. ProcOK(p)'
    <3>1. \A v \in 0 .. next'[p] - 1 : All(v) \subseteq schema'
      BY <2>1, <2>2, <2>4 DEF IInv, VersionIsTrue
    <3>2. Len(Created[next'[p]]) \in 1 .. 3
      BY <2>2, <2>4, CreatedType
    <3>3. QED
      BY <2>4, <2>5, <3>1, <3>2 DEF ProcOK, Migrating
  <2>7. QED
    BY <2>1, <2>3, <2>6, MoveStep DEF IInv, TypeOK
<1>3. CASE ~Pending /\ Become(p, "serving") /\ UNCHANGED <<next, pos, made, schema, version>>
  <2>1. /\ at' = [at EXCEPT ![p] = "serving"]
        /\ UNCHANGED <<next, pos, made, schema, version, db, faults>>
    BY <1>3 DEF Become, ReadVersion
  <2>2. version = Last
    BY <1>3 DEF Pending, Last, Versions, NoVersion, IInv, TypeOK
  <2>3. TypeOK' /\ at'[p] = "serving"
    BY <2>1 DEF IInv, TypeOK
  <2>4. ProcOK(p)'
    <3>1. Queried \subseteq schema /\ made[p] = {}
      BY <2>2, QueriedIsCreated DEF ReadVersion, IInv, ProcOK, Migrating
    <3>2. QED
      BY <2>1, <2>3, <3>1 DEF ProcOK, Migrating
  <2>5. QED
    BY <2>1, <2>3, <2>4, MoveStep DEF IInv, TypeOK
<1>4. QED
  BY <1>1, <1>2, <1>3 DEF ReadVersion

LEMMA RunStep ==
  ASSUME IInv, NEW p \in Procs, Run(p)
  PROVE  IInv'
<1> DEFINE v == next[p]
           o == Object(p)
<1>1. /\ at[p] = "running" /\ pos[p] \in 1 .. Len(Created[v]) /\ v \in Versions
      /\ Len(Created[v]) \in 1 .. 3 /\ UNCHANGED <<db, faults>>
      /\ o = Created[v][pos[p]] /\ o \in All(v) /\ o \in Objects
  BY CreatedType DEF Run, HasStatement, Object, IInv, TypeOK
<1>2. /\ \A u \in 0 .. v - 1 : All(u) \subseteq schema
      /\ made[p] \subseteq All(v)
      /\ \A i \in 1 .. Len(Created[v]) : i < pos[p] => Created[v][i] \in Visible(p)
  BY <1>1 DEF IInv, ProcOK, Migrating
<1>3. CASE Exit(p)
  BY <1>1, <1>3, ExitStep DEF IInv, TypeOK
<1>4. CASE /\ pos' = [pos EXCEPT ![p] = @ + 1]
           /\ \/ o \in Visible(p) /\ UNCHANGED made
              \/ made' = [made EXCEPT ![p] = @ \cup {o}]
           /\ UNCHANGED <<at, next, schema, version>>
  <2>1. TypeOK'
    BY <1>1, <1>4 DEF IInv, TypeOK
  <2>2. /\ at'[p] = "running" /\ next'[p] = v /\ pos'[p] = pos[p] + 1
        /\ made[p] \subseteq made'[p] /\ made'[p] \subseteq made[p] \cup {o}
        /\ o \in schema \cup made'[p]
    BY <1>1, <1>4 DEF Visible, IInv, TypeOK
  <2>3. ProcOK(p)'
    <3>1. \A i \in 1 .. Len(Created[v]) : i < pos'[p] => Created[v][i] \in schema \cup made'[p]
      BY <1>1, <1>2, <2>2 DEF Visible
    <3>2. pos'[p] <= Len(Created[v]) + 1
      BY <1>1, <2>2
    <3>3. made'[p] \subseteq All(v) /\ \A u \in 0 .. v - 1 : All(u) \subseteq schema'
      BY <1>1, <1>2, <1>4, <2>2
    <3>4. QED
      BY <1>4, <2>2, <3>1, <3>2, <3>3 DEF ProcOK, Migrating, Visible
  <2>4. QED
    BY <1>1, <1>4, <2>1, <2>3, MoveStep DEF IInv, TypeOK
<1>5. CASE Become(p, "waiting") /\ UNCHANGED <<next, pos, made, schema, version>>
  <2>1. at' = [at EXCEPT ![p] = "waiting"]
    BY <1>5 DEF Become
  <2>2. TypeOK' /\ at'[p] = "waiting"
    BY <1>1, <1>5, <2>1 DEF IInv, TypeOK
  <2>3. ProcOK(p)'
    BY <1>1, <1>2, <1>5, <2>2 DEF ProcOK, Migrating, Visible
  <2>4. QED
    BY <1>1, <1>5, <2>1, <2>2, <2>3, MoveStep DEF IInv, TypeOK
<1>6. QED
  BY <1>3, <1>4, <1>5 DEF Run

LEMMA ResumeStep ==
  ASSUME IInv, NEW p \in Procs, Resume(p)
  PROVE  IInv'
<1>1. CASE Exit(p)
  BY <1>1, ExitStep DEF Resume, IInv, TypeOK
<1>2. CASE Become(p, "running") /\ UNCHANGED <<next, pos, made, schema, version>>
  <2>1. at' = [at EXCEPT ![p] = "running"] /\ UNCHANGED <<db, faults>> /\ at[p] = "waiting"
    BY <1>2 DEF Become, Resume
  <2>2. TypeOK' /\ at'[p] = "running"
    BY <1>2, <2>1 DEF IInv, TypeOK
  <2>3. ProcOK(p)'
    BY <1>2, <2>1, <2>2 DEF IInv, ProcOK, Migrating, Visible
  <2>4. QED
    BY <1>2, <2>1, <2>2, <2>3, MoveStep DEF IInv, TypeOK
<1>3. QED
  BY <1>1, <1>2 DEF Resume

\* A transaction that commits has its whole migration, on top of the ones
\* before.
LEMMA CommitWhole ==
  ASSUME IInv, NEW p \in Procs, Commit(p)
  PROVE  /\ next[p] \in Versions
         /\ schema' = schema \cup All(next[p])
         /\ \A v \in 0 .. next[p] : All(v) \subseteq schema'
<1> DEFINE v == next[p]
<1>1. at[p] = "running" /\ v \in Versions /\ Len(Created[v]) < pos[p] /\ pos[p] \in Int
  BY CreatedType DEF Commit, HasStatement, IInv, TypeOK
<1>2. /\ \A u \in 0 .. v - 1 : All(u) \subseteq schema
      /\ made[p] \subseteq All(v)
      /\ \A i \in 1 .. Len(Created[v]) : i < pos[p] => Created[v][i] \in Visible(p)
  BY <1>1 DEF IInv, ProcOK, Migrating
<1>3. schema' = schema \cup made[p]
  BY DEF Commit
<1>4. All(v) \subseteq schema \cup made[p]
  BY <1>1, <1>2, CreatedType DEF Visible
<1>5. schema' = schema \cup All(v)
  BY <1>2, <1>3, <1>4
<1>6. \A u \in 0 .. v : u \in 0 .. v - 1 \/ u = v
  BY <1>1 DEF Versions, Last
<1>7. QED
  BY <1>1, <1>2, <1>5, <1>6

LEMMA CommitStep ==
  ASSUME IInv, NEW p \in Procs, Commit(p)
  PROVE  IInv'
<1>1. /\ next[p] \in Versions /\ schema' = schema \cup All(next[p])
      /\ \A v \in 0 .. next[p] : All(v) \subseteq schema'
  BY CommitWhole
<1>2. /\ version' = next[p] /\ made' = [made EXCEPT ![p] = {}]
      /\ at' = [at EXCEPT ![p] = "reading"] /\ UNCHANGED <<next, pos, db, faults>>
  BY DEF Commit, Become
<1>3. TypeOK'
  BY <1>1, <1>2, CreatedType DEF IInv, TypeOK
<1>4. VersionIsTrue'
  BY <1>1, <1>2 DEF VersionIsTrue
<1>5. ASSUME NEW q \in Procs PROVE ProcOK(q)'
  <2>1. CASE q = p
    BY <1>2, <2>1, ProcOutside DEF IInv, TypeOK
  <2>2. CASE q # p
    BY <1>1, <1>2, <2>2, ProcKept DEF IInv, TypeOK
  <2>3. QED
    BY <2>1, <2>2
<1>6. QED
  BY <1>3, <1>4, <1>5 DEF IInv

LEMMA StopDBStep ==
  ASSUME IInv, StopDB
  PROVE  IInv'
<1>1. /\ UNCHANGED <<next, pos, schema, version>> /\ db' = "down" /\ faults' = faults + 1
      /\ faults < MaxFaults
      /\ at' = [p \in Procs |-> IF at[p] \in {"running", "waiting"} THEN "stopped" ELSE at[p]]
      /\ made' = [p \in Procs |-> {}]
  BY DEF StopDB
<1>2. TypeOK'
  BY <1>1, StartupAssumption DEF IInv, TypeOK
<1>3. VersionIsTrue'
  BY <1>1 DEF IInv, VersionIsTrue
<1>4. ASSUME NEW p \in Procs PROVE ProcOK(p)'
  BY <1>1 DEF IInv, ProcOK, Migrating
<1>5. QED
  BY <1>2, <1>3, <1>4 DEF IInv

LEMMA InitStep ==
  ASSUME Init
  PROVE  IInv
<1>1. schema \in SUBSET Objects
  <2>1. \A v \in 0 .. version : v \in Versions
    BY DEF Init, Versions, Last, NoVersion
  <2>2. QED
    BY <2>1, CreatedType DEF Init
<1>2. TypeOK
  BY <1>1, StartupAssumption DEF Init, TypeOK, Versions, Last
<1>3. VersionIsTrue
  BY DEF Init, VersionIsTrue
<1>4. \A p \in Procs : ProcOK(p)
  BY DEF Init, ProcOK, Migrating
<1>5. QED
  BY <1>2, <1>3, <1>4 DEF IInv

LEMMA NextStep ==
  ASSUME IInv, [Next]_vars
  PROVE  IInv'
<1>1. ASSUME NEW p \in Procs, Start(p) \/ Connect(p) PROVE IInv'
  BY <1>1, BeginStep
<1>2. ASSUME NEW p \in Procs, ReadVersion(p) PROVE IInv'
  BY <1>2, ReadStep
<1>3. ASSUME NEW p \in Procs, Run(p) PROVE IInv'
  BY <1>3, RunStep
<1>4. ASSUME NEW p \in Procs, Resume(p) PROVE IInv'
  BY <1>4, ResumeStep
<1>5. ASSUME NEW p \in Procs, Commit(p) PROVE IInv'
  BY <1>5, CommitStep
<1>6. ASSUME NEW p \in Procs, Kill(p) PROVE IInv'
  <2>1. db' \in {"up", "down"} /\ faults' \in 0 .. MaxFaults
    BY <1>6, StartupAssumption DEF Kill, IInv, TypeOK
  <2>2. QED
    BY <1>6, <2>1, ExitStep DEF Kill
<1>7. CASE StopDB
  BY <1>7, StopDBStep
<1>8. CASE StartDB
  BY <1>8 DEF StartDB, IInv, TypeOK, VersionIsTrue, ProcOK, Migrating, Visible
<1>9. CASE UNCHANGED vars
  BY <1>9 DEF vars, IInv, TypeOK, VersionIsTrue, ProcOK, Migrating, Visible
<1>10. QED
  BY <1>1, <1>2, <1>3, <1>4, <1>5, <1>6, <1>7, <1>8, <1>9 DEF Next, Step, Serve

\* The invariant the theorems below are read from: a migration under way has
\* everything before it, and all it has come past, committed or its own.
THEOREM StartupInvariant == Spec => []IInv
<1>1. Init => IInv
  BY InitStep
<1>2. IInv /\ [Next]_vars => IInv'
  BY NextStep
<1>3. QED
  BY <1>1, <1>2, PTL DEF Spec

\* Types (connect.go, main.go).
THEOREM StartupTypeCorrect == Spec => []TypeOK
<1>1. IInv => TypeOK
  BY DEF IInv
<1>2. QED
  BY <1>1, StartupInvariant, PTL

\* goose's table never claims what is not there (connect.go:35-47).
THEOREM VersionAlwaysTrue == Spec => []VersionIsTrue
<1>1. IInv => VersionIsTrue
  BY DEF IInv
<1>2. QED
  BY <1>1, StartupInvariant, PTL

\* A process that serves finds what it queries (main.go:24-33).
THEOREM ServingAlwaysFindsTables == Spec => []ServingFindsItsTables
<1>1. IInv => ServingFindsItsTables
  BY DEF IInv, ProcOK, ServingFindsItsTables
<1>2. QED
  BY <1>1, StartupInvariant, PTL

\* Migrations take effect whole and in their order (connect.go:42-44).
THEOREM MigrationsAlwaysWhole == Spec => MigrationsAreWhole
<1> DEFINE whole == schema' # schema =>
             \E v \in Versions :
               /\ schema' = schema \cup All(v)
               /\ \A u \in 0 .. v - 1 : All(u) \subseteq schema
<1>1. ASSUME IInv, Next PROVE whole
  <2>1. ASSUME NEW p \in Procs, Commit(p) PROVE whole
    <3>1. next[p] \in Versions /\ schema' = schema \cup All(next[p])
      BY <1>1, <2>1, CommitWhole
    <3>2. \A u \in 0 .. next[p] - 1 : All(u) \subseteq schema
      BY <1>1, <2>1 DEF Commit, IInv, ProcOK, Migrating
    <3>3. QED
      BY <3>1, <3>2
  <2>2. CASE schema' = schema
    BY <2>2
  <2>3. QED
    BY <1>1, <2>1, <2>2 DEF Next, Step, Start, Connect, ReadVersion, ReadPending,
       Run, Resume, Serve, Kill, StopDB, StartDB, Exit, vars
<1>2. ASSUME IInv, [Next]_vars PROVE [whole]_vars
  BY <1>1, <1>2
<1>3. QED
  BY <1>2, StartupInvariant, PTL DEF Spec, MigrationsAreWhole

-----------------------------------------------------------------------------
(* The refinement of Schema.                                               *)

\* The schema is that of one version.
AtVersion == \E k \in -1 .. Last : schema = Abstract!At(k)

LEMMA AtMembers ==
  ASSUME NEW k \in -1 .. Last
  PROVE  \A o : o \in Abstract!At(k) <=> \E u \in 0 .. k : o \in All(u)
<1>1. \A u \in 0 .. k : u \in Versions
  BY DEF Versions, Last
<1>2. \A u \in 0 .. k : [v \in Versions |-> All(v)][u] = All(u)
  BY <1>1
<1>3. QED
  BY <1>2 DEF Abstract!At

\* A commit raises the schema by one version, or another process has been
\* there before.
LEMMA CommitMigrates ==
  ASSUME IInv, AtVersion, NEW p \in Procs, Commit(p)
  PROVE  \/ schema' = schema
         \/ \E v \in 0 .. Last : schema = Abstract!At(v - 1) /\ schema' = Abstract!At(v)
<1> DEFINE v == next[p]
<1>1. /\ v \in 0 .. Last
      /\ schema' = schema \cup All(v)
  BY CommitWhole DEF Versions
<1>2. \A u \in 0 .. v - 1 : All(u) \subseteq schema
  BY DEF Commit, IInv, ProcOK, Migrating
<1>3. PICK k \in -1 .. Last : schema = Abstract!At(k)
  BY DEF AtVersion
<1>4. v - 1 \in -1 .. Last
  BY <1>1 DEF Last
<1>5. CASE v <= k
  <2>1. v \in 0 .. k
    BY <1>1, <1>3, <1>5 DEF Last
  <2>2. All(v) \subseteq schema
    BY <1>3, <2>1, AtMembers
  <2>3. QED
    BY <1>1, <2>2
<1>6. CASE ~(v <= k)
  <2>1. \A u \in 0 .. k : u \in 0 .. v - 1
    BY <1>1, <1>3, <1>6 DEF Last
  <2>2. schema = Abstract!At(v - 1)
    <3>1. \A o : o \in schema <=> \E u \in 0 .. k : o \in All(u)
      BY <1>3, AtMembers
    <3>2. \A o : o \in Abstract!At(v - 1) <=> \E u \in 0 .. v - 1 : o \in All(u)
      BY <1>4, AtMembers
    <3>3. \A o : o \in schema <=> o \in Abstract!At(v - 1)
      BY <1>2, <2>1, <3>1, <3>2
    <3>4. QED
      BY <3>3 DEF Abstract!At
  <2>3. schema' = Abstract!At(v)
    <3>1. \A o : o \in Abstract!At(v) <=> \E u \in 0 .. v : o \in All(u)
      BY <1>1, AtMembers DEF Last
    <3>2. \A o : o \in schema <=> \E u \in 0 .. v - 1 : o \in All(u)
      BY <1>4, <2>2, AtMembers
    <3>3. \A u : u \in 0 .. v <=> u \in 0 .. v - 1 \/ u = v
      BY <1>1 DEF Last
    <3>4. \A o : o \in schema' <=> o \in Abstract!At(v)
      BY <1>1, <3>1, <3>2, <3>3
    <3>5. QED
      BY <3>4 DEF Abstract!At
  <2>4. QED
    BY <1>1, <2>2, <2>3
<1>7. QED
  BY <1>5, <1>6

\* Only a commit changes the schema.
LEMMA SchemaKept ==
  ASSUME [Next]_vars, \A p \in Procs : ~Commit(p)
  PROVE  schema' = schema
BY DEF Next, Step, Start, Connect, ReadVersion, ReadPending, Run, Resume, Serve,
   Kill, StopDB, StartDB, Exit, vars

LEMMA AtVersionInit == Init => AtVersion
<1> SUFFICES ASSUME Init PROVE AtVersion
  OBVIOUS
<1>1. version \in -1 .. Last /\ schema = UNION {All(v) : v \in 0 .. version}
  BY DEF Init, NoVersion, Versions, Last
<1>2. \A o : o \in schema <=> o \in Abstract!At(version)
  BY <1>1, AtMembers
<1>3. schema = Abstract!At(version)
  BY <1>2 DEF Abstract!At
<1>4. QED
  BY <1>1, <1>3 DEF AtVersion

LEMMA AtVersionStep == IInv /\ AtVersion /\ [Next]_vars => AtVersion'
<1> SUFFICES ASSUME IInv, AtVersion, [Next]_vars PROVE AtVersion'
  OBVIOUS
<1>1. \E k \in -1 .. Last : schema' = Abstract!At(k)
  <2>1. CASE schema' = schema
    BY <2>1 DEF AtVersion
  <2>2. ASSUME NEW p \in Procs, Commit(p), schema' # schema
        PROVE  \E k \in -1 .. Last : schema' = Abstract!At(k)
    BY <2>2, CommitMigrates DEF Last
  <2>3. QED
    BY <2>1, <2>2, SchemaKept
<1>2. QED
  BY <1>1 DEF AtVersion, Abstract!At

\* Those that use the database.
Serving == {p \in Procs : at[p] = "serving"}

\* All migrations are there once the version is the last.
LEMMA LastIsAll ==
  ASSUME IInv, AtVersion, version = Last
  PROVE  schema = Abstract!At(Last)
<1>1. PICK k \in -1 .. Last : schema = Abstract!At(k)
  BY DEF AtVersion
<1>2. \A o : o \in schema <=> \E u \in 0 .. k : o \in All(u)
  BY <1>1, AtMembers
<1>3. \A o : o \in Abstract!At(Last) <=> \E u \in 0 .. Last : o \in All(u)
  BY AtMembers DEF Last
<1>4. \A u \in 0 .. Last : All(u) \subseteq schema
  BY DEF IInv, VersionIsTrue
<1>5. \A u \in 0 .. k : u \in 0 .. Last
  BY <1>1 DEF Last
<1>6. \A o : o \in schema <=> o \in Abstract!At(Last)
  BY <1>2, <1>3, <1>4, <1>5
<1>7. QED
  BY <1>6 DEF Abstract!At

\* A process that moves may come to serve or cease to.
LEMMA ServingMoves ==
  ASSUME IInv, NEW p \in Procs, NEW state, at' = [at EXCEPT ![p] = state]
  PROVE  /\ state = "serving" => Serving' = Serving \cup {p}
         /\ state # "serving" => Serving' = Serving \ {p}
BY DEF IInv, TypeOK, Serving

LEMMA ReadImplements ==
  ASSUME IInv, AtVersion, NEW p \in Procs, ReadVersion(p)
  PROVE  [Abstract!Next]_<<schema, Serving>>
<1>1. schema' = schema /\ p \notin Serving
  BY DEF ReadVersion, ReadPending, Exit, Serving
<1>2. CASE Exit(p) \/ ReadPending(p)
  <2>1. PICK state \in {"stopped", "running"} : at' = [at EXCEPT ![p] = state]
    BY <1>2 DEF Exit, ReadPending, Become
  <2>2. Serving' = Serving \ {p}
    BY <2>1, ServingMoves
  <2>3. QED
    BY <1>1, <2>2 DEF Serving
<1>3. CASE ~Pending /\ Become(p, "serving")
  <2>1. version = Last
    BY <1>3 DEF Pending, Last, Versions, NoVersion, IInv, TypeOK
  <2>2. schema = Abstract!At(Last)
    BY <2>1, LastIsAll
  <2>3. Serving' = Serving \cup {p}
    BY <1>3, ServingMoves DEF Become
  <2>4. Abstract!Join(p)
    BY <1>1, <2>2, <2>3 DEF Abstract!Join, Serving
  <2>5. QED
    BY <2>4 DEF Abstract!Next
<1>4. QED
  BY <1>2, <1>3 DEF ReadVersion

LEMMA CommitImplements ==
  ASSUME IInv, AtVersion, NEW p \in Procs, Commit(p)
  PROVE  [Abstract!Next]_<<schema, Serving>>
<1>1. PICK state \in {"reading"} :
        at[p] # "serving" /\ at' = [at EXCEPT ![p] = state]
  BY DEF Commit, Become
<1>2. Serving' = Serving
  <2>1. Serving' = Serving \ {p}
    BY <1>1, ServingMoves
  <2>2. QED
    BY <1>1, <2>1 DEF Serving
<1>3. CASE schema' = schema
  BY <1>2, <1>3
<1>4. CASE \E v \in 0 .. Last : schema = Abstract!At(v - 1) /\ schema' = Abstract!At(v)
  <2>1. PICK v \in 0 .. Last : schema = Abstract!At(v - 1) /\ schema' = Abstract!At(v)
    BY <1>4
  <2>2. Abstract!Migrate(v)
    BY <1>2, <2>1 DEF Abstract!Migrate, Serving
  <2>3. QED
    BY <2>1, <2>2 DEF Abstract!Next
<1>5. QED
  BY <1>3, <1>4, CommitMigrates

LEMMA KillImplements ==
  ASSUME IInv, NEW p \in Procs, Kill(p)
  PROVE  [Abstract!Next]_<<schema, Serving>>
<1>1. PICK state \in {"stopped"} : at' = [at EXCEPT ![p] = state] /\ schema' = schema
  BY DEF Kill, Exit
<1>2. Serving' = Serving \ {p}
  BY <1>1, ServingMoves
<1>3. Abstract!Leave(p)
  BY <1>1, <1>2 DEF Abstract!Leave, Serving
<1>4. QED
  BY <1>3 DEF Abstract!Next

\* Every step is one of Schema or a stutter.
LEMMA StepImplements ==
  IInv /\ AtVersion /\ [Next]_vars => [Abstract!Next]_<<schema, Serving>>
<1> SUFFICES ASSUME IInv, AtVersion, [Next]_vars
             PROVE  [Abstract!Next]_<<schema, Serving>>
  OBVIOUS
<1>1. ASSUME NEW p \in Procs, ReadVersion(p)
      PROVE  [Abstract!Next]_<<schema, Serving>>
  BY <1>1, ReadImplements
<1>2. ASSUME NEW p \in Procs, Commit(p)
      PROVE  [Abstract!Next]_<<schema, Serving>>
  BY <1>2, CommitImplements
<1>3. ASSUME NEW p \in Procs, Kill(p)
      PROVE  [Abstract!Next]_<<schema, Serving>>
  BY <1>3, KillImplements
<1>4. ASSUME NEW p \in Procs, Start(p) \/ Connect(p) \/ Run(p) \/ Resume(p)
      PROVE  UNCHANGED <<schema, Serving>>
  <2>1. CASE UNCHANGED at
    BY <1>4, <2>1 DEF Start, Connect, Run, Resume, Exit, Serving
  <2>2. CASE \E state \in {"stopped", "connecting", "reading", "running", "waiting"} :
               at' = [at EXCEPT ![p] = state]
    <3>1. Serving' = Serving \ {p}
      BY <2>2, ServingMoves
    <3>2. at[p] # "serving" /\ schema' = schema
      BY <1>4 DEF Start, Connect, Run, Resume, Exit
    <3>3. QED
      BY <3>1, <3>2 DEF Serving
  <2>3. QED
    BY <1>4, <2>1, <2>2 DEF Start, Connect, Run, Resume, Exit, Become
<1>5. CASE StopDB
  BY <1>5 DEF StopDB, Serving
<1>6. CASE StartDB
  BY <1>6 DEF StartDB, Serving
<1>7. CASE UNCHANGED vars
  BY <1>7 DEF vars, Serving
<1>8. ASSUME NEW p \in Procs, Serve(p)
      PROVE  UNCHANGED <<schema, Serving>>
  BY <1>8 DEF Serve, vars, Serving
<1>9. QED
  BY <1>1, <1>2, <1>3, <1>4, <1>5, <1>6, <1>7, <1>8 DEF Next, Step

\* Start-up keeps its promise, for any number of processes, faults and orders
\* of their statements: the database rises version by version, and nobody
\* serves before the last one is whole (connect.go:35-47, main.go:19-33).
THEOREM SchemaIsImplemented == Spec => ImplementsSchema
<1>1. Init => Abstract!Init
  <2>1. Init => Serving = {}
    BY DEF Init, Serving
  <2>2. QED
    BY <2>1, AtVersionInit DEF Abstract!Init, AtVersion, Serving
<1>2. IInv /\ AtVersion /\ [Next]_vars => [Abstract!Next]_(Abstract!vars)
  BY StepImplements DEF Abstract!vars, Serving
<1>3. QED
  BY <1>1, <1>2, AtVersionInit, AtVersionStep, StartupInvariant, PTL
     DEF Spec, ImplementsSchema, Abstract!Spec

=============================================================================
