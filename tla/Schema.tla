-------------------------------- MODULE Schema --------------------------------
(***************************************************************************)
(* What start-up promises: the database is at one version at any moment,   *)
(* it rises one whole version at a time and never falls, and a client that *)
(* joins finds the last version.  There are no statements, no processes    *)
(* that migrate together, and nothing fails.                               *)
(***************************************************************************)
EXTENDS Integers

CONSTANTS
  Clients,
  Last,        \* the last version
  Creates      \* what each version adds to the schema

VARIABLES
  schema,
  clients      \* those that use the database

vars == <<schema, clients>>

\* The schema at version v; a database without a version is at -1.
At(v) == UNION {Creates[u] : u \in 0 .. v}

Init ==
  /\ \E v \in -1 .. Last : schema = At(v)
  /\ clients = {}

Migrate(v) ==
  /\ schema = At(v - 1)
  /\ schema' = At(v)
  /\ UNCHANGED clients

Join(c) ==
  /\ schema = At(Last)
  /\ clients' = clients \cup {c}
  /\ UNCHANGED schema

Leave(c) ==
  /\ clients' = clients \ {c}
  /\ UNCHANGED schema

Next ==
  \/ \E v \in 0 .. Last : Migrate(v)
  \/ \E c \in Clients : Join(c) \/ Leave(c)

Spec == Init /\ [][Next]_vars

=============================================================================
