----------------------------- MODULE HabitLedger ------------------------------
(***************************************************************************)
(* What the habit tracker promises its users: a ledger of habits, each     *)
(* with a life (its owner, its first day, the day it ends) and the set of  *)
(* days its owner has marked.  Every operation is atomic, nothing fails,   *)
(* and a date is a date: there are no statements, requests or time zones.  *)
(***************************************************************************)
EXTENDS Integers

CONSTANTS
  Users, HabitIds,
  Dates,       \* the dates an operation can name, today's included
  Nobody,      \* the owner of a habit from before there were users
  Unborn,      \* the life of a habit not yet registered
  Forever,     \* the end of a life that has none
  OpenOnly     \* whether marks change only while the habit is alive

VARIABLES
  today,
  life,        \* of each habit
  marks        \* the marked days of each habit

vars == <<today, life, marks>>

Init ==
  /\ today \in Dates
  /\ \A h \in HabitIds :
       \/ life[h] = Unborn
       \/ /\ life[h].owner = Nobody
          /\ life[h].first <= today
          /\ life[h].end = Forever
  /\ marks = [h \in HabitIds |-> {}]

\* The days u may change marks of h on.
MayMark(u, h, d) ==
  /\ d <= today
  /\ life[h] # Unborn
  /\ life[h].owner = u
  /\ life[h].first <= d
  /\ OpenOnly /\ life[h].end # Forever => d < life[h].end

NewDay ==
  /\ today' > today
  /\ UNCHANGED <<life, marks>>

Register(u, h) ==
  /\ life[h] = Unborn
  /\ life' = [life EXCEPT ![h] =
       [owner |-> u, first |-> today, end |-> Forever]]
  /\ UNCHANGED <<today, marks>>

\* The life of h ends on d; it may have ended on another day before.
Close(u, h, d) ==
  /\ d <= today
  /\ life[h] # Unborn
  /\ life[h].owner = u
  /\ life' = [life EXCEPT ![h].end = d]
  /\ UNCHANGED <<today, marks>>

Mark(u, h, d) ==
  /\ MayMark(u, h, d)
  /\ d \notin marks[h]
  /\ marks' = [marks EXCEPT ![h] = @ \cup {d}]
  /\ UNCHANGED <<today, life>>

Unmark(u, h, d) ==
  /\ MayMark(u, h, d)
  /\ d \in marks[h]
  /\ marks' = [marks EXCEPT ![h] = @ \ {d}]
  /\ UNCHANGED <<today, life>>

Next ==
  \/ NewDay
  \/ \E u \in Users, h \in HabitIds :
       \/ Register(u, h)
       \/ \E d \in Dates : Close(u, h, d) \/ Mark(u, h, d) \/ Unmark(u, h, d)

Spec == Init /\ [][Next]_vars

=============================================================================
