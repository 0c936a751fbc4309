---------------------------- MODULE MCHabitService ----------------------------
(* Small instances of HabitService: a day has two instants, day 1 is the    *)
(* first day the system runs on.                                            *)
EXTENDS HabitServiceLedger

MCDays == 0 .. 2
MCClock == 2 .. 5
MCInstants == -1 .. 5

MCPgDate == [i \in MCInstants |-> i \div 2]
MCPgMidnight == [d \in MCDays |-> 2 * d]

\* time.Local is the session's zone.
MCSameZone == MCPgDate

\* One frequency is enough where only the writes of entries matter.
MCDaily == {[n |-> 1, unit |-> "day"]}

=============================================================================
