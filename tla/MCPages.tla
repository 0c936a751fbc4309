-------------------------------- MODULE MCPages --------------------------------
(* Small instances of Pages.  Day 1 is the first day the system runs on; a  *)
(* day has two instants, and time.Local is one instant ahead.               *)
EXTENDS Pages

MCDays == 1 .. 2
MCClock == 2 .. 3
MCInstants == 2 .. 4
MCPgDate == [i \in MCInstants |-> i \div 2]
MCGoDate == [i \in MCInstants |-> (i + 1) \div 2]
MCPgMidnight == [d \in MCDays |-> 2 * d]

\* A week and a month are longer than the days that are looked at.
MCPeriodDays ==
  [p \in Periods |-> [d \in MCDays |-> IF p = "day" THEN {d} ELSE MCDays]]

\* A count that is zero, and one that is no INT.
MCFrequencies == {[n |-> 0, unit |-> "day"], [n |-> 3, unit |-> "week"]}

=============================================================================
