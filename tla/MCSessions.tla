------------------------------ MODULE MCSessions ------------------------------
(* A small instance of Sessions: the process's clock is one tick behind the  *)
(* database's, so that a session ends before its cookie.                     *)
EXTENDS Sessions, TLC

MCClock == 0 .. 1
MCSkew == -1

MCSymmetry ==
  Permutations(Browsers) \cup Permutations(States) \cup
  Permutations(Tokens) \cup Permutations(Requests)

=============================================================================
