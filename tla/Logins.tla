-------------------------------- MODULE Logins --------------------------------
(***************************************************************************)
(* What signing in promises: logins that are given once, are in force for  *)
(* a limited time or until they are withdrawn, and are never in force      *)
(* again; and requests that start to act for a user only under a login of  *)
(* that user that is in force.                                             *)
(***************************************************************************)
EXTENDS Integers

CONSTANTS
  Accounts, Tokens, Requests,
  Times,       \* the times at which a login can end
  Life,        \* the longest a login is in force
  NoGrant,
  Nobody

VARIABLES
  now,
  grants,      \* of each token, the login it stands for
  given,       \* the tokens that have stood for one
  actors       \* the user each request acts for

vars == <<now, grants, given, actors>>

Init ==
  /\ now \in Int
  /\ grants = [t \in Tokens |-> NoGrant]
  /\ given = {}
  /\ actors = [r \in Requests |-> Nobody]

Pass ==
  /\ now' > now
  /\ UNCHANGED <<grants, given, actors>>

Grant(t, a) ==
  /\ t \notin given
  /\ \E until \in Times :
       /\ until <= now + Life
       /\ grants' = [grants EXCEPT ![t] = [user |-> a, expiresAt |-> until]]
  /\ given' = given \cup {t}
  /\ UNCHANGED <<now, actors>>

Withdraw(t) ==
  /\ grants' = [grants EXCEPT ![t] = NoGrant]
  /\ UNCHANGED <<now, given, actors>>

Enter(r, t) ==
  /\ grants[t] # NoGrant
  /\ now < grants[t].expiresAt
  /\ actors' = [actors EXCEPT ![r] = grants[t].user]
  /\ UNCHANGED <<now, grants, given>>

Leave(r) ==
  /\ actors' = [actors EXCEPT ![r] = Nobody]
  /\ UNCHANGED <<now, grants, given>>

Next ==
  \/ Pass
  \/ \E t \in Tokens :
       \/ \E a \in Accounts : Grant(t, a)
       \/ Withdraw(t)
       \/ \E r \in Requests : Enter(r, t)
  \/ \E r \in Requests : Leave(r)

Spec == Init /\ [][Next]_vars

=============================================================================
