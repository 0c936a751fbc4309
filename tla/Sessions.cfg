SPECIFICATION Spec
CONSTANTS
  Browsers = {b1, b2}
  Accounts = {a1}
  States = {s1, s2}
  Tokens = {t1, t2}
  Requests = {r1, r2}
  Clock <- MCClock
  Skew <- MCSkew
  StateTTL = 1
  SessionTTL = 2
  NoValue = NoValue
  Keep = Keep
  NoAccount = NoAccount
  NoCode = NoCode
  NoBrowser = NoBrowser
  NoSession = NoSession
INVARIANTS
  TypeOK
  SignedInWhereConsented
PROPERTIES
  ImplementsLogins
  SignOutIsOwn
SYMMETRY MCSymmetry
