\* Two requests that may change the operators, and a login that races them, on
\* one session and under a clock that also goes back.
CONSTANTS
  o1 = o1
  o2 = o2
  s1 = s1
  s2 = s2
  r1 = r1
  r2 = r2
  l1 = l1
  l2 = l2
  Operators = {o1, o2}
  Sessions = {s1}
  Providers = {"github"}
  Requests = {r1, r2}
  Logins = {l1}
  AbsoluteLifetime = 2
  IdleLifetime = 1
  MaxTime = 3
SPECIFICATION MCSpec
SYMMETRY Symmetry
INVARIANTS
  TypeOK
  AtLeastOneAdmin
  AdmittedForCause
  DisabledAreLoggedOut
  IdleWindow
PROPERTIES
  SessionsEndForGood
CHECK_DEADLOCK FALSE
