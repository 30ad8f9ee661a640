\* Two flows and two callbacks of one browser, up to the session.
CONSTANTS
  o1 = o1
  o2 = o2
  s1 = s1
  s2 = s2
  l1 = l1
  l2 = l2
  h1 = h1
  h2 = h2
  Operators = {o1, o2}
  Sessions = {s1, s2}
  Providers = {"github", "microsoft"}
  Requests = {}
  Logins = {l1, l2}
  Handles = {h1, h2}
  AbsoluteLifetime = 1
  IdleLifetime = 1
  MaxTime = 2
  StateTTL = 1
SPECIFICATION MCSpec
INVARIANTS
  OAuthTypeOK
  FlowExchangedOnce
  OneFlowPerLogin
  LoggedInForCause
PROPERTIES
  EntriesGo
  ImplementsOperatorAccess
  LoginRecordsKeep
CHECK_DEADLOCK FALSE
