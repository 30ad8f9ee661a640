\* Two admin requests of any kind racing a pull, with the audit rows they write,
\* lose or never come to.
CONSTANTS
  q1 = q1
  q2 = q2
  q3 = q3
  p1 = p1
  p2 = p2
  Components = {"core"}
  Accounts = {"acme", "legacy"}
  Legacy = "legacy"
  Keys = {"k1"}
  Expiries = {"ahead"}
  Requests = {q1, q2}
  Pulls = {p1}
SPECIFICATION AuditSpec
SYMMETRY Symmetry
INVARIANTS
  AuditTypeOK
  TrailIsTrue
  RevocationsExplained
  AllowedForCause
  UsageWithinPulls
  OnlyRacedKeysOutlive
  LegacyStaysActive
PROPERTIES
  RevokedForGood
CHECK_DEADLOCK FALSE
