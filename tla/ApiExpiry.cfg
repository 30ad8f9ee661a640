\* A pull with an expired key.
CONSTANTS
  q1 = q1
  q2 = q2
  q3 = q3
  p1 = p1
  p2 = p2
  Components = {"core"}
  Accounts = {"acme", "legacy"}
  Legacy = "legacy"
  Keys = {"k1"}
  Expiries = {"never", "ahead", "past"}
  Requests = {q1}
  Pulls = {p1}
SPECIFICATION Spec
INVARIANTS
  ExpiredKeyDenied
CHECK_DEADLOCK FALSE
