\* A PATCH that passed its pre-flight before the DELETE.
CONSTANTS
  q1 = q1
  q2 = q2
  q3 = q3
  p1 = p1
  p2 = p2
  Components = {"core"}
  Accounts = {"acme", "legacy"}
  Legacy = "legacy"
  Keys = {"k1"}
  Expiries = {"never"}
  Requests = {q1, q2}
  Pulls = {}
SPECIFICATION Spec
PROPERTIES
  DeletedIsFinal
CHECK_DEADLOCK FALSE
