\* A caller that joins a flight started before an acknowledged write.
CONSTANTS
  r1 = r1
  r2 = r2
  r3 = r3
  w1 = w1
  w2 = w2
  Names = {"core"}
  Contents = {1}
  Readers = {r1, r2}
  Writers = {w1}
  TTL = 1
  LookupTimeout = 1
  MaxTime = 1
SPECIFICATION Spec
INVARIANTS
  ChangeIsImmediate
CHECK_DEADLOCK FALSE
