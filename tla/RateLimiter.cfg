\* Bursts, waits and reaps of two addresses.
CONSTANTS
  ip1 = ip1
  ip2 = ip2
  IPs = {ip1, ip2}
  Capacity = 4
  Token = 2
  Window = 4
  MaxTime = 6
SPECIFICATION Spec
SYMMETRY Symmetry
INVARIANTS
  TypeOK
  RateBound
PROPERTIES
  ImplementsTokenBucket
CHECK_DEADLOCK FALSE
