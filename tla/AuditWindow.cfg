\* An audit row of a reaped bucket and the first one of the next.
CONSTANTS
  ip1 = ip1
  ip2 = ip2
  IPs = {ip1}
  Capacity = 4
  Token = 2
  Window = 4
  MaxTime = 6
SPECIFICATION Spec
INVARIANTS
  OneAuditPerWindow
CHECK_DEADLOCK FALSE
