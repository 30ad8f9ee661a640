\* Every database of two keys and two accounts, cut short three times.
CONSTANTS
  Keys = {"k1", "k2"}
  Accounts = {"legacy", "acme"}
  MaxStops = 3
SPECIFICATION FairSpec
INVARIANTS
  TypeOK
  KeysKept
  ServesMigrated
  ServesIndexed
PROPERTIES
  EventuallyServes
CHECK_DEADLOCK FALSE
