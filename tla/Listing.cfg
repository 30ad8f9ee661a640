\* Lists of up to five rows, in pages of up to three.
CONSTANTS
  MaxRows = 5
  MaxPageLimit = 3
SPECIFICATION FairSpec
INVARIANTS
  TypeOK
  NextMissesNothing
  PrevMissesNothing
PROPERTIES
  WalksEnd
CHECK_DEADLOCK FALSE
