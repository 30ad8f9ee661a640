\* Coherence, freshness, the TTL bound and the return of every lookup, with
\* writes through the cache and behind it.
CONSTANTS
  r1 = r1
  r2 = r2
  r3 = r3
  w1 = w1
  w2 = w2
  Names = {"core"}
  Contents = {1}
  Readers = {r1, r2}
  Writers = {w1}
  TTL = 1
  LookupTimeout = 1
  MaxTime = 2
SPECIFICATION MCSpec
INVARIANTS
  TypeOK
  FlightCoherent
  CacheCoherent
  OwnAnswersFresh
PROPERTIES
  EveryLookupReturns
  FreshEntriesStay
CHECK_DEADLOCK FALSE
