------------------------ MODULE ComponentCacheProofs ------------------------
(***************************************************************************)
(* Coherence of the component cache, for every set of names, callers and   *)
(* writers, every TTL and every lookup timeout.                            *)
(***************************************************************************)
EXTENDS ComponentCache, TLAPS

\* What a flight knows of the clock and of the generation it captured: the
\* generation only grows, and a store call lasts at most LookupTimeout.
FlightBounds ==
  \A n \in Names : flight[n].phase \in {"reading", "read"} =>
    /\ flight[n].gen <= gen[n]
    /\ flight[n].started <= now
    /\ now <= flight[n].started + LookupTimeout

\* No entry outlives the TTL counted from now.
EntryBounds ==
  \A n \in Names : entries[n] # NoEntry => entries[n].expiresAt <= now + TTL

\* With TTL = 0 no lookup reaches the map or a flight.
DisabledIdle ==
  ~enabled => /\ \A n \in Names : entries[n] = NoEntry /\ flight[n].phase = "idle"
              /\ \A r \in Readers : rpc[r] \in {"idle", "done"}

\* A loaded entry is a real one.
LoadedEntry ==
  \A r \in Readers : rpc[r] = "loaded" => rentry[r] # NoEntry

CacheInv ==
  /\ TypeOK
  /\ FlightBounds
  /\ EntryBounds
  /\ DisabledIdle
  /\ LoadedEntry
  /\ FlightCoherent
  /\ CacheCoherent

USE CacheConstants

-----------------------------------------------------------------------------
(* The values of the model are pairwise distinct. *)
LEMMA Distinct ==
  /\ NoRow \notin Component
  /\ StoreError \notin Component
  /\ NoEntry \notin cachedComponent
<1>1. NoRow \notin Component /\ StoreError \notin Component
  BY DEF NoRow, StoreError, Component
<1>2. NoEntry \notin cachedComponent
  BY DEF NoEntry, cachedComponent, Never, Time
<1> QED BY <1>1, <1>2

LEMMA InitInv == Init => CacheInv
<1> SUFFICES ASSUME Init PROVE CacheInv
  OBVIOUS
<1>1. TypeOK
  BY DEF Init, InitWith, TypeOK, Idle, Flight, Answer, Row, Time, NoEntry
<1>2. FlightBounds /\ EntryBounds /\ DisabledIdle /\ LoadedEntry
  BY DEF Init, InitWith, FlightBounds, EntryBounds, DisabledIdle, LoadedEntry, Idle
<1>3. FlightCoherent /\ CacheCoherent
  BY DEF Init, InitWith, FlightCoherent, CacheCoherent, Idle
<1> QED BY <1>1, <1>2, <1>3 DEF CacheInv

-----------------------------------------------------------------------------
(* Type correctness: one step per action. *)
LEMMA TypeStep == TypeOK /\ LoadedEntry /\ [Next]_vars => TypeOK'
<1> SUFFICES ASSUME TypeOK, LoadedEntry, [Next]_vars PROVE TypeOK'
  OBVIOUS
<1> USE DEF TypeOK, cacheVars, readerVars, writerVars, historyVars, Time
<1>1. ASSUME NEW r \in Readers, Lookup(r) PROVE TypeOK'
  <2>1. BeginLegal(r) \in SUBSET Row
    BY DEF BeginLegal, Pending
  <2> QED BY <1>1, <2>1 DEF Lookup
<1>2. ASSUME NEW r \in Readers, PassThrough(r) PROVE TypeOK'
  <2>1. BeginLegal(r) \in SUBSET Row
    BY DEF BeginLegal, Pending
  <2> QED BY <1>2, <2>1 DEF PassThrough, Answer
<1>3. ASSUME NEW r \in Readers, CheckFresh(r) PROVE TypeOK'
  <2>1. rentry[r] \in cachedComponent
    BY <1>3 DEF CheckFresh, LoadedEntry
  <2>2. rentry[r].comp \in Answer
    BY <2>1 DEF cachedComponent, PublicComponent, Answer, Row
  <2> QED BY <1>3, <2>2 DEF CheckFresh
<1>4. ASSUME NEW r \in Readers, DropExpired(r) PROVE TypeOK'
  BY <1>4 DEF DropExpired
<1>5. ASSUME NEW r \in Readers, Do(r) PROVE TypeOK'
  <2>1. [Idle EXCEPT !.phase = "begun"] \in Flight
    BY DEF Idle, Flight, Answer, Row
  <2> QED BY <1>5, <2>1 DEF Do
<1>6. ASSUME NEW n \in Names, CaptureGeneration(n) PROVE TypeOK'
  <2>1. [flight[n] EXCEPT !.phase = "reading", !.gen = gen[n], !.started = now]
          \in Flight
    <3> DEFINE f == flight[n]
    <3>1. f \in Flight /\ gen[n] \in Nat /\ now \in Nat
      OBVIOUS
    <3> HIDE DEF f
    <3> QED BY <3>1 DEF Flight
  <2> QED BY <1>6, <2>1 DEF CaptureGeneration
<1>7. ASSUME NEW n \in Names, ReadStore(n) PROVE TypeOK'
  <2>1. ASSUME NEW a \in {db[n], StoreError}
        PROVE  [flight[n] EXCEPT !.phase = "read", !.result = a] \in Flight
    <3> DEFINE f == flight[n]
    <3>1. f \in Flight /\ a \in Answer
      BY <2>1 DEF Answer
    <3> HIDE DEF f
    <3> QED BY <3>1 DEF Flight
  <2> QED BY <1>7, <2>1 DEF ReadStore
<1>8. ASSUME NEW n \in Names, insert(n) PROVE TypeOK'
  <2>1. flight' \in [Names -> Flight]
    <3>1. [Idle EXCEPT !.phase = "inserted", !.result = flight[n].result] \in Flight
      BY DEF Flight, Idle
    <3> QED BY <1>8, <3>1 DEF insert
  <2>2. entries' \in [Names -> cachedComponent \cup {NoEntry}]
    <3>1. flight[n].result \in Answer
      BY DEF Flight
    <3>2. flight[n].result.visibility = "public" => flight[n].result \in PublicComponent
      BY <3>1 DEF Answer, Row, NoRow, StoreError, PublicComponent
    <3> QED BY <1>8, <3>2 DEF insert, cachedComponent
  <2> QED BY <1>8, <2>1, <2>2 DEF insert
<1>9. ASSUME NEW n \in Names, Deliver(n) PROVE TypeOK'
  BY <1>9 DEF Deliver, Idle, Flight, Answer, Row
<1>10. ASSUME NEW w \in Writers, NEW row \in Row, Commit(w, row) PROVE TypeOK'
  BY <1>10 DEF Commit, Witnessed
<1>11. ASSUME NEW w \in Writers, WriteFails(w) PROVE TypeOK'
  BY <1>11 DEF WriteFails
<1>12. ASSUME NEW w \in Writers, evict(w) PROVE TypeOK'
  BY <1>12 DEF evict, Row
<1>13. ASSUME NEW n \in Names, NEW row \in Component, CreateComponent(n, row)
       PROVE  TypeOK'
  BY <1>13 DEF CreateComponent, Witnessed, Row
<1>14. ASSUME NEW n \in Names, NEW row \in Row, ForeignWrite(n, row) PROVE TypeOK'
  BY <1>14 DEF ForeignWrite, Witnessed
<1>15. CASE Tick
  BY <1>15 DEF Tick
<1>16. CASE UNCHANGED vars
  BY <1>16 DEF vars
<1> QED
  BY <1>1, <1>2, <1>3, <1>4, <1>5, <1>6, <1>7, <1>8, <1>9, <1>10, <1>11, <1>12,
     <1>13, <1>14, <1>15, <1>16
     DEF Next, ReaderStep, FlightStep, WriterStep, UpdateComponent,
         DeleteComponent, Row

(* The bounds on flights and entries, and the shape of a disabled cache. *)
LEMMA BoundsStep ==
  ASSUME TypeOK, TypeOK', FlightBounds, EntryBounds, DisabledIdle, LoadedEntry,
         [Next]_vars
  PROVE  (FlightBounds /\ EntryBounds /\ DisabledIdle /\ LoadedEntry)'
<1> USE DEF FlightBounds, EntryBounds, DisabledIdle, LoadedEntry, TypeOK,
            cacheVars, readerVars, writerVars, historyVars, Time, Flight
<1> DEFINE Bounds == FlightBounds /\ EntryBounds /\ DisabledIdle /\ LoadedEntry
<1>1. ASSUME NEW r \in Readers, Lookup(r) PROVE Bounds'
  BY <1>1 DEF Lookup
<1>2. ASSUME NEW r \in Readers, PassThrough(r) PROVE Bounds'
  BY <1>2 DEF PassThrough
<1>3. ASSUME NEW r \in Readers, CheckFresh(r) PROVE Bounds'
  BY <1>3 DEF CheckFresh
<1>4. ASSUME NEW r \in Readers, DropExpired(r) PROVE Bounds'
  BY <1>4 DEF DropExpired
<1>5. ASSUME NEW r \in Readers, Do(r) PROVE Bounds'
  <2>1. FlightBounds' /\ EntryBounds' /\ LoadedEntry'
    BY <1>5 DEF Do, Idle
  <2>2. enabled
    BY <1>5 DEF Do
  <2> QED BY <2>1, <2>2 DEF enabled
<1>6. ASSUME NEW n \in Names, CaptureGeneration(n) PROVE Bounds'
  BY <1>6 DEF CaptureGeneration
<1>7. ASSUME NEW n \in Names, ReadStore(n) PROVE Bounds'
  BY <1>7 DEF ReadStore
<1>8. ASSUME NEW n \in Names, insert(n) PROVE Bounds'
  BY <1>8 DEF insert
<1>9. ASSUME NEW n \in Names, Deliver(n) PROVE Bounds'
  BY <1>9 DEF Deliver, Idle
<1>10. ASSUME NEW w \in Writers, NEW row \in Row, Commit(w, row) PROVE Bounds'
  BY <1>10 DEF Commit
<1>11. ASSUME NEW w \in Writers, WriteFails(w) PROVE Bounds'
  BY <1>11 DEF WriteFails
<1>12. ASSUME NEW w \in Writers, evict(w) PROVE Bounds'
  BY <1>12 DEF evict
<1>13. ASSUME NEW n \in Names, NEW row \in Component, CreateComponent(n, row)
       PROVE  Bounds'
  BY <1>13 DEF CreateComponent
<1>14. ASSUME NEW n \in Names, NEW row \in Row, ForeignWrite(n, row) PROVE Bounds'
  BY <1>14 DEF ForeignWrite
<1>15. CASE Tick
  <2>1. FlightBounds'
    BY <1>15 DEF Tick
  <2>2. EntryBounds'
    <3>1. ASSUME NEW n \in Names, entries[n] # NoEntry
          PROVE  entries[n].expiresAt \in Nat
      BY <3>1 DEF cachedComponent
    <3> QED BY <1>15, <3>1 DEF Tick
  <2> QED BY <1>15, <2>1, <2>2 DEF Tick
<1>16. CASE UNCHANGED vars
  BY <1>16 DEF vars
<1> QED
  BY <1>1, <1>2, <1>3, <1>4, <1>5, <1>6, <1>7, <1>8, <1>9, <1>10, <1>11, <1>12,
     <1>13, <1>14, <1>15, <1>16
     DEF Next, ReaderStep, FlightStep, WriterStep, UpdateComponent,
         DeleteComponent, Row

-----------------------------------------------------------------------------
(* A step that leaves the table, the writers and the foreign clock alone    *)
(* leaves the premises of both coherence invariants alone.                  *)
LEMMA PendingUnchanged ==
  ASSUME UNCHANGED writerVars, NEW n \in Names
  PROVE  Pending(n)' = Pending(n)
BY DEF Pending, writerVars

(* What is being inserted is as coherent as what is cached. *)
LEMMA FlightCoherentStep ==
  ASSUME CacheInv, TypeOK', [Next]_vars
  PROVE  FlightCoherent'
<1> USE DEF CacheInv, TypeOK
<1> SUFFICES ASSUME NEW m \in Names,
                    flight'[m].phase = "read",
                    flight'[m].gen = gen'[m],
                    flight'[m].result \in Component,
                    flight'[m].result # db'[m],
                    Pending(m)' = {}
             PROVE  lastForeign'[m] >= flight'[m].started
  BY DEF FlightCoherent
<1>0. flight[m] \in Flight /\ gen[m] \in Nat /\ now \in Int
  BY DEF Time
\* Steps that touch neither the table nor the flights nor the writers.
<1>1. CASE UNCHANGED <<db, gen, flight, writerVars, lastForeign>>
  BY <1>1, PendingUnchanged DEF FlightCoherent
<1>2. ASSUME NEW r \in Readers, Do(r) PROVE lastForeign'[m] >= flight'[m].started
  <2>1. flight'[m] = flight[m] \/ flight'[m].phase = "begun"
    BY <1>2 DEF Do, Idle
  <2> QED BY <1>2, <2>1, PendingUnchanged
          DEF Do, FlightCoherent, cacheVars, historyVars
<1>3. ASSUME NEW n \in Names, CaptureGeneration(n)
      PROVE  lastForeign'[m] >= flight'[m].started
  <2>1. flight'[m] = flight[m] \/ flight'[m].phase = "reading"
    BY <1>3, <1>0 DEF CaptureGeneration, Flight
  <2> QED BY <1>3, <2>1, PendingUnchanged
          DEF CaptureGeneration, FlightCoherent, cacheVars, historyVars
<1>4. ASSUME NEW n \in Names, ReadStore(n)
      PROVE  lastForeign'[m] >= flight'[m].started
  <2>1. flight'[m] = flight[m] \/ flight'[m].result \in {db[m], StoreError}
    BY <1>4, <1>0 DEF ReadStore, Flight
  <2> QED BY <1>4, <2>1, PendingUnchanged, Distinct
          DEF ReadStore, FlightCoherent, cacheVars, historyVars
<1>5. ASSUME NEW n \in Names, insert(n)
      PROVE  lastForeign'[m] >= flight'[m].started
  <2>1. flight'[m] = flight[m] \/ flight'[m].phase = "inserted"
    BY <1>5, <1>0 DEF insert, Flight, Idle
  <2> QED BY <1>5, <2>1, PendingUnchanged DEF insert, FlightCoherent, historyVars
<1>6. ASSUME NEW n \in Names, Deliver(n)
      PROVE  lastForeign'[m] >= flight'[m].started
  <2>1. flight'[m] = flight[m] \/ flight'[m].phase = "idle"
    BY <1>6 DEF Deliver, Idle
  <2> QED BY <1>6, <2>1, PendingUnchanged
          DEF Deliver, FlightCoherent, cacheVars, historyVars
\* A commit makes its writer pending, unless the cache is disabled and idle.
<1>7. ASSUME NEW w \in Writers, NEW row \in Row, Commit(w, row)
      PROVE  lastForeign'[m] >= flight'[m].started
  <2>1. enabled
    BY <1>7 DEF Commit, DisabledIdle
  <2>2. wname[w] # m
    BY <1>7, <2>1 DEF Commit, Pending
  <2>3. Pending(m) = {}
    BY <1>7, <2>2 DEF Commit, Pending
  <2> QED BY <1>7, <2>2, <2>3 DEF Commit, FlightCoherent, cacheVars
<1>8. ASSUME NEW w \in Writers, WriteFails(w)
      PROVE  lastForeign'[m] >= flight'[m].started
  <2>1. Pending(m) = {}
    BY <1>8 DEF WriteFails, Pending
  <2> QED BY <1>8, <2>1 DEF WriteFails, FlightCoherent, cacheVars, historyVars
\* An evict moves the generation past every flight of its name.
<1>9. ASSUME NEW w \in Writers, evict(w)
      PROVE  lastForeign'[m] >= flight'[m].started
  <2>1. CASE wname[w] = m
    <3>1. flight[m].gen <= gen[m] /\ flight[m].gen \in Nat
      BY <1>9, <1>0 DEF evict, FlightBounds, Flight
    <3>2. gen'[m] = gen[m] + 1 /\ flight'[m].gen = flight[m].gen
      BY <1>9, <2>1 DEF evict
    <3> QED BY <3>1, <3>2, <1>0
  <2>2. CASE wname[w] # m
    <3>1. Pending(m) = {}
      BY <1>9, <2>2 DEF evict, Pending
    <3> QED BY <1>9, <2>2, <3>1 DEF evict, FlightCoherent
  <2> QED BY <2>1, <2>2
\* A create finds no row, so no flight holds the row it replaces.
<1>10. ASSUME NEW n \in Names, NEW row \in Component, CreateComponent(n, row)
       PROVE  lastForeign'[m] >= flight'[m].started
  <2>1. Pending(m) = {}
    BY <1>10, PendingUnchanged DEF CreateComponent
  <2>2. flight[m].result # db[m]
    BY <1>10, Distinct DEF CreateComponent
  <2> QED BY <1>10, <2>1, <2>2 DEF CreateComponent, FlightCoherent, cacheVars
<1>11. ASSUME NEW n \in Names, NEW row \in Row, ForeignWrite(n, row)
       PROVE  lastForeign'[m] >= flight'[m].started
  <2>1. CASE n = m
    <3>1. flight[m].started <= now /\ flight[m].started \in Nat
      BY <1>11, <1>0 DEF ForeignWrite, FlightBounds, Flight, Time
    <3> QED BY <1>0, <1>11, <2>1, <3>1 DEF ForeignWrite
  <2>2. CASE n # m
    <3>1. Pending(m) = {}
      BY <1>11, PendingUnchanged DEF ForeignWrite
    <3> QED BY <1>11, <2>2, <3>1 DEF ForeignWrite, FlightCoherent, cacheVars
  <2> QED BY <2>1, <2>2
<1>12. CASE Tick
  BY <1>1, <1>12 DEF Tick, cacheVars, historyVars
<1>13. CASE UNCHANGED vars
  BY <1>1, <1>13 DEF vars, writerVars
<1>14. ASSUME NEW r \in Readers,
              Lookup(r) \/ PassThrough(r) \/ CheckFresh(r) \/ DropExpired(r)
       PROVE  UNCHANGED <<db, gen, flight, writerVars, lastForeign>>
  BY <1>14 DEF Lookup, PassThrough, CheckFresh, DropExpired, cacheVars, historyVars
<1> QED
  BY <1>1, <1>2, <1>3, <1>4, <1>5, <1>6, <1>7, <1>8, <1>9, <1>10, <1>11, <1>12,
     <1>13, <1>14
     DEF Next, ReaderStep, FlightStep, WriterStep, UpdateComponent,
         DeleteComponent, Row

(* What is cached stays coherent. *)
LEMMA CacheCoherentStep ==
  ASSUME CacheInv, TypeOK', [Next]_vars
  PROVE  CacheCoherent'
<1> USE DEF CacheInv, TypeOK
<1> SUFFICES ASSUME NEW m \in Names,
                    entries'[m] # NoEntry,
                    entries'[m].comp # db'[m],
                    Pending(m)' = {}
             PROVE  lastForeign'[m] >= entries'[m].expiresAt - TTL - LookupTimeout
  BY DEF CacheCoherent
<1> DEFINE Goal == lastForeign'[m] >= entries'[m].expiresAt - TTL - LookupTimeout
<1>0. now \in Int /\ lastForeign[m] \in Int
  BY DEF Time, Never
<1>1. CASE UNCHANGED <<db, entries, writerVars, lastForeign>>
  BY <1>1, PendingUnchanged DEF CacheCoherent
<1>2. ASSUME NEW r \in Readers, DropExpired(r) PROVE Goal
  <2>1. entries'[m] = entries[m]
    BY <1>2 DEF DropExpired
  <2> QED BY <1>2, <2>1, PendingUnchanged DEF DropExpired, CacheCoherent, historyVars
\* insert: the generation matches, so FlightCoherent speaks of this result.
<1>3. ASSUME NEW n \in Names, insert(n) PROVE Goal
  <2>1. CASE entries'[m] = entries[m]
    BY <1>3, <2>1, PendingUnchanged DEF insert, CacheCoherent, historyVars
  <2>2. CASE entries'[m] # entries[m]
    <3>1. /\ n = m
          /\ flight[m].phase = "read"
          /\ flight[m].result.visibility = "public"
          /\ gen[m] = flight[m].gen
          /\ entries'[m] = [comp |-> flight[m].result, expiresAt |-> now + TTL]
      BY <1>3, <2>2 DEF insert
    <3>2. flight[m] \in Flight
      OBVIOUS
    <3>3. flight[m].result \in Component
      BY <3>1, <3>2 DEF Flight, Answer, Row, NoRow, StoreError
    <3>4. flight[m].result # db[m] /\ Pending(m) = {}
      BY <1>3, <3>1, PendingUnchanged DEF insert
    <3>5. lastForeign[m] >= flight[m].started
      BY <3>1, <3>3, <3>4 DEF FlightCoherent
    <3>6. now <= flight[m].started + LookupTimeout /\ flight[m].started \in Nat
      BY <3>1, <3>2 DEF FlightBounds, Flight, Time
    <3>7. lastForeign[m] >= (now + TTL) - TTL - LookupTimeout
      BY <3>5, <3>6, <1>0
    <3> QED BY <1>3, <3>1, <3>7 DEF insert, historyVars
  <2> QED BY <2>1, <2>2
<1>4. ASSUME NEW w \in Writers, NEW row \in Row, Commit(w, row) PROVE Goal
  <2>1. enabled
    BY <1>4 DEF Commit, DisabledIdle, cacheVars
  <2>2. wname[w] # m
    BY <1>4, <2>1 DEF Commit, Pending
  <2>3. Pending(m) = {}
    BY <1>4, <2>2 DEF Commit, Pending
  <2> QED BY <1>4, <2>2, <2>3 DEF Commit, CacheCoherent, cacheVars
<1>5. ASSUME NEW w \in Writers, WriteFails(w) PROVE Goal
  <2>1. Pending(m) = {}
    BY <1>5 DEF WriteFails, Pending
  <2> QED BY <1>5, <2>1 DEF WriteFails, CacheCoherent, cacheVars, historyVars
<1>6. ASSUME NEW w \in Writers, evict(w) PROVE Goal
  <2>1. wname[w] # m
    BY <1>6 DEF evict
  <2>2. Pending(m) = {}
    BY <1>6, <2>1 DEF evict, Pending
  <2> QED BY <1>6, <2>1, <2>2 DEF evict, CacheCoherent
<1>7. ASSUME NEW n \in Names, NEW row \in Component, CreateComponent(n, row)
      PROVE  Goal
  <2>1. Pending(m) = {}
    BY <1>7, PendingUnchanged DEF CreateComponent
  <2>2. entries[m].comp \in Component
    BY <1>7 DEF CreateComponent, cacheVars, cachedComponent, PublicComponent
  <2>3. entries[m].comp # db[m]
    BY <1>7, <2>2, Distinct DEF CreateComponent, cacheVars
  <2> QED BY <1>7, <2>1, <2>3 DEF CreateComponent, CacheCoherent, cacheVars
<1>8. ASSUME NEW n \in Names, NEW row \in Row, ForeignWrite(n, row) PROVE Goal
  <2>1. CASE n = m
    <3>1. entries[m].expiresAt <= now + TTL /\ entries[m].expiresAt \in Nat
      BY <1>8 DEF ForeignWrite, EntryBounds, cacheVars, cachedComponent, Time
    <3>2. now >= entries[m].expiresAt - TTL - LookupTimeout
      BY <3>1, <1>0
    <3> QED BY <1>8, <2>1, <3>2 DEF ForeignWrite, cacheVars
  <2>2. CASE n # m
    <3>1. Pending(m) = {}
      BY <1>8, PendingUnchanged DEF ForeignWrite
    <3> QED BY <1>8, <2>2, <3>1 DEF ForeignWrite, CacheCoherent, cacheVars
  <2> QED BY <2>1, <2>2
<1>9. CASE Tick
  BY <1>1, <1>9 DEF Tick, cacheVars, historyVars
<1>10. CASE UNCHANGED vars
  BY <1>1, <1>10 DEF vars, writerVars
<1>11. ASSUME NEW r \in Readers,
              Lookup(r) \/ PassThrough(r) \/ CheckFresh(r) \/ Do(r)
       PROVE  UNCHANGED <<db, entries, writerVars, lastForeign>>
  BY <1>11 DEF Lookup, PassThrough, CheckFresh, Do, cacheVars, historyVars
<1>12. ASSUME NEW n \in Names, CaptureGeneration(n) \/ ReadStore(n) \/ Deliver(n)
       PROVE  UNCHANGED <<db, entries, writerVars, lastForeign>>
  BY <1>12 DEF CaptureGeneration, ReadStore, Deliver, cacheVars, historyVars
<1> QED
  BY <1>1, <1>2, <1>3, <1>4, <1>5, <1>6, <1>7, <1>8, <1>9, <1>10, <1>11, <1>12
     DEF Next, ReaderStep, FlightStep, WriterStep, UpdateComponent,
         DeleteComponent, Row

LEMMA InvStep == CacheInv /\ [Next]_vars => CacheInv'
<1> SUFFICES ASSUME CacheInv, [Next]_vars PROVE CacheInv'
  OBVIOUS
<1>1. TypeOK'
  BY TypeStep DEF CacheInv
<1> QED
  BY <1>1, BoundsStep, FlightCoherentStep, CacheCoherentStep DEF CacheInv

LEMMA Invariance == Spec => []CacheInv
BY InitInv, InvStep, PTL DEF Spec

-----------------------------------------------------------------------------
(* What a reader is told of a name that was not changed behind the cache. *)

\* The rows a name may be said to have: the one in the table, and those that
\* a write which has yet to evict has replaced.
Current(n) == {db[n]} \cup {wold[w] : w \in Pending(n)}

\* An entry, and a result that insert is about to make one, is current.
NameFresh(n) ==
  lastForeign[n] = Never =>
    /\ entries[n] # NoEntry => entries[n].comp \in Current(n)
    /\ flight[n].phase = "read" /\ flight[n].gen = gen[n] /\ flight[n].result \in Component
         => flight[n].result \in Current(n)

\* A caller may be told the row in the table, the entry it has loaded, and
\* the result of the flight it leads, which began to read after it did.
ReaderFresh(r) ==
  lastForeign[rname[r]] = Never =>
    /\ rpc[r] \notin {"idle", "done"} => db[rname[r]] \in legal[r]
    /\ rpc[r] = "loaded" => rentry[r].comp \in legal[r]
    /\ /\ rpc[r] = "waiting" /\ rvia[r] # "join"
       /\ flight[rname[r]].phase \in {"read", "inserted"}
       => flight[rname[r]].result \in legal[r] \cup {StoreError}
    /\ rpc[r] = "done" /\ rvia[r] # "join" => ranswer[r] \in legal[r] \cup {StoreError}

FreshInv ==
  /\ \A n \in Names : NameFresh(n)
  /\ \A r \in Readers : ReaderFresh(r)

\* A step that adds rows to the ones a name may be said to have, and touches
\* neither its entry nor its flight.
LEMMA NameFreshKept ==
  ASSUME NEW n \in Names, NameFresh(n),
         entries'[n] = entries[n] \/ entries'[n] = NoEntry,
         (flight'[n] = flight[n] /\ gen'[n] = gen[n]) \/ flight'[n].phase # "read",
         lastForeign'[n] = lastForeign[n],
         Current(n) \subseteq Current(n)'
  PROVE  NameFresh(n)'
BY DEF NameFresh

LEMMA CurrentKept ==
  ASSUME UNCHANGED <<db, writerVars, wold>>, NEW n
  PROVE  Current(n)' = Current(n)
BY DEF Current, Pending, writerVars

LEMMA NameFreshStep ==
  ASSUME CacheInv, TypeOK', NEW m \in Names, NameFresh(m), [Next]_vars
  PROVE  NameFresh(m)'
<1> USE DEF CacheInv, TypeOK, cacheVars, historyVars
<1>0. flight[m] \in Flight /\ gen[m] \in Nat
  OBVIOUS
<1>1. CASE UNCHANGED <<db, entries, gen, flight, writerVars, lastForeign, wold>>
  BY <1>1, CurrentKept, NameFreshKept
<1>2. ASSUME NEW r \in Readers, DropExpired(r) PROVE NameFresh(m)'
  BY <1>2, CurrentKept, NameFreshKept DEF DropExpired
<1>3. ASSUME NEW r \in Readers, Do(r) PROVE NameFresh(m)'
  <2>1. flight'[m] = flight[m] \/ flight'[m].phase = "begun"
    BY <1>3 DEF Do, Idle
  <2> QED BY <1>3, <2>1, CurrentKept, NameFreshKept DEF Do
<1>4. ASSUME NEW n \in Names, CaptureGeneration(n) PROVE NameFresh(m)'
  <2>1. flight'[m] = flight[m] \/ flight'[m].phase = "reading"
    BY <1>0, <1>4 DEF CaptureGeneration, Flight
  <2> QED BY <1>4, <2>1, CurrentKept, NameFreshKept DEF CaptureGeneration
<1>5. ASSUME NEW n \in Names, ReadStore(n) PROVE NameFresh(m)'
  <2>1. flight'[m] = flight[m] \/ flight'[m].result \in {db[m], StoreError}
    BY <1>0, <1>5 DEF ReadStore, Flight
  <2>2. Current(m)' = Current(m) /\ db[m] \in Current(m)
    BY <1>5, CurrentKept DEF ReadStore, Current
  <2> QED BY <1>5, <2>1, <2>2, Distinct DEF ReadStore, NameFresh
\* insert caches what NameFresh says of the flight.
<1>6. ASSUME NEW n \in Names, insert(n) PROVE NameFresh(m)'
  <2>1. flight'[m] = flight[m] \/ flight'[m].phase = "inserted"
    BY <1>0, <1>6 DEF insert, Flight, Idle
  <2>2. Current(m)' = Current(m)
    BY <1>6, CurrentKept DEF insert
  <2>3. CASE entries'[m] = entries[m]
    BY <1>6, <2>1, <2>2, <2>3, NameFreshKept DEF insert
  <2>4. CASE entries'[m] # entries[m]
    <3>1. /\ n = m
          /\ flight[m].phase = "read"
          /\ flight[m].result.visibility = "public"
          /\ gen[m] = flight[m].gen
          /\ entries'[m] = [comp |-> flight[m].result, expiresAt |-> now + TTL]
      BY <1>6, <2>4 DEF insert
    <3>2. flight[m].result \in Component
      BY <1>0, <3>1 DEF Flight, Answer, Row, NoRow, StoreError
    <3>3. flight'[m].phase = "inserted"
      BY <1>6, <3>1 DEF insert, Idle
    <3> QED BY <1>6, <2>2, <3>1, <3>2, <3>3 DEF insert, NameFresh
  <2> QED BY <2>3, <2>4
<1>7. ASSUME NEW n \in Names, Deliver(n) PROVE NameFresh(m)'
  <2>1. flight'[m] = flight[m] \/ flight'[m].phase = "idle"
    BY <1>7 DEF Deliver, Idle
  <2> QED BY <1>7, <2>1, CurrentKept, NameFreshKept DEF Deliver
\* A commit keeps the row it replaces current until it has evicted.
<1>8. ASSUME NEW w \in Writers, NEW row \in Row, Commit(w, row) PROVE NameFresh(m)'
  <2>1. CASE ~enabled
    <3>1. entries'[m] = NoEntry /\ flight'[m].phase = "idle"
      BY <1>8, <2>1 DEF Commit, DisabledIdle
    <3> QED BY <3>1 DEF NameFresh
  <2>2. CASE enabled
    <3>1. ASSUME NEW v \in Pending(m) PROVE v \in Pending(m)' /\ wold'[v] = wold[v]
      BY <1>8, <3>1 DEF Commit, Pending
    <3>2. wname[w] = m => w \in Pending(m)' /\ wold'[w] = db[m]
      BY <1>8, <2>2 DEF Commit, Pending
    <3>3. wname[w] # m => db'[m] = db[m]
      BY <1>8 DEF Commit
    <3>4. Current(m) \subseteq Current(m)'
      BY <3>1, <3>2, <3>3 DEF Current
    <3> QED BY <1>8, <3>4, NameFreshKept DEF Commit
  <2> QED BY <2>1, <2>2
<1>9. ASSUME NEW w \in Writers, WriteFails(w) PROVE NameFresh(m)'
  <2>1. Pending(m)' = Pending(m)
    BY <1>9 DEF WriteFails, Pending
  <2>2. Current(m)' = Current(m)
    BY <1>9, <2>1 DEF WriteFails, Current
  <2> QED BY <1>9, <2>2, NameFreshKept DEF WriteFails
\* An evict takes the entry with it and moves the generation past the flight.
<1>10. ASSUME NEW w \in Writers, evict(w) PROVE NameFresh(m)'
  <2>1. CASE wname[w] = m
    <3>1. entries'[m] = NoEntry /\ gen'[m] = gen[m] + 1 /\ flight' = flight
      BY <1>10, <2>1 DEF evict
    <3>2. flight[m].phase = "read" => flight[m].gen <= gen[m] /\ flight[m].gen \in Nat
      BY <1>0 DEF FlightBounds, Flight
    <3> QED BY <1>0, <3>1, <3>2 DEF NameFresh
  <2>2. CASE wname[w] # m
    <3>1. ASSUME NEW v \in Pending(m) PROVE v \in Pending(m)' /\ wold'[v] = wold[v]
      BY <1>10, <2>2, <3>1 DEF evict, Pending
    <3>2. Current(m) \subseteq Current(m)'
      BY <1>10, <3>1 DEF evict, Current
    <3> QED BY <1>10, <2>2, <3>2, NameFreshKept DEF evict
  <2> QED BY <2>1, <2>2
\* A create finds no row: what is cached or about to be is an older one.
<1>11. ASSUME NEW n \in Names, NEW row \in Component, CreateComponent(n, row)
       PROVE  NameFresh(m)'
  <2>1. Pending(m)' = Pending(m)
    BY <1>11, PendingUnchanged DEF CreateComponent
  <2>2. Current(m) \ {NoRow} \subseteq Current(m)'
    BY <1>11, <2>1 DEF CreateComponent, Current
  <2>3. entries[m] # NoEntry => entries[m].comp # NoRow
    BY Distinct DEF cachedComponent, PublicComponent
  <2> QED BY <1>11, <2>2, <2>3, Distinct DEF CreateComponent, NameFresh
<1>12. ASSUME NEW n \in Names, NEW row \in Row, ForeignWrite(n, row) PROVE NameFresh(m)'
  <2>1. CASE n = m
    <3>1. lastForeign'[m] # Never
      BY <1>12, <2>1 DEF ForeignWrite, Never, Time
    <3> QED BY <3>1 DEF NameFresh
  <2>2. CASE n # m
    <3>1. Pending(m)' = Pending(m)
      BY <1>12, PendingUnchanged DEF ForeignWrite
    <3>2. Current(m)' = Current(m)
      BY <1>12, <2>2, <3>1 DEF ForeignWrite, Current
    <3> QED BY <1>12, <2>2, <3>2, NameFreshKept DEF ForeignWrite
  <2> QED BY <2>1, <2>2
<1>13. CASE Tick
  BY <1>1, <1>13 DEF Tick
<1>14. CASE UNCHANGED vars
  BY <1>1, <1>14 DEF vars, writerVars
<1>15. ASSUME NEW r \in Readers, Lookup(r) \/ PassThrough(r) \/ CheckFresh(r)
       PROVE  UNCHANGED <<db, entries, gen, flight, writerVars, lastForeign, wold>>
  BY <1>15 DEF Lookup, PassThrough, CheckFresh
<1> QED
  BY <1>1, <1>2, <1>3, <1>4, <1>5, <1>6, <1>7, <1>8, <1>9, <1>10, <1>11, <1>12,
     <1>13, <1>14, <1>15
     DEF Next, ReaderStep, FlightStep, WriterStep, UpdateComponent,
         DeleteComponent, Row

LEMMA ReaderFreshStep ==
  ASSUME CacheInv, TypeOK', NEW q \in Readers, ReaderFresh(q), NameFresh(rname[q]),
         [Next]_vars
  PROVE  ReaderFresh(q)'
<1> USE DEF CacheInv, TypeOK, cacheVars, readerVars, historyVars
<1> DEFINE m == rname[q]
<1>0. m \in Names /\ flight[m] \in Flight
  OBVIOUS
<1>1. ASSUME UNCHANGED <<db, flight, rname, lastForeign>>, legal'[q] = legal[q],
             rpc'[q] = rpc[q], rentry'[q] = rentry[q], rvia'[q] = rvia[q],
             ranswer'[q] = ranswer[q]
      PROVE  ReaderFresh(q)'
  BY <1>1 DEF ReaderFresh
\* A call begins.
<1>b. lastForeign[m] = Never => BeginLegal(q) = Current(m) /\ db[m] \in Current(m)
  BY DEF BeginLegal, Current
<1>2. ASSUME NEW r \in Readers, Lookup(r) PROVE ReaderFresh(q)'
  <2>1. CASE r # q
    BY <1>1, <1>2, <2>1 DEF Lookup
  <2>2. CASE r = q
    <3>1. /\ legal'[q] = BeginLegal(q) /\ rentry'[q] = entries[m]
          /\ rpc'[q] = IF entries[m] = NoEntry THEN "missed" ELSE "loaded"
      BY <1>2, <2>2 DEF Lookup
    <3> QED BY <1>2, <1>b, <3>1 DEF Lookup, ReaderFresh, NameFresh
  <2> QED BY <2>1, <2>2
<1>3. ASSUME NEW r \in Readers, PassThrough(r) PROVE ReaderFresh(q)'
  <2>1. CASE r # q
    BY <1>1, <1>3, <2>1 DEF PassThrough
  <2>2. CASE r = q
    <3>1. /\ legal'[q] = BeginLegal(q) /\ rpc'[q] = "done"
          /\ ranswer'[q] \in {db[m], StoreError}
      BY <1>3, <2>2 DEF PassThrough
    <3> QED BY <1>3, <1>b, <3>1 DEF PassThrough, ReaderFresh
  <2> QED BY <2>1, <2>2
<1>4. ASSUME NEW r \in Readers, CheckFresh(r) PROVE ReaderFresh(q)'
  <2>1. CASE r # q
    BY <1>1, <1>4, <2>1 DEF CheckFresh
  <2>2. CASE r = q
    BY <1>4, <2>2 DEF CheckFresh, ReaderFresh
  <2> QED BY <2>1, <2>2
<1>5. ASSUME NEW r \in Readers, DropExpired(r) PROVE ReaderFresh(q)'
  <2>1. CASE r # q
    BY <1>1, <1>5, <2>1 DEF DropExpired
  <2>2. CASE r = q
    BY <1>5, <2>2 DEF DropExpired, ReaderFresh
  <2> QED BY <2>1, <2>2
\* Whoever starts a flight has begun before the flight reads.
<1>6. ASSUME NEW r \in Readers, Do(r) PROVE ReaderFresh(q)'
  <2>1. flight'[m] = flight[m] \/ flight'[m].phase = "begun"
    BY <1>6 DEF Do, Idle
  <2>2. CASE r # q
    <3>1. rpc'[q] = rpc[q] /\ rvia'[q] = rvia[q]
      BY <1>6, <2>2 DEF Do
    <3> QED BY <1>6, <2>1, <3>1 DEF Do, ReaderFresh
  <2>3. CASE r = q
    <3>1. /\ rpc[q] = "missed" /\ rpc'[q] = "waiting"
          /\ rvia'[q] = "join" \/ flight'[m].phase = "begun"
      BY <1>6, <2>3 DEF Do, Idle
    <3> QED BY <1>6, <3>1 DEF Do, ReaderFresh
  <2> QED BY <2>2, <2>3
<1>7. ASSUME NEW n \in Names, CaptureGeneration(n) PROVE ReaderFresh(q)'
  <2>1. flight'[m] = flight[m] \/ flight'[m].phase = "reading"
    BY <1>0, <1>7 DEF CaptureGeneration, Flight
  <2> QED BY <1>7, <2>1 DEF CaptureGeneration, ReaderFresh
<1>8. ASSUME NEW n \in Names, ReadStore(n) PROVE ReaderFresh(q)'
  <2>1. flight'[m] = flight[m] \/ flight'[m].result \in {db[m], StoreError}
    BY <1>0, <1>8 DEF ReadStore, Flight
  <2> QED BY <1>8, <2>1 DEF ReadStore, ReaderFresh
<1>9. ASSUME NEW n \in Names, insert(n) PROVE ReaderFresh(q)'
  <2>1. \/ flight'[m] = flight[m]
        \/ flight[m].phase = "read" /\ flight'[m].result = flight[m].result
    BY <1>0, <1>9 DEF insert, Flight, Idle
  <2> QED BY <1>9, <2>1 DEF insert, ReaderFresh
<1>10. ASSUME NEW n \in Names, Deliver(n) PROVE ReaderFresh(q)'
  <2>1. CASE rpc[q] = "waiting" /\ m = n
    <3>1. /\ rpc'[q] = "done" /\ ranswer'[q] = flight[m].result
          /\ flight[m].phase = "inserted"
      BY <1>10, <2>1 DEF Deliver
    <3> QED BY <1>10, <2>1, <3>1 DEF Deliver, ReaderFresh
  <2>2. CASE ~(rpc[q] = "waiting" /\ m = n)
    <3>1. /\ rpc'[q] = rpc[q] /\ ranswer'[q] = ranswer[q]
          /\ rpc[q] = "waiting" => flight'[m] = flight[m]
      BY <1>10, <2>2 DEF Deliver
    <3> QED BY <1>10, <3>1 DEF Deliver, ReaderFresh
  <2> QED BY <2>1, <2>2
\* The table changes: callers under way may be told the new row.
<1>11. ASSUME NEW n \in Names, NEW row, db' = [db EXCEPT ![n] = row], Witnessed(n, row),
              UNCHANGED <<flight, readerVars, lastForeign>>
       PROVE  ReaderFresh(q)'
  <2>1. /\ legal[q] \subseteq legal'[q]
        /\ rpc[q] \notin {"idle", "done"} /\ m = n /\ lastForeign[m] = Never
             => row \in legal'[q]
    BY <1>11 DEF Witnessed
  <2>2. db'[m] = db[m] \/ (m = n /\ db'[m] = row)
    BY <1>11
  <2> QED BY <1>11, <2>1, <2>2 DEF ReaderFresh
<1>12. ASSUME NEW w \in Writers, NEW row \in Row, Commit(w, row) PROVE ReaderFresh(q)'
  BY <1>11, <1>12 DEF Commit
<1>13. ASSUME NEW w \in Writers, WriteFails(w) \/ evict(w) PROVE ReaderFresh(q)'
  BY <1>1, <1>13 DEF WriteFails, evict
<1>14. ASSUME NEW n \in Names, NEW row \in Component, CreateComponent(n, row)
       PROVE  ReaderFresh(q)'
  BY <1>11, <1>14 DEF CreateComponent
<1>15. ASSUME NEW n \in Names, NEW row \in Row, ForeignWrite(n, row) PROVE ReaderFresh(q)'
  <2>1. CASE n = m
    <3>1. lastForeign'[m] # Never
      BY <1>15, <2>1 DEF ForeignWrite, Never, Time
    <3> QED BY <1>15, <3>1 DEF ForeignWrite, ReaderFresh
  <2>2. CASE n # m
    BY <1>15, <2>2 DEF ForeignWrite, ReaderFresh
  <2> QED BY <2>1, <2>2
<1>16. CASE Tick
  BY <1>1, <1>16 DEF Tick
<1>17. CASE UNCHANGED vars
  BY <1>1, <1>17 DEF vars
<1> QED
  BY <1>2, <1>3, <1>4, <1>5, <1>6, <1>7, <1>8, <1>9, <1>10, <1>12, <1>13, <1>14,
     <1>15, <1>16, <1>17
     DEF Next, ReaderStep, FlightStep, WriterStep, UpdateComponent,
         DeleteComponent, Row

-----------------------------------------------------------------------------
(* Which entries go. *)

\* What a reader is about to remove had expired, and the clock does not go
\* back: time.Now is monotonic within a process.
ExpiredSeen == \A r \in Readers : rpc[r] = "expired" => rentry[r].expiresAt <= now

LEMMA ExpiredSeenStep ==
  ASSUME CacheInv, ExpiredSeen, [Next]_vars
  PROVE  ExpiredSeen'
<1> USE DEF CacheInv, TypeOK, ExpiredSeen, readerVars, historyVars
<1>e. \A r \in Readers : rentry[r].expiresAt \in Int
  BY DEF cachedComponent, NoEntry, Never, Time
<1>1. ASSUME NEW r \in Readers, ReaderStep(r) PROVE ExpiredSeen'
  BY <1>1, <1>e DEF ReaderStep, Lookup, PassThrough, CheckFresh, DropExpired, Do, Time
<1>2. ASSUME NEW n \in Names, FlightStep(n) PROVE ExpiredSeen'
  BY <1>2 DEF FlightStep, CaptureGeneration, ReadStore, insert, Deliver
<1>3. CASE Tick
  BY <1>3, <1>e DEF Tick, Time
<1>4. CASE UNCHANGED <<readerVars, now>>
  BY <1>4
<1> QED
  BY <1>1, <1>2, <1>3, <1>4
     DEF Next, WriterStep, UpdateComponent, DeleteComponent, Commit, WriteFails, evict,
         CreateComponent, ForeignWrite, vars

LEMMA EntryGoes ==
  ASSUME CacheInv, ExpiredSeen, [Next]_vars, NEW n \in Names,
         entries[n] # NoEntry, now < entries[n].expiresAt, entries'[n] = NoEntry
  PROVE  gen'[n] # gen[n]
<1> USE DEF CacheInv, TypeOK
<1>t. now \in Nat /\ entries[n].expiresAt \in Nat /\ gen[n] \in Nat
  BY DEF cachedComponent, Time
<1>1. ASSUME NEW r \in Readers, DropExpired(r) PROVE FALSE
  <2>1. rname[r] = n /\ entries[n].expiresAt = rentry[r].expiresAt
    BY <1>1 DEF DropExpired
  <2> QED BY <1>1, <1>t, <2>1 DEF DropExpired, ExpiredSeen
<1>2. ASSUME NEW m \in Names, insert(m) PROVE FALSE
  <2>1. [comp |-> flight[m].result, expiresAt |-> now + TTL].expiresAt # Never
    BY <1>t DEF Never
  <2> QED BY <1>2, <2>1 DEF insert, NoEntry
<1>3. ASSUME NEW w \in Writers, evict(w) PROVE gen'[n] # gen[n]
  BY <1>3, <1>t DEF evict
<1>4. CASE UNCHANGED entries
  BY <1>4
<1>5. ASSUME NEW r \in Readers, Lookup(r) \/ PassThrough(r) \/ CheckFresh(r) \/ Do(r)
      PROVE  UNCHANGED entries
  BY <1>5 DEF Lookup, PassThrough, CheckFresh, Do, cacheVars
<1> QED
  BY <1>1, <1>2, <1>3, <1>4, <1>5
     DEF Next, ReaderStep, FlightStep, CaptureGeneration, ReadStore, Deliver, WriterStep,
         UpdateComponent, DeleteComponent, Commit, WriteFails, CreateComponent,
         ForeignWrite, Tick, vars, cacheVars

-----------------------------------------------------------------------------
(* Singleflight: who waits for whom. *)

\* Whoever waits, waits for a flight that is under way.
NobodyStranded ==
  \A r \in Readers : rpc[r] = "waiting" => flight[rname[r]].phase # "idle"

\* A flight has exactly one leader among those who wait.
LeaderOf(r, n) == rpc[r] = "waiting" /\ rname[r] = n /\ rvia[r] = "lead"

OneLeader ==
  \A n \in Names :
    /\ flight[n].phase # "idle" => \E r \in Readers : LeaderOf(r, n)
    /\ \A q, r \in Readers : LeaderOf(q, n) /\ LeaderOf(r, n) => q = r

\* A reader that neither waits nor begins to is no part of it.
LEMMA OthersApart ==
  ASSUME TypeOK, NobodyStranded, OneLeader, NEW r \in Readers,
         rpc[r] # "waiting", rpc'[r] # "waiting", NEW p, NEW v, rpc' = [rpc EXCEPT ![r] = p],
         rvia' \in {rvia, [rvia EXCEPT ![r] = v]}, UNCHANGED <<flight, rname>>
  PROVE  NobodyStranded' /\ OneLeader'
<1>1. ASSUME NEW q \in Readers
      PROVE  /\ rpc'[q] = "waiting" <=> rpc[q] = "waiting"
             /\ \A n \in Names : LeaderOf(q, n)' <=> LeaderOf(q, n)
  BY DEF LeaderOf, TypeOK
<1> QED BY <1>1 DEF NobodyStranded, OneLeader

\* A flight that goes on keeps its callers.
LEMMA FlightGoesOn ==
  ASSUME NobodyStranded, OneLeader, UNCHANGED <<rpc, rname, rvia>>,
         \A m \in Names : flight'[m].phase # "idle" <=> flight[m].phase # "idle",
         rname \in [Readers -> Names]
  PROVE  NobodyStranded' /\ OneLeader'
BY DEF NobodyStranded, OneLeader, LeaderOf

LEMMA SingleFlightStep ==
  ASSUME TypeOK, NobodyStranded, OneLeader, [Next]_vars
  PROVE  NobodyStranded' /\ OneLeader'
<1>0. /\ flight \in [Names -> Flight] /\ rname \in [Readers -> Names]
      /\ rpc \in [Readers -> {"idle", "loaded", "expired", "missed", "waiting", "done"}]
      /\ rvia \in [Readers -> {"none", "hit", "lead", "join", "direct"}]
  BY DEF TypeOK
<1>1. ASSUME NEW r \in Readers, Lookup(r) \/ PassThrough(r) \/ CheckFresh(r) \/ DropExpired(r)
      PROVE  NobodyStranded' /\ OneLeader'
  <2>1. CASE Lookup(r)
    BY <1>0, <2>1, OthersApart DEF Lookup
  <2>2. CASE PassThrough(r)
    BY <1>0, <2>2, OthersApart DEF PassThrough
  <2>3. CASE CheckFresh(r)
    BY <1>0, <2>3, OthersApart DEF CheckFresh
  <2>4. CASE DropExpired(r)
    BY <1>0, <2>4, OthersApart DEF DropExpired
  <2> QED BY <1>1, <2>1, <2>2, <2>3, <2>4
<1>2. ASSUME NEW r \in Readers, Do(r)
      PROVE  NobodyStranded' /\ OneLeader'
  <2> DEFINE n == rname[r]
  <2>1. n \in Names /\ rpc[r] = "missed" /\ rpc' = [rpc EXCEPT ![r] = "waiting"] /\ rname' = rname
    BY <1>0, <1>2 DEF Do
  <2>2. CASE /\ flight[n].phase = "idle"
             /\ flight' = [flight EXCEPT ![n] = [Idle EXCEPT !.phase = "begun"]]
             /\ rvia' = [rvia EXCEPT ![r] = "lead"]
    <3>1. flight'[n].phase = "begun" /\ \A m \in Names \ {n} : flight'[m] = flight[m]
      BY <1>0, <2>1, <2>2 DEF Idle
    <3>2. \A q \in Readers : rpc[q] = "waiting" => rname[q] # n
      BY <2>2 DEF NobodyStranded
    <3>3. \A q \in Readers, m \in Names : LeaderOf(q, m)' <=> LeaderOf(q, m) \/ (q = r /\ m = n)
      BY <1>0, <2>1, <2>2 DEF LeaderOf
    <3>4. NobodyStranded'
      BY <1>0, <2>1, <3>1 DEF NobodyStranded
    <3>5. OneLeader'
      BY <2>1, <3>1, <3>2, <3>3 DEF OneLeader, LeaderOf
    <3> QED BY <3>4, <3>5
  <2>3. CASE flight[n].phase # "idle" /\ flight' = flight /\ rvia' = [rvia EXCEPT ![r] = "join"]
    <3>1. \A q \in Readers, m \in Names : LeaderOf(q, m)' <=> LeaderOf(q, m)
      BY <1>0, <2>1, <2>3 DEF LeaderOf
    <3> QED BY <1>0, <2>1, <2>3, <3>1 DEF NobodyStranded, OneLeader
  <2> QED BY <1>2, <2>2, <2>3 DEF Do
<1>3. ASSUME NEW n \in Names, CaptureGeneration(n) \/ ReadStore(n) \/ insert(n)
      PROVE  NobodyStranded' /\ OneLeader'
  <2>1. UNCHANGED <<rpc, rname, rvia>>
    BY <1>3 DEF CaptureGeneration, ReadStore, insert, readerVars
  <2>2. \E f : f.phase # "idle" /\ flight' = [flight EXCEPT ![n] = f]
    <3>1. flight[n] \in Flight
      BY <1>0
    <3>2. CASE CaptureGeneration(n)
      BY <3>1, <3>2 DEF CaptureGeneration, Flight
    <3>3. CASE ReadStore(n)
      BY <3>1, <3>3 DEF ReadStore, Flight
    <3>4. CASE insert(n)
      BY <3>4 DEF insert, Idle
    <3> QED BY <1>3, <3>2, <3>3, <3>4
  <2>3. flight[n].phase # "idle"
    BY <1>3 DEF CaptureGeneration, ReadStore, insert
  <2> QED BY <1>0, <2>1, <2>2, <2>3, FlightGoesOn
<1>4. ASSUME NEW n \in Names, Deliver(n)
      PROVE  NobodyStranded' /\ OneLeader'
  <2>1. flight' = [flight EXCEPT ![n] = Idle] /\ rname' = rname /\ rvia' = rvia
    BY <1>4 DEF Deliver
  <2>2. \A q \in Readers : rpc'[q] = "waiting" <=> rpc[q] = "waiting" /\ rname[q] # n
    BY <1>0, <1>4 DEF Deliver
  <2>3. \A q \in Readers, m \in Names : LeaderOf(q, m)' <=> LeaderOf(q, m) /\ m # n
    BY <2>1, <2>2 DEF LeaderOf
  <2>4. flight'[n].phase = "idle" /\ \A m \in Names \ {n} : flight'[m] = flight[m]
    BY <1>0, <2>1 DEF Idle
  <2> QED BY <1>0, <2>1, <2>2, <2>3, <2>4 DEF NobodyStranded, OneLeader
<1>5. CASE UNCHANGED <<flight, rpc, rname, rvia>>
  BY <1>0, <1>5, FlightGoesOn
<1> QED
  BY <1>1, <1>2, <1>3, <1>4, <1>5
     DEF Next, ReaderStep, FlightStep, WriterStep, UpdateComponent, DeleteComponent,
         Commit, WriteFails, evict, CreateComponent, ForeignWrite, Tick, vars, readerVars

-----------------------------------------------------------------------------
\* Every reachable state of the cache, the callers and the writers is well
\* typed; in particular what is cached is a public component, and never a
\* private one, a missing one or a store error.
THEOREM TypeCorrect == Spec => []TypeOK
<1>1. CacheInv => TypeOK
  BY DEF CacheInv
<1> QED BY <1>1, Invariance, PTL

\* Coherence: however lookups, evictions and foreign writes interleave, an
\* entry that differs from the table is waiting for a local eviction or is
\* explained by a foreign write that is at most TTL + LookupTimeout older
\* than the entry's expiry.
THEOREM Coherence == Spec => []CacheCoherent
<1>1. CacheInv => CacheCoherent
  BY DEF CacheInv
<1> QED BY <1>1, Invariance, PTL

\* The generation check: a result that insert is about to cache is as
\* coherent with the table as a cached entry.
THEOREM FlightCoherence == Spec => []FlightCoherent
<1>1. CacheInv => FlightCoherent
  BY DEF CacheInv
<1> QED BY <1>1, Invariance, PTL

\* GetComponent, answered from the cache or by its own flight: no row that an
\* acknowledged write had replaced before the call began, however lookups,
\* evictions and flights interleave, as long as nothing writes the table
\* behind the cache.
THEOREM OwnAnswers == Spec => []OwnAnswersFresh
<1>1. Init => FreshInv
  BY DEF Init, InitWith, FreshInv, NameFresh, ReaderFresh, Idle
<1>2. CacheInv /\ FreshInv /\ [Next]_vars => FreshInv'
  <2> SUFFICES ASSUME CacheInv, FreshInv, [Next]_vars PROVE FreshInv'
    OBVIOUS
  <2>1. TypeOK'
    BY InvStep DEF CacheInv
  <2>2. \A r \in Readers : rname[r] \in Names
    BY DEF CacheInv, TypeOK
  <2>3. ASSUME NEW n \in Names PROVE NameFresh(n)'
    BY <2>1, NameFreshStep DEF FreshInv
  <2>4. ASSUME NEW r \in Readers PROVE ReaderFresh(r)'
    BY <2>1, <2>2, ReaderFreshStep DEF FreshInv
  <2> QED BY <2>3, <2>4 DEF FreshInv
<1>3. FreshInv => OwnAnswersFresh
  BY DEF FreshInv, ReaderFresh, OwnAnswersFresh, Fresh
<1> QED BY <1>1, <1>2, <1>3, Invariance, PTL DEF Spec

\* An entry that is still fresh goes only with a write through the cache, never
\* with a reader that had found an earlier entry of its name expired.
THEOREM FreshStay == Spec => FreshEntriesStay
<1>1. Init => ExpiredSeen
  BY DEF Init, InitWith, ExpiredSeen
<1>2. CacheInv /\ ExpiredSeen /\ [Next]_vars => ExpiredSeen'
  BY ExpiredSeenStep
<1>3. ASSUME CacheInv, ExpiredSeen, [Next]_vars
      PROVE  \A n \in Names :
               entries[n] # NoEntry /\ now < entries[n].expiresAt /\ entries'[n] = NoEntry
                 => gen'[n] # gen[n]
  BY <1>3, EntryGoes
<1> QED BY <1>1, <1>2, <1>3, Invariance, PTL DEF Spec, FreshEntriesStay

\* sf.Do strands nobody and runs one function at a time: whoever waits in
\* GetComponent waits for a flight under way, which has exactly one leader, also
\* when a caller joins in the last moment before the result is handed out.  With
\* the fairness of the goroutines this is why every lookup returns.
THEOREM SingleFlight == Spec => [](NobodyStranded /\ OneLeader)
<1>1. Init => NobodyStranded /\ OneLeader
  BY DEF Init, InitWith, NobodyStranded, OneLeader, LeaderOf, Idle
<1>2. TypeOK /\ (NobodyStranded /\ OneLeader) /\ [Next]_vars => (NobodyStranded /\ OneLeader)'
  BY SingleFlightStep
<1> QED BY <1>1, <1>2, TypeCorrect, PTL DEF Spec
=============================================================================
