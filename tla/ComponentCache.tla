--------------------------- MODULE ComponentCache ---------------------------
(***************************************************************************)
(* The in-memory cache of public components that sits between the         *)
(* forward-auth endpoint and the SQLite component table                    *)
(* (auth/internal/store/cached_components.go).                             *)
(*                                                                         *)
(* Three kinds of processes share it:                                      *)
(*   Readers  one GetComponent call each: look the name up, drop an        *)
(*            expired entry, and on a miss start or join the singleflight  *)
(*            call of that name;                                           *)
(*   flights  the function singleflight runs, at most one per name at a    *)
(*            time: capture the generation, read the store, insert, hand   *)
(*            the result to every caller that waits for it;                *)
(*   Writers  one UpdateComponent, DeleteComponent or                      *)
(*            DeleteComponentWithRevoke call each: commit in the store,    *)
(*            then evict the name and bump its generation.                 *)
(* A row of the table can also be changed behind the cache's back, by      *)
(* another instance of the service or by a direct edit of the database.    *)
(***************************************************************************)
EXTENDS Integers

CONSTANTS
  Names,          \* component names
  Contents,       \* what a row says beside its visibility (the RPM lists)
  Readers,        \* GetComponent calls
  Writers,        \* mutating calls that go through the cache
  TTL,            \* lifetime of an entry; 0 disables the cache
  LookupTimeout,  \* bound on the store call behind a miss
  MaxTime         \* bound of the model: the clock stops there

ASSUME CacheConstants ==
  /\ TTL \in Nat
  /\ LookupTimeout \in Nat
  /\ MaxTime \in Nat

VARIABLES
  db,         \* the components table: a row for every name, or NoRow
  entries,    \* the cache: an entry for every name, or NoEntry
  gen,        \* the generation of every name
  flight,     \* the singleflight call of every name
  rpc,        \* where each reader is
  rname,      \* the name it asked for
  rentry,     \* the entry it loaded in lookup
  rvia,       \* how it got its answer: from a hit, as leader, by joining
  ranswer,    \* what GetComponent returned to it
  wpc,        \* where each writer is
  wname,      \* the name it writes
  now,        \* the clock, time.Now()
  lastForeign,\* history: when a row was last changed behind the cache
  wold,       \* history: the row a writer replaced
  legal       \* history: the rows a reader may be told (see BeginLegal)

cacheVars   == <<entries, gen>>
readerVars  == <<rpc, rname, rentry, rvia, ranswer>>
writerVars  == <<wpc, wname>>
historyVars == <<lastForeign, wold, legal>>
vars == <<db, entries, gen, flight, rpc, rname, rentry, rvia, ranswer,
          wpc, wname, now, lastForeign, wold, legal>>

-----------------------------------------------------------------------------
(***************************************************************************)
(* Values                                                                  *)
(***************************************************************************)
Component  == [visibility : {"public", "private"}, content : Contents]
NoRow      == [visibility |-> "absent"]
Row        == Component \cup {NoRow}
StoreError == [visibility |-> "unavailable"]
Answer     == Row \cup {StoreError}

Time  == Nat
Never == -(LookupTimeout + 1)

\* cachedComponent: the component and the moment it stops being served.
PublicComponent == {c \in Component : c.visibility = "public"}
cachedComponent == [comp : PublicComponent, expiresAt : Time]
NoEntry         == [expiresAt |-> Never]

\* One singleflight call.  phase walks through the function's statements.
Flight == [phase : {"idle", "begun", "reading", "read", "inserted"},
           gen : Nat, started : Time, result : Answer]
Idle   == [phase |-> "idle", gen |-> 0, started |-> 0, result |-> NoRow]

enabled == TTL > 0

TypeOK ==
  /\ db \in [Names -> Row]
  /\ entries \in [Names -> cachedComponent \cup {NoEntry}]
  /\ gen \in [Names -> Nat]
  /\ flight \in [Names -> Flight]
  /\ rpc \in [Readers -> {"idle", "loaded", "expired", "missed", "waiting",
                          "done"}]
  /\ rname \in [Readers -> Names]
  /\ rentry \in [Readers -> cachedComponent \cup {NoEntry}]
  /\ rvia \in [Readers -> {"none", "hit", "lead", "join", "direct"}]
  /\ ranswer \in [Readers -> Answer]
  /\ wpc \in [Writers -> {"idle", "committed", "done"}]
  /\ wname \in [Writers -> Names]
  /\ now \in Time
  /\ lastForeign \in [Names -> Time \cup {Never}]
  /\ wold \in [Writers -> Row]
  /\ legal \in [Readers -> SUBSET Row]

\* A table in any state, and a cache that holds cached[row] for each row of it.
InitWith(cached) ==
  /\ db \in [Names -> Row]
  /\ entries = [n \in Names |-> cached[db[n]]]
  /\ gen = [n \in Names |-> 0]
  /\ flight = [n \in Names |-> Idle]
  /\ rpc = [r \in Readers |-> "idle"]
  /\ rname \in [Readers -> Names]
  /\ rentry = [r \in Readers |-> NoEntry]
  /\ rvia = [r \in Readers |-> "none"]
  /\ ranswer = [r \in Readers |-> StoreError]
  /\ wpc = [w \in Writers |-> "idle"]
  /\ wname \in [Writers -> Names]
  /\ now = 0
  /\ lastForeign = [n \in Names |-> Never]
  /\ wold = [w \in Writers |-> NoRow]
  /\ legal = [r \in Readers |-> {}]

\* NewCachedComponentStore.
Init == InitWith([row \in Row |-> NoEntry])

-----------------------------------------------------------------------------
(***************************************************************************)
(* History: what a reader may be told.  A call that begins now may be      *)
(* answered with the row as it is, with a row that a write still under way *)
(* replaced (that write has not returned yet), or with any row the name    *)
(* takes on before the call returns.  It is kept for a name until its row  *)
(* is first changed behind the cache.                                      *)
(***************************************************************************)
Pending(n) == {w \in Writers : wpc[w] = "committed" /\ wname[w] = n}

BeginLegal(r) ==
  IF lastForeign[rname[r]] # Never THEN {}
  ELSE {db[rname[r]]} \cup {wold[w] : w \in Pending(rname[r])}

\* The history's part of a step that makes `row` the row of name n.
Witnessed(n, row) ==
  legal' = [r \in Readers |->
              IF rpc[r] \notin {"idle", "done"} /\ rname[r] = n
                   /\ lastForeign[n] = Never
              THEN legal[r] \cup {row} ELSE legal[r]]

-----------------------------------------------------------------------------
(***************************************************************************)
(* GetComponent                                                            *)
(***************************************************************************)

\* lookup, the read of the map under RLock.
Lookup(r) ==
  /\ enabled
  /\ rpc[r] = "idle"
  /\ rentry' = [rentry EXCEPT ![r] = entries[rname[r]]]
  /\ rpc' = [rpc EXCEPT ![r] = IF entries[rname[r]] = NoEntry
                                 THEN "missed" ELSE "loaded"]
  /\ legal' = [legal EXCEPT ![r] = BeginLegal(r)]
  /\ UNCHANGED <<db, cacheVars, flight, rname, rvia, ranswer, writerVars, now,
                 lastForeign, wold>>

\* The store is asked directly, and answers or fails: every call while the
\* cache is disabled, and at any time those of the handlers that hold the
\* store itself (the keys and accounts handlers).
PassThrough(r) ==
  /\ rpc[r] = "idle"
  /\ rpc' = [rpc EXCEPT ![r] = "done"]
  /\ rvia' = [rvia EXCEPT ![r] = "direct"]
  /\ ranswer' \in {[ranswer EXCEPT ![r] = a] : a \in {db[rname[r]], StoreError}}
  /\ legal' = [legal EXCEPT ![r] = BeginLegal(r)]
  /\ UNCHANGED <<db, cacheVars, flight, rname, rentry, writerVars, now,
                 lastForeign, wold>>

\* lookup, time.Now().Before(e.expiresAt): a fresh entry is the answer.
CheckFresh(r) ==
  /\ rpc[r] = "loaded"
  /\ \/ /\ now < rentry[r].expiresAt
        /\ rpc' = [rpc EXCEPT ![r] = "done"]
        /\ rvia' = [rvia EXCEPT ![r] = "hit"]
        /\ ranswer' = [ranswer EXCEPT ![r] = rentry[r].comp]
        /\ rentry' = [rentry EXCEPT ![r] = NoEntry]
     \/ /\ now >= rentry[r].expiresAt
        /\ rpc' = [rpc EXCEPT ![r] = "expired"]
        /\ UNCHANGED <<rvia, ranswer, rentry>>
  /\ UNCHANGED <<db, cacheVars, flight, rname, writerVars, now, historyVars>>

\* Wrong variant: whatever entry is there by now is removed.
DropWhateverIsThere(r) ==
  /\ rpc[r] = "expired"
  /\ entries' = [entries EXCEPT ![rname[r]] = NoEntry]
  /\ rpc' = [rpc EXCEPT ![r] = "missed"]
  /\ rentry' = [rentry EXCEPT ![r] = NoEntry]
  /\ UNCHANGED <<db, gen, flight, rname, rvia, ranswer, writerVars, now,
                 historyVars>>

\* lookup, the second critical section: the expired entry is removed unless
\* another one has taken its place.
DropExpired(r) ==
  /\ rpc[r] = "expired"
  /\ entries' = [entries EXCEPT ![rname[r]] =
                   IF @.expiresAt = rentry[r].expiresAt THEN NoEntry ELSE @]
  /\ rpc' = [rpc EXCEPT ![r] = "missed"]
  /\ rentry' = [rentry EXCEPT ![r] = NoEntry]
  /\ UNCHANGED <<db, gen, flight, rname, rvia, ranswer, writerVars, now,
                 historyVars>>

\* sf.Do: the first caller of a name runs the function, the others wait for it.
Do(r) ==
  LET n == rname[r] IN
  /\ rpc[r] = "missed"
  /\ rpc' = [rpc EXCEPT ![r] = "waiting"]
  /\ \/ /\ flight[n].phase = "idle"
        /\ flight' = [flight EXCEPT ![n] = [Idle EXCEPT !.phase = "begun"]]
        /\ rvia' = [rvia EXCEPT ![r] = "lead"]
     \/ /\ flight[n].phase # "idle"
        /\ rvia' = [rvia EXCEPT ![r] = "join"]
        /\ UNCHANGED flight
  /\ UNCHANGED <<db, cacheVars, rname, rentry, ranswer, writerVars, now,
                 historyVars>>

\* The function: gen := c.generation(name), and the store call begins.
CaptureGeneration(n) ==
  /\ flight[n].phase = "begun"
  /\ flight' = [flight EXCEPT ![n] = [@ EXCEPT !.phase = "reading",
                                            !.gen = gen[n], !.started = now]]
  /\ UNCHANGED <<db, cacheVars, readerVars, writerVars, now, historyVars>>

\* The function: the store's SELECT, or its failure or timeout.
ReadStore(n) ==
  /\ flight[n].phase = "reading"
  /\ \E a \in {db[n], StoreError} :
       flight' = [flight EXCEPT ![n] = [@ EXCEPT !.phase = "read",
                                                 !.result = a]]
  /\ UNCHANGED <<db, cacheVars, readerVars, writerVars, now, historyVars>>

\* Wrong variant: whatever the lookup returned is cached.
insertAnyResult(n) ==
  /\ flight[n].phase = "read"
  /\ flight' = [flight EXCEPT ![n] = [Idle EXCEPT !.phase = "inserted",
                                               !.result = flight[n].result]]
  /\ entries' = IF gen[n] = flight[n].gen
                THEN [entries EXCEPT ![n] = [comp |-> flight[n].result,
                                             expiresAt |-> now + TTL]]
                ELSE entries
  /\ UNCHANGED <<db, gen, readerVars, writerVars, now, historyVars>>

\* The function: insert, for a public component whose generation has not moved.
insert(n) ==
  /\ flight[n].phase = "read"
  /\ flight' = [flight EXCEPT ![n] = [Idle EXCEPT !.phase = "inserted",
                                               !.result = flight[n].result]]
  /\ entries' = IF flight[n].result.visibility = "public" /\ gen[n] = flight[n].gen
                THEN [entries EXCEPT ![n] = [comp |-> flight[n].result,
                                             expiresAt |-> now + TTL]]
                ELSE entries
  /\ UNCHANGED <<db, gen, readerVars, writerVars, now, historyVars>>

\* Wrong variant: the result goes to the caller that ran the function alone.
DeliverToLeader(n) ==
  LET leader == {r \in Readers : rpc[r] = "waiting" /\ rname[r] = n /\ rvia[r] = "lead"} IN
  /\ flight[n].phase = "inserted"
  /\ flight' = [flight EXCEPT ![n] = Idle]
  /\ ranswer' = [r \in Readers |-> IF r \in leader THEN flight[n].result
                                                   ELSE ranswer[r]]
  /\ rpc' = [r \in Readers |-> IF r \in leader THEN "done" ELSE rpc[r]]
  /\ UNCHANGED <<db, cacheVars, rname, rentry, rvia, writerVars, now,
                 historyVars>>

\* sf.Do returns: the result goes to the leader and to everyone who joined.
Deliver(n) ==
  LET waiting == {r \in Readers : rpc[r] = "waiting" /\ rname[r] = n} IN
  /\ flight[n].phase = "inserted"
  /\ flight' = [flight EXCEPT ![n] = Idle]
  /\ ranswer' = [r \in Readers |-> IF r \in waiting THEN flight[n].result
                                                    ELSE ranswer[r]]
  /\ rpc' = [r \in Readers |-> IF r \in waiting THEN "done" ELSE rpc[r]]
  /\ UNCHANGED <<db, cacheVars, rname, rentry, rvia, writerVars, now,
                 historyVars>>

-----------------------------------------------------------------------------
(***************************************************************************)
(* The writing calls                                                       *)
(***************************************************************************)

\* The inner store's transaction commits: a new row, or no row any more.
\* UpdateComponent and the two deletes report an absent row and write nothing.
Commit(w, row) ==
  LET n == wname[w] IN
  /\ wpc[w] = "idle"
  /\ db[n] # NoRow
  /\ db' = [db EXCEPT ![n] = row]
  /\ wpc' = [wpc EXCEPT ![w] = IF enabled THEN "committed" ELSE "done"]
  /\ wold' = [wold EXCEPT ![w] = db[n]]
  /\ Witnessed(n, row)
  /\ UNCHANGED <<cacheVars, flight, readerVars, wname, now, lastForeign>>

UpdateComponent(w) == \E row \in Component : Commit(w, row)
DeleteComponent(w) == Commit(w, NoRow)

\* The inner call fails (no such row, or the store is unavailable): no evict.
WriteFails(w) ==
  /\ wpc[w] = "idle"
  /\ wpc' = [wpc EXCEPT ![w] = "done"]
  /\ UNCHANGED <<db, cacheVars, flight, readerVars, wname, now, historyVars>>

\* Wrong variant: the generation stays.
evictSameGeneration(w) ==
  LET n == wname[w] IN
  /\ wpc[w] = "committed"
  /\ entries' = [entries EXCEPT ![n] = NoEntry]
  /\ wpc' = [wpc EXCEPT ![w] = "done"]
  /\ wold' = [wold EXCEPT ![w] = NoRow]
  /\ UNCHANGED <<db, gen, flight, readerVars, wname, now, lastForeign, legal>>

\* Wrong variant: the entry stays.
evictNothing(w) ==
  LET n == wname[w] IN
  /\ wpc[w] = "committed"
  /\ gen' = [gen EXCEPT ![n] = @ + 1]
  /\ wpc' = [wpc EXCEPT ![w] = "done"]
  /\ wold' = [wold EXCEPT ![w] = NoRow]
  /\ UNCHANGED <<db, entries, flight, readerVars, wname, now, lastForeign, legal>>

\* evict, after a successful write; then the call returns to its handler.
evict(w) ==
  LET n == wname[w] IN
  /\ wpc[w] = "committed"
  /\ entries' = [entries EXCEPT ![n] = NoEntry]
  /\ gen' = [gen EXCEPT ![n] = @ + 1]
  /\ wpc' = [wpc EXCEPT ![w] = "done"]
  /\ wold' = [wold EXCEPT ![w] = NoRow]
  /\ UNCHANGED <<db, flight, readerVars, wname, now, lastForeign, legal>>

\* CreateComponent is not overridden: it reaches the store and evicts nothing.
CreateComponent(n, row) ==
  /\ db[n] = NoRow
  /\ db' = [db EXCEPT ![n] = row]
  /\ Witnessed(n, row)
  /\ UNCHANGED <<cacheVars, flight, readerVars, writerVars, now, lastForeign,
                 wold>>

\* Another instance, or a direct edit of the database, changes the row.
ForeignWrite(n, row) ==
  /\ db[n] # row
  /\ db' = [db EXCEPT ![n] = row]
  /\ lastForeign' = [lastForeign EXCEPT ![n] = now]
  /\ legal' = [r \in Readers |-> IF rname[r] = n THEN {} ELSE legal[r]]
  /\ UNCHANGED <<cacheVars, flight, readerVars, writerVars, now, wold>>

\* Wrong variant: the store call has no timeout of its own.
TickNoTimeout ==
  /\ now < MaxTime
  /\ now' = now + 1
  /\ UNCHANGED <<db, cacheVars, flight, readerVars, writerVars, historyVars>>

\* Time passes, but a store call never lasts longer than its timeout.  That
\* insert follows within the same bound is an assumption on the scheduler.
Tick ==
  /\ now < MaxTime
  /\ \A n \in Names : flight[n].phase \in {"reading", "read"}
                        => now - flight[n].started < LookupTimeout
  /\ now' = now + 1
  /\ UNCHANGED <<db, cacheVars, flight, readerVars, writerVars, historyVars>>

-----------------------------------------------------------------------------
ReaderStep(r) ==
  Lookup(r) \/ PassThrough(r) \/ CheckFresh(r) \/ DropExpired(r) \/ Do(r)

FlightStep(n) ==
  CaptureGeneration(n) \/ ReadStore(n) \/ insert(n) \/ Deliver(n)

WriterStep(w) ==
  UpdateComponent(w) \/ DeleteComponent(w) \/ WriteFails(w) \/ evict(w)

Next ==
  \/ \E r \in Readers : ReaderStep(r)
  \/ \E n \in Names : FlightStep(n)
  \/ \E w \in Writers : WriterStep(w)
  \/ \E n \in Names, row \in Component : CreateComponent(n, row)
  \/ \E n \in Names, row \in Row : ForeignWrite(n, row)
  \/ Tick

Spec == Init /\ [][Next]_vars

(***************************************************************************)
(* Goroutines that can run do run, and the store call returns (at the      *)
(* latest when its context times out).  Nobody has to call the service,    *)
(* so the first step of a call is not fair.                                *)
(***************************************************************************)
Fairness ==
  /\ \A r \in Readers : WF_vars(CheckFresh(r) \/ DropExpired(r) \/ Do(r))
  /\ \A n \in Names : WF_vars(FlightStep(n))
  /\ \A w \in Writers : WF_vars(evict(w))

FairSpec == Spec /\ Fairness

-----------------------------------------------------------------------------
(***************************************************************************)
(* Properties                                                              *)
(***************************************************************************)

\* The row a lookup in flight is about to insert, when its generation still
\* matches: it can differ from the table only while a local write has yet to
\* evict, or because of a foreign write after the lookup captured its
\* generation.
FlightCoherent ==
  \A n \in Names :
    ( /\ flight[n].phase = "read"
      /\ flight[n].gen = gen[n]
      /\ flight[n].result \in Component
      /\ flight[n].result # db[n]
      /\ Pending(n) = {} )
    => lastForeign[n] >= flight[n].started

\* Coherence and the revocation bound.  Once every local write of a name has
\* returned, a cached entry equals the row in the table, unless the row was
\* changed behind the cache; and that change is then younger than TTL plus
\* one lookup timeout counted back from the entry's expiry, so the entry
\* stops being served at most that long after the change.  (insert's
\* generation check, evict after the commit and the timeout of the store call
\* are what this rests on.)  The comment at cached_components.go:36, main.go
\* and configuration.md promise one TTL: the code does not give that, because
\* the TTL is counted from the insert and not from the read before it.
CacheCoherent ==
  \A n \in Names :
    ( /\ entries[n] # NoEntry
      /\ entries[n].comp # db[n]
      /\ Pending(n) = {} )
    => lastForeign[n] >= entries[n].expiresAt - TTL - LookupTimeout

\* A fresh entry goes only with a write through the cache: a reader that found
\* an earlier entry of the name expired, and comes to remove it after others
\* have renewed it, leaves the new one alone.  (The comparison of expiresAt in
\* the second critical section of lookup: "a concurrent fresher insert is
\* never discarded".)
FreshEntriesStay ==
  [][\A n \in Names :
       entries[n] # NoEntry /\ now < entries[n].expiresAt /\ entries'[n] = NoEntry
         => gen'[n] # gen[n]]_vars

\* Whether an answer is a row the reader was entitled to, see BeginLegal;
\* names that were changed behind the cache are left to CacheCoherent.
Fresh(r) ==
  \/ rpc[r] # "done"
  \/ ranswer[r] = StoreError
  \/ lastForeign[rname[r]] # Never
  \/ ranswer[r] \in legal[r]

\* A GetComponent answered from the cache, or by its own store call, never
\* returns a row that was replaced by a write that had returned before the
\* call began.  Callers that joined another's flight share its leader's
\* answer, see ChangeIsImmediate.
OwnAnswersFresh == \A r \in Readers : rvia[r] # "join" => Fresh(r)

\* "a public->private change is immediate on this instance"
\* (cached_components.go:34-36): nobody who asks after the change has been
\* acknowledged is told the component is public.
ChangeIsImmediate ==
  \A r \in Readers : ranswer[r].visibility = "public" => Fresh(r)

\* Every GetComponent that has begun returns: nobody waits for ever for a
\* flight, and no follower of a flight is forgotten when it lands.
EveryLookupReturns ==
  \A r \in Readers : (rpc[r] # "idle") ~> (rpc[r] = "done")
=============================================================================
