# packyard: a TLA+ model of the auth service

packyard serves package repositories (RPM, DEB, OCI) to subscribers. Its own
logic is the Go service under `src/auth`: it decides, for every package request
the reverse proxy forwards, whether the subscriber's key opens that component,
and it offers operators an admin API behind OAuth logins. These modules model
that logic: what TLC checks on small instances, and what TLAPS proves for every
size.

`PROJECT.json` holds the machine-readable side: components, runs, mutants, the
map from definitions to source lines, findings, hazards and theorems.

## 1. Inventory

| part | state it keeps | operations | what is hard |
|---|---|---|---|
| component cache (`store/cached_components.go`) | map of public components with expiry, a generation per name, singleflight calls | GetComponent, three evicting writes | lookups that overlap writes; entries that outlive a change made by another instance; callers that share a flight |
| subscriber store (`store/sqlite.go`, `store/accounts.go`) | components, accounts, subscription keys | one statement or transaction per method | soft deletion, cascades, which columns a statement looks at |
| accounts, keys, components API (`handler/*.go`) | none of its own | create, patch, delete, issue, revoke | checks and writes are separate store calls; rollback after a failure |
| forward-auth (`handler/forward_auth.go`) | none | allow or deny a pull, count it | three reads at three moments, the first through the cache |
| operators and sessions (`store/operators.go`, `store/sessions.go`, `handler/operators.go`) | operators, sessions | allowlist, role and status changes, force-logout | self-lockout, a force-logout that fails, a login under way |
| session and role middleware (`middleware/session.go`, `role.go`) | none | admit a request, touch its session | values read before the handler used after it; a clock that is set back |
| OAuth login (`handler/auth.go`, `auth/state.go`) | started flows, in memory | redirect, callback, logout, reap | one-time entries; cookies, states and codes of different flows; the operator changing during the callback |
| OAuth providers (`auth/github`, `auth/microsoft`) | none | exchange a code for an identity | several calls whose answers belong to different moments; claims that are absent |
| login rate limiter (`middleware/ratelimit.go`) | token bucket per address | check, reap | lazy refill, buckets that are dropped and come back |
| audit log (`audit/log.go`, `store/audit.go`) | the audit table, insert only | write a row, list rows | rows written after the commit, on a context that may be cancelled, under a name chosen before it |
| lists (`handler/*.go` List, `store` List...) | none | a page by offset and limit, its Link header | rows that come and go between two pages; the first and the last page |
| schema and migrations (`store/sqlite.go`) | the database file | create, back-fill, rebuild at startup | a stop or a power loss between two statements |
| CSRF guard, CSP, metrics, admin UI | none | checks on headers, output | see section 11 |
| publishing, proxy, backup | repositories on disk and in S3 | shell scripts and third-party configuration | order of publish steps |

How they interact. The proxy calls forward-auth with the original path and
credentials. Forward-auth and the components handler reach the component table
through the cache; the keys and accounts handlers hold the SQLite store itself
(`cmd/server/main.go:181-194`). Every HTTP request runs on its own goroutine.
The database pool has a single connection, so store methods are atomic but
nothing spans two of them. Admin requests pass session middleware, role gate,
handler, and on success a touch of the session on the way back.

What makes each part correct:

* cache: an acknowledged change is seen; a change made elsewhere is seen within
  a bounded time; nothing but public components is cached; a fresh entry is not
  lost to a lookup that found an older one expired; no caller hangs;
* subscriber tables: revocation is final; deleting an account or a component
  leaves no working key behind; the legacy account stays in service;
* forward-auth: nobody is let in without a component, a key and an account that
  were good during the request; uses are counted only for those let in;
* operators: there is always an active admin; only sessions and roles that held
  during the request admit it; a disabled operator is logged out; a session
  that ended stays ended; inactivity really ends a session;
* login: a started flow is good for one exchange, by a callback with its own
  state and on the path of its own provider;
  whoever gets a session was vouched for by the provider in this very callback
  and is an active operator; abandoned flows are forgotten;
* rate limiter: it is a token bucket;
* audit log: what it says did happen, and what it does not know can be named;
* lists: a client that follows the links knows which rows it cannot have missed;
* migration: however often it is cut short, no key is lost or changes hands, and
  a service that serves has the whole schema.

## 2. Modules

| module | models | lines of reasoning |
|---|---|---|
| `ComponentCache` | the cache, its callers, its writers, the clock | section 3 |
| `KeyStore` | the statements on components, accounts and keys | no Init/Next of its own: the operations other modules compose |
| `SubscriberApi` | extends `KeyStore` with the admin handlers, forward-auth and the cache between them | section 4 |
| `OperatorAccess` | operators, sessions, callback, middleware, operator handlers | section 5 |
| `OAuthLogin` | extends `OperatorAccess` with the redirect, the state store and both providers | section 6 |
| `TokenBucket` | abstract specification of the rate limiter | section 7 |
| `RateLimiter` | the limiter as coded; INSTANCEs `TokenBucket` under a refinement mapping | section 7 |
| `AuditTrail` | extends `SubscriberApi` with the rows its handlers owe the log | section 8 |
| `Listing` | the paged lists and a client of them | section 9 |
| `Migration` | the start of the store on an earlier database | section 9 |
| `MC...` | model values, symmetry sets and initial states of the runs | |
| `...Proofs` | theorems and lemmas | section 10 |

Conventions. Definitions keep the source's names. A step is one store call, or
one critical section, with the code up to the next one. A handler that fails
half-way (a store error, a refused validation, the process stopping) is the
action `Abort`, `LoginFails`, `PullFails` or `WriteFails`: what was written
stays. Variables called history in their comment are read by no guard and
decide nothing; they record what a property needs. Definitions introduced as
"Wrong variant" are not part of any specification: they are the mutants named
in `PROJECT.json`, each a plausible mistake in the definition that follows it,
and each makes TLC report the property it is listed with.

## 3. The component cache

`Lookup`, `CheckFresh` and `DropExpired` are the three pieces of `lookup`
(a read under the read lock, the comparison with the clock outside any lock,
the conditional delete under the write lock). `Do` is the entry to
singleflight: lead or join. `CaptureGeneration`, `ReadStore`, `insert` and
`Deliver` are the function the leader runs. `Commit` and `evict` are the two
halves of a write through the cache, `WriteFails` the one that evicts nothing.
`CreateComponent` is inherited and evicts nothing. `ForeignWrite` is a change
by another instance or by hand, external to the code. `PassThrough` is a caller
without the cache. Rows carry a visibility and an opaque content.

Time: `Tick` advances the clock, but never past the timeout of a store call in
flight; that the goroutine reaches `insert` within the same bound is an
assumption on the scheduler, without which no bound in terms of
`lookupTimeout` could hold.

Properties. `FlightCoherent` and `CacheCoherent` say that a result about to be
cached, and a cached entry, equal the row, or a local write has yet to evict,
or a foreign write explains the difference; and that this foreign write is at
most `TTL + LookupTimeout` older than the entry's expiry. That is how long a
component can still be served as public after it was made private elsewhere. It
is not what the repository says: `cached_components.go:36`, `main.go:126-128`
and `docs/reference/configuration.md:42` promise one TTL. The TTL of an entry
begins at its insert, and the row it shows was read up to a lookup timeout
before, so a change that lands between the two is seen one TTL after the insert,
which with the defaults may be 35 seconds instead of 30. The bound with one TTL
alone is false of the model; as the difference is a matter of seconds it is
stated here, and the property is the bound that the code keeps.
`OwnAnswersFresh` compares each answer with `legal`, the rows a linearizable
read could return. `FreshEntriesStay`: an entry that has not expired goes only
with a write through the cache. `lookup` removes an expired entry in a second
critical section, in which there may be a fresher one.
`EveryLookupReturns` is liveness under `Fairness`: weak fairness of the steps
of a lookup and a flight that have begun and of an eviction. The code justifies
it: no step but the store call blocks, and that call has a deadline. Arrivals
are not fair: nobody has to call the service.

`CacheJoin` is a violation run. A caller that arrives after a PATCH was
acknowledged can join a flight that read the row before it, and is told
"public" although the comment at `cached_components.go:34-36` calls the change
immediate. The generation check protects the map, not the answer.

## 4. Subscriber tables, admin API and forward-auth

`req[q]` is an admin request: handler, what it asked for, how far it is.
`pull[p]` is a forward-auth request. The actions by handler:

| handler | actions |
|---|---|
| accounts.Create | `CreateAccountRequest` |
| accounts.Update | `PreflightUpdate`, `PatchAccount` |
| accounts.Delete | `PreflightDelete`, `DeleteAccount` |
| accounts.IssueKey, keys.Create | `IssueCheckAccount`, `IssueCheckComponent`, `IssueInsert` |
| keys.Delete | `RevokeKeyRequest` |
| components.Create | `CreateComponentRequest`, `FinishCreate` (with the rollback) |
| components.Update, .Delete | `PreflightComponent`, `PatchComponent`, `DeleteComponentRequest`, `Evict` |
| forward-auth | `ResolveHit`, `ResolveMiss`, `CheckKey`, `CheckAccount`, `CountUse`, `PullFails` |
| the cache, on its own | `Insert`, `Land`, `Expire` |

Forward-auth asks the cached store for the component (`main.go:181`; the comment
"Live DB lookup" at `forward_auth.go:104` is older than the cache). `cache[n]`
is the cache as a handler can tell it: whether the component has an entry, and
the lookup of it that is under way with what it has read. `ResolveHit` is
answered from the entry. `ResolveMiss` begins a lookup (`BeginLookup`) or joins
the one under way, and `Land` answers all who wait. The writes of
`components.go` commit first and evict in a step of their own. An entry may
expire at any time, and changes by other instances are left to `ComponentCache`.

A key's expiry is abstracted to never, ahead and past; `Lapse` moves it. The
initial state is any database an earlier process could have left behind,
outlived keys included (they start out in `stray`).

A PATCH of an account asks for a status, another field, or nothing (`Patch`).

Properties. `AllowedForCause` uses the history `witnessed`: the facts that held
in some state between a pull's arrival and its answer, a change counting from
the moment its write has returned. One exception is made, and it is what
`CacheJoin` shows the program to do: a pull that joined the lookup of another
caller is told what that lookup read, so for its component the moment of that
reading (`shared`) counts too. `OnlyRacedKeysOutlive`
says precisely what the cascades guarantee: an active key of a deleted account
or an absent component exists only if its insert was overtaken (`stray`), its
component's create was rolled back, or it was there at startup. It is not true
that there are no such keys. `RevokedForGood`, `LegacyStaysActive` and
`UsageWithinPulls` are as their names say.

Violation runs. `ApiExpiry`: `GetByValue` looks at `active` only, so an expired
key opens its component. `ApiDeletedFinal`: the UPDATE of a patch has no
condition on the status, so a patch overtaken by a delete brings the account
back.

## 5. Operators, sessions and logins

`login[l]` is a callback from the operator lookup on; what comes before (state,
PKCE, provider exchange) is `OAuthLogin`'s and appears here as the operator and
the provider the callback arrives with. `req[r]` is an admin request with its
session cookie; its kind is all the role gate and the handlers distinguish
("write" for whatever needs an admin, `GET /operators` included).
`GetSession`, `CheckLifetime` and `GetOperator` are `RequireSession` with the
role gate; `Serve`, `CreateOperator`, `UpdateOperator`, `ForceLogout` and
`Logout` are the handlers; `Touch` is what `touchTrackingWriter` leads to. The
clock (`ClockMoves`) jumps anywhere within the bound, back as well: session
times are stored in the database, so no monotonic reading helps them.

Properties. `AtLeastOneAdmin`: mutual demotions and disablings never remove the
last active admin. `AdmittedForCause`: as in section 4, with session, operator
status and role. `DisabledAreLoggedOut` lists the only sessions a disabled
operator can have: opened by a login under way (`late`), spared by a
force-logout that failed (`spared`), or about to be deleted. So it shows that
every disabling leads to its force-logout, and not that this one works. `IdleWindow`: an
admitted request is at most `IdleLifetime` away from the opening of its session
or from an accepted request on it. `SessionsEndForGood` and `LoginRecordsKeep`
are action properties.

## 6. OAuth logins

`OAuthLogin` takes a login from the redirect to the lookup. `entries` is the
state store; `StartLogin` is the Login handler with its `Put`; `Consume`, `Reap`
and `EntriesAge` are what happens to an entry. `callback[l]` is a callback on
its way: accepted, refused or incomplete, then one action per HTTP call of
GitHub's `Exchange` (`ExchangeToken`, `FetchPrimaryVerifiedEmail`, `FetchUser`,
`RequireOrgMembership`) or the single `MicrosoftExchange`. A callback may carry
the cookie of one flow and the state and code (`query`) of another, on the path
of any provider; `Accepts` is the comparison that tells. The state and the code
of a query are of one flow, as the provider sends them; that it also checks the
PKCE verifier is not assumed. `CallbackLookup` and
`FinishLogin` are the actions of `OperatorAccess`, taken with the email the
provider vouched for. `Restart` empties the state store: it is memory.

The state store compares `time.Now` readings of one process, which are
monotonic, so an entry has an `age`; the clock `now` of sessions and claims is
the wall clock and may go back.

`FlowExchangedOnce`: of all callbacks with one cookie at most one gets past
`Consume`. `OneFlowPerLogin`: from the exchange to the session, a login's state and code
are of the flow whose entry its cookie consumed, and its provider the one that
flow was started with.
`LoggedInForCause`: the history `attested` keeps what the provider said, so an
unverified email, a pending invitation or a token of another tenant would show.
`EntriesGo` is liveness, under weak fairness of `EntriesAge` (time passes) and
`Reap` (the ticker of `reapLoop`, started with the server and stopped with it).
`ImplementsOperatorAccess` is the specification of `OperatorAccess`: with the
flows and the providers in front of it, access is what that module says, so what
is proved of it holds of the whole login.

## 7. Rate limiter

`TokenBucket` is the promise: every address has a bucket that fills with time
and a request is let through exactly when a token is there. `RateLimiter` is
the code: no bucket until the first request, the refill credited only by
`check`, full buckets dropped by `reap` at any time. Tokens are counted in
units of what one clock tick refills, so the `float64` fractions are whole
numbers. The refinement mapping `Level` credits the outstanding refill, and is
full where there is no bucket; `ImplementsTokenBucket` is `TokenBucket`'s
specification under it. `verdict` is part of the abstract state, so denials are
refined as well as allowances. The clock is monotone, as `time.Now` is within a
process; the floor at zero in `check` is therefore never needed.

`RateBound` is the sustained rate over any stretch of requests.

`AuditWindow` is a violation run. `ratelimit.go:26-29` and `:91-92` promise at
most one audit row per address and window (`OneAuditPerWindow`). A bucket that is
audited when it is a fraction of a token above empty is full before the window
is over; `reap` then drops it with its `lastAuditAt`, and the next burst is
audited again. `AuditsSpaced`, which is proved, is the distance the code does
keep: the window, or the time a bucket short of a token needs to become full.
With the defaults that is up to one token (six seconds) less than the minute.

## 8. The audit trail

`AuditTrail` takes the steps of `SubscriberApi` together with what they mean for
the log. A handler that has committed owes a row (`Owes`); `WriteFromRequest`
inserts it or loses it, and a process that stops never comes to it. A PATCH
names its row in the pre-flight (`NameOf`) and commits later. The components
handlers write no rows (`AuditComponents`).

`TrailIsTrue`: an issue, a creation or a deletion the log tells of did happen,
whatever came in between the checks and the write, and no second request has a
row of it: a DELETE that came second must not be recorded. A key with a row of a
revoke is revoked, though not always by that request.
`RevocationsExplained`: every revoked key has a row
of its revoke or of its account's deletion (in the log, lost or due), but for
those revoked with a component and those from before. The run checks the
properties of the tables and the pulls (section 4) along with these.

`RevokeRows` is a violation run. `handler/keys.go:127-129` says a `key.revoke`
row is written only when the call revoked an active key. The UPDATE in
`RevokeKey` has no condition on `active`, so it matches the row of a key that
was revoked before, and the handler records it again; its branch for that case,
after `ErrNotFound`, is never taken by one.

## 9. Lists and migration

`Listing`. A list is a set of ranks: the order (newest first, ties by id, or by
name) is a total one, and a new row may get any rank in it. `Select` is the
query, `Fetched` the handlers' extra row, `NextOffset`, `PrevOffset`, `HasMore`
and `HasPrev` are `writePaginationLinks`. A client begins anywhere and follows
the links of one direction. Rows of the audit log, keys and operators never
leave a list (`AppendOnly`); accounts and components do. `NextMissesNothing`:
along the next links nothing is missed that is still there, unless a row left;
so nothing at all for the lists that only grow. `PrevMissesNothing` is the
counterpart: backwards it is the inserts that hide rows. `WalksEnd` assumes that
a client that keeps asking is answered (`FairSpec`), and the bound on rows: a
list that grows faster than it is read has no end.

`Migration`. One action per statement of `NewSQLiteStore`, from the pragmas to
the last index; those of the rebuild act on `tx`, the others commit. `Stop` is
an error or the end of the process anywhere; `PowerLoss` may also take back the
commits since the last `Checkpoint`, as `synchronous=NORMAL` with a WAL allows.
`Init` is any database of an earlier version, or half-migrated. SQLite's part
(atomic commit, foreign keys, indexes that go with a renamed or dropped table,
`IF NOT EXISTS` going by name) is external. `KeysKept` is about the committed
database, so about every state a later start may find: `owed` is the account
each key must end up with. `ServesMigrated` and `ServesIndexed` say what the
rest of the service relies on; `EventuallyServes` that no statement is refused
on a legal database, under weak fairness of `Start` (the container is restarted
unless stopped, `compose.yml`) and finitely many interruptions.

## 10. Runs, bounds and proofs

| run | result | instance |
|---|---|---|
| `Cache` | pass | 1 name, cached or not, 2 lookups, 1 write, foreign writes, TTL 1, timeout 1, clock to 2, with liveness |
| `CacheJoin` | violation | clock to 1 |
| `Subscribers` | pass | 2 admin requests, 1 pull, 1 component, legacy and 1 account, 1 key |
| `ApiExpiry`, `ApiDeletedFinal`, `RevokeRows` | violation | small |
| `Access` | pass | 2 operators, 1 session, 2 requests, 1 login, idle time 1, lifetime 2, clock to 3 |
| `OAuth` | pass | 2 operators, 2 sessions, 2 providers, 2 flows, 2 callbacks, entries of age up to 2, clock to 2 |
| `RateLimiter` | pass | 2 addresses, 2 tokens of 2 units, window 4, clock to 6 |
| `AuditWindow` | violation | 1 address, otherwise as above |
| `Migration` | pass | all databases of 2 keys and 2 accounts, 3 interruptions |
| `Listing` | pass | 5 ranks, pages of 1 to 3 rows |

Why the bounds are enough. Names do not interact in the cache, so one is enough;
one write gives an eviction before, during and after every step of a lookup, two
lookups a leader and a joiner or a hit and a miss. A clock to two, and an entry
that may be there at the start, let a row be read, changed elsewhere, inserted a
timeout later, served and expire: at the end of it the bound of `CacheCoherent`
is met exactly, and a clock that does not wait for the store call passes it
(mutant `TickNoTimeout`). Two writes at a time are left to the theorems.
Two admin requests are a check and the request that overtakes it, or a change
and what undoes or repeats it; the pull meets their changes between any two of
its reads, with an entry or a lookup of others to find. A key tried on another
component than its own needs two of them, and three requests at a time are more
than fits: both are covered by the theorems. Two operators are what the lockout
guard needs to be wrong; two requests and a login are the disabling, its
force-logout and what slips in between, or two touches of one session.
The clock has three values: a session that is there at the start
passes its absolute expiry, and one that a login opens its idle time of one, with
a lifetime of two. Two flows and two callbacks are a reload, a mix-up, and two logins
of one operator through different providers. Six ticks let a bucket of four
units be drained, refilled, reaped and drained again. Two keys and two accounts
are a key with an account and one without; three interruptions stop the schema,
the migration and the rebuild once each. Five rows in pages of up to three have
full, short and one-row pages on both ends and in the middle.
Deadlock is not checked: the instances have finitely many requests and stop when
all are answered. Constants named `Max...` bound the model alone. Symmetry is
over identities the specification treats alike; runs with liveness use none.
`MCOAuthLogin` starts without sessions, with admins only: a login takes no
notice of either. `MCOperatorAccess` starts at the first moment, with any
operators and sessions but for the names of the operators.

What is proved, for all values of the constants, from the named assumptions of
the modules (`CacheConstants`, `KeyStoreConstants`, `SomeOfEach`,
`AccessConstants`, `LimiterConstants`):

* `ComponentCacheProofs`: `TypeCorrect` (which says that entries are of public
  components), `FlightCoherence`, `Coherence`. The
  inductive invariant `CacheInv` adds `FlightBounds` (a captured generation is
  not ahead, a flight is not older than the timeout), `EntryBounds` (no entry
  expires later than a TTL from now) and the shape of a disabled cache. The
  argument: a commit makes its writer pending, an evict leaves every captured
  generation behind, and `insert` hands `FlightCoherent` over to
  `CacheCoherent`. `OwnAnswers` adds `FreshInv`: until a name is first written
  behind the cache, its entry, and the result of its flight while the generation
  stands, is the row or one a pending write replaced (`NameFresh`), and what a
  caller has in hand is in its `legal` set (`ReaderFresh`). A caller that joins
  a flight is the exception the property makes, and `CacheJoin` shows why.
  `FreshStay`: a lookup removes only the entry it found expired, which it knows
  by its expiry, and an expiry does not come back as the clock goes on.
  `SingleFlight`: whoever waits has a flight under way to wait for, with exactly
  one leader; this is the safety part of `EveryLookupReturns`.
* `SubscriberApiProofs`: `ApiTypeCorrect`, `LegacySafe`, `CascadesComplete`,
  `ForwardAuthSound`, `RevocationFinal`, `UsageSound`. Every step is shown to run at most one
  `Statement` of the store; what statements preserve is proved once.
  `PullProgress` strengthens `AllowedForCause`: how far a pull is tells what it
  has witnessed, and the key row it found stays under the account it read, which
  is why checking the account read with the key is enough. `CacheWitnessed` does
  the same for the cache: an entry, and a row that may still be inserted, is one
  the table has or an unfinished write has just replaced, and what a lookup has
  read is among what held then (`shared`). `UsageInv` says of
  each key that the pulls allowed with it are finitely many and at least its
  `usage_count`: the count rises only with a pull that has just been allowed.
* `OperatorAccessProofs`: `AccessTypeCorrect`, `NoLockout`, `AdmissionSound`,
  `SessionsEnd`, `LoginRecords`, `DisabledLoggedOut`, `IdleWindowHolds`,
  `LifetimeHolds`. `AccessInv` ties each admitted request to its witnesses and
  every callback under way to an operator with a row; `NoLockout` needs that a
  set of more than one admins does not become empty by losing one, which is
  where the finiteness of `Operators` is used. `LoginRecords` needs that the
  provider seen first is among the known ones (`FirstSeenKnown`).
  `DisabledAreLoggedOut` is inductive: the step that disables leaves its request
  at the force-logout (`DisablingStep`), which stays due until the sessions are
  gone or recorded as spared (`PendingStep`), and a session of a disabled
  operator that is new was opened too late (`SessionOrigin`). `IdleInv` says
  that every `last_seen_at`, in the table and in the rows requests hold, is the
  time of some activity, and so is the time a request is about to touch its
  session with; the clock may go back, so no order of times is used. It also
  gives `RowCurrent`: the row a request read and the table agree on the expiry
  and the operator for as long as the session exists.
* `RateLimiterProofs`: `LimiterTypeCorrect`, `RateBounded`, `AuditsApart`,
  `Refinement`. Four lemmas say what each step does to `Level`; the refinement
  follows directly, `Spent` (what was taken since the i-th request and what is
  left now) makes the rate bound inductive, `LastAudit` the distance of rows.
* `OAuthLoginProofs`: `OAuthTypeCorrect`, `FlowsExchangedOnce`,
  `FlowsNotMixed`, `LoginSound`, `LoginRefinement`. `OAuthInv` says that the flow
  of a callback has been started and its entry is gone (`FlowSpent`: no other
  callback can get it, handles being unique), that an entry names the provider
  its flow was started with (`EntriesTrue`), and, for how far a callback is, what
  the provider has said by then (`Vouched`). `FlowsNotMixed` rests on the
  comparison in `Accepts` and on `EntriesTrue`. The refinement needs it: a lookup is a
  step of `OperatorAccess` only because the email is an operator's.
  `AccessSafeWithLogins` draws the conclusion: all the theorems on operators and
  sessions, for the callbacks as they are.
* `AuditTrailProofs`: `AuditTypeCorrect`, `TrailTrue`, `RevocationsTold`,
  `AuditRefinement`, and from the last all the theorems on the
  tables and the pulls (`AuditedTablesSafe`). `AuditInv` speaks of rows that are
  owed, lost or written alike: what they tell is so (`RowTrue`), no two requests
  have the same (`RowAlone`), and a request with a row is over (`Settled`).
  Every handler is
  shown to do to the log what `Told` allows, once; that `Told` keeps the
  invariant is one lemma. An account the log calls deleted may be back only
  through a PATCH, which is what the history `reopened` records.
* `MigrationProofs`: `MigrationTypeCorrect`, `NoKeyLost`, `ServesCurrentSchema`,
  `ServesBothIndexes`. `MigrationInv` says that every database a power loss may
  go back to is one a start can begin from (`PastSound`), in which table the
  transaction has the rows at each of its statements (`TxSound`), and what has
  been committed when a statement is next (`Progress`).
* `ListingProofs`: `ListingTypeCorrect`, `NextWalksComplete`,
  `PrevWalksComplete`, `WalksShorten`. Along next, the rows still due are at or after the next
  offset; along prev, before the end of the next page. It rests on counting: a
  page of a list has all rows of the positions it covers, and the extra row is
  fetched exactly if there is a row beyond them. `Ahead` is the measure
  behind `WalksEnd`: the rows from the next offset to the end of the list as it
  is now, or the offset along prev. Every page but the last lowers it, as a next
  link is only given to an offset the list reaches (`MoreIsInside`), and only a
  row that comes in raises it, by one. The bound on rows plays no part in this: a
  walk is as long as what was ahead of it and what came in meanwhile.

The later four add the assumptions `OAuthConstants`, `MigrationConstants` and
`ListingConstants`.

Only model-checked: the liveness properties `EveryLookupReturns`, `EntriesGo`,
`EventuallyServes` and `WalksEnd`, as fairness is outside what the prover
handles. What is safety in two of them is proved: `SingleFlight` and
`WalksShorten`. All other properties of the passing runs are theorems. `FreshInv`,
`FirstSeenKnown`, `IdleInv`, `RowCurrent` and the singleflight
invariant were checked by TLC on instances like those above as well.

## 11. What is not modelled, and observations

Not modelled: audit rows of logins and of operator changes, CSRF and CSP checks
(stateless comparisons of headers), metrics, the admin UI, publish and backup
scripts, the proxy. `PROJECT.json` gives the reason for each.
`SubscriberApi` has the cache without its clock and without other instances: how
late a change made elsewhere is seen is `ComponentCache`'s subject.

Met while reading, described here and not given a run:

* `accounts.IssueKey` mints keys for the legacy account, which `keys.Create`
  refuses (`handler/keys.go:223-225`); `IssueCheckAccount` models the
  difference.
* A change behind the cache is seen up to TTL plus lookup timeout later, not one
  TTL (section 3).
* An allowed pull is allowed whether or not its use could be counted
  (`CountUse`); no property asks for that.
* An issue request overtaken by the deletion of its account inserts an active
  key (in `stray`); the comment at `handler/accounts.go:588-589` expects the
  foreign key to refuse it, but a soft-deleted account keeps its row.
  Forward-auth still denies the key, as the account is not active.
* Logout writes its audit row whether or not a session was removed.
* The key list filters and decorates by maps built at startup
  (`cmd/server/main.go:63-85`), so later components are unknown to it.
* A login overtaken by a disabling opens its session after the force-logout
  (`late` in `OperatorAccess`), and that session works again once the operator
  is re-enabled, against `docs/ops/operator-onboarding.md:208-209`.
* A callback without `state` or `code` clears the cookie but leaves the entry
  (`handler/auth.go:138`), the asymmetry that the comment at 123-127 avoids for
  an unknown provider. `EntriesGo` is what bounds it.
* The comment at `auth/microsoft/provider.go:177-178` wants a missing `nbf` to
  fail closed; lines 186-191 accept it. `ValidateClaims` is the code.
* `docs/ops/admin-migration-runbook.md:28-31` calls the migration one
  serialisable transaction. Only the rebuild is one; adding the column, its
  index and the back-fill commit on their own. `KeysKept` and `EventuallyServes`
  show that this does no harm. The runbook's check at line 226 looks for
  `legacy@packyard.local`, the code seeds `legacy@packyard.internal`.
* `DROP TABLE IF EXISTS subscription_key_old` would discard the keys of a
  rebuild that had stopped between rename and copy. In one transaction that
  cannot be; `InTxAutocommit`, a mutant, shows what it would be without.
* `docs/reference/architecture.md:110` says every mutating operator action
  writes an audit row; the components handlers write none, and neither does a
  callback for an unknown provider.
* A PATCH chooses the name of its row from the status its pre-flight read, so one
  that another request overtook can carry a name that does not fit what its
  UPDATE did: two suspensions at a time are two `account.suspend` rows, and a
  suspension between the pre-flight and the UPDATE of a PATCH to active leaves
  the re-activation an `account.update`. `NameOf` models it; nothing in the
  repository promises otherwise, and no property is stated.
* `ListKeys` orders by creation time alone, without the tie-break the other
  lists have; `Listing` takes equal times to come in a stable order, as SQLite
  happens to return them.

## 12. Plan

1. Audit rows of logins and operator changes.
2. Pure functions against reference definitions: `extractComponent`, the origin
   check of the CSRF guard, the client address.

Running it: `tlc -config <run>.cfg <module>` with the module `PROJECT.json`
names for the run, and `tlapm <module>Proofs.tla`.
