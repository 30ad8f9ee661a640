---------------------------- MODULE SubscriberApi ----------------------------
(***************************************************************************)
(* The handlers that work on the subscriber tables                         *)
(* (auth/internal/handler): the admin API for accounts, keys and           *)
(* components, and the forward-auth endpoint that decides whether a        *)
(* subscriber may fetch a package.                                         *)
(*                                                                         *)
(* Every HTTP request runs on a goroutine of its own and reaches the store *)
(* through one method call after another, so other requests' calls fall    *)
(* between its checks and its writes.  A request is a record that          *)
(* remembers which handler it runs, what it asked for and how far it is;   *)
(* every action below is one store call with the code up to the next one.  *)
(*                                                                         *)
(* Forward-auth and the components handler reach the components table      *)
(* through the cache of cached_components.go; the keys and accounts        *)
(* handlers hold the store itself (main.go).  The cache is reduced here to *)
(* what those handlers can tell: whether a component is cached, and the    *)
(* lookup of it that is under way.  Its statements, its clock, and writes  *)
(* behind its back are the subject of ComponentCache.                      *)
(***************************************************************************)
EXTENDS KeyStore

CONSTANTS
  Requests,     \* admin API requests
  Pulls         \* forward-auth requests

ASSUME SomeOfEach == Components # {} /\ Keys # {}

VARIABLES
  req,          \* the state of every admin request
  pull,         \* the state of every forward-auth request
  cache,        \* the cache, for every component
  stray,        \* history: keys issued to a deleted account or an absent
                \* component, stranded by the rollback of a create, or
                \* already outlived when the service started
  shared,       \* history: what held when the lookup under way read the table
  witnessed     \* history: what held at some moment of each pull

vars == <<components, accounts, keys, req, pull, cache, stray, shared, witnessed>>

-----------------------------------------------------------------------------
(***************************************************************************)
(* Requests                                                                *)
(***************************************************************************)
Handlers == {"accounts.Update", "accounts.Delete", "accounts.IssueKey", "keys.Create",
             "components.Create", "components.Update", "components.Delete"}

\* replaced: the visibility a write has replaced, until it has evicted.
Request == [at : {"new", "component", "write", "rollback", "evict", "done"},
            handler : Handlers \cup {"none"},
            account : Accounts, component : Components, status : Patch,
            visibility : Visibility \cup {"keep"},
            replaced : Visibility \cup {"none"}]

Pull == [at : {"new", "lookup", "credential", "account", "count", "done"},
         component : Components, key : Keys, account : Accounts,
         verdict : {"none", "denied", "allowed", "allowed-public"}]

AnyAccount   == CHOOSE a \in Accounts : TRUE
AnyComponent == CHOOSE n \in Components : TRUE
AnyKey       == CHOOSE k \in Keys : TRUE

NewRequest == [at |-> "new", handler |-> "none", account |-> AnyAccount,
               component |-> AnyComponent, status |-> "keep",
               visibility |-> "keep", replaced |-> "none"]

NewPull == [at |-> "new", component |-> AnyComponent, key |-> AnyKey,
            account |-> AnyAccount, verdict |-> "none"]

\* Only public components have an entry.  A lookup under way holds what it has
\* read: a public row that is yet to be inserted, one that is not inserted
\* (any more), a private row, or no row ("absent", a failed store call too).
Cached == [entry : BOOLEAN,
           lookup : {"none", "public", "settled", "private", "absent"}]

\* An active key whose account is deleted or whose component is gone.
Outlived(k) ==
  /\ keys[k] # NoKey
  /\ keys[k].active
  /\ \/ accounts[keys[k].account] = "deleted"
     \/ components[keys[k].component] = "absent"

Facts == {"public", "component", "key", "unexpired", "account"}

TypeOK ==
  /\ TablesTypeOK
  /\ req \in [Requests -> Request]
  /\ pull \in [Pulls -> Pull]
  /\ cache \in [Components -> Cached]
  /\ stray \in SUBSET Keys
  /\ shared \in [Components -> SUBSET Facts]
  /\ witnessed \in [Pulls -> SUBSET Facts]

\* History: a component is public, or there, while the table says so and until
\* the write that changed that has returned.
TableFacts(n) ==
  LET Held(seen) == \/ components[n] \in seen
                    \/ \E q \in Requests : /\ req[q].at = "evict" /\ req[q].component = n
                                           /\ req[q].replaced \in seen
  IN {f \in {"public", "component"} :
        Held(IF f = "public" THEN {"public"} ELSE Visibility)}

\* The service has been up for a while: public components may be cached, and
\* lookups under way for callers that are not among Pulls.
CacheInit ==
  /\ cache \in [Components -> Cached]
  /\ \A n \in Components :
       /\ cache[n].entry => components[n] = "public"
       /\ cache[n].lookup # "none" => components[n] = cache[n].lookup
  /\ shared = [n \in Components |-> IF cache[n].lookup = "none" THEN {}
                                   ELSE TableFacts(n)]

Init ==
  /\ TablesInit
  /\ req = [q \in Requests |-> NewRequest]
  /\ pull = [p \in Pulls |-> NewPull]
  /\ CacheInit
  /\ stray = {k \in Keys : Outlived(k)}
  /\ witnessed = [p \in Pulls |-> {}]

\* The response: the request is over, and what it asked for is forgotten.
Answered == [NewRequest EXCEPT !.at = "done"]

Respond(q) == req' = [req EXCEPT ![q] = Answered]

Goto(q, point) == req' = [req EXCEPT ![q] = [@ EXCEPT !.at = point]]

Running(q, handler, point) == req[q].handler = handler /\ req[q].at = point

\* A new request runs up to a point, with what it asked for.
Arrive(q, handler, a, n, status, visibility, point) ==
  /\ req[q].at = "new"
  /\ req' = [req EXCEPT ![q] = [at |-> point, handler |-> handler, account |-> a,
                                component |-> n, status |-> status,
                                visibility |-> visibility, replaced |-> "none"]]

\* History: the facts that hold for a pull's component, key and account in a
\* state of its lifetime.
FactsOf(p) ==
  LET n == pull[p].component  k == pull[p].key IN
  TableFacts(n) \cup
  {f \in {"key", "unexpired", "account"} :
     \/ f = "key" /\ GetByValue(k) /\ keys[k].component = n
     \/ f = "unexpired" /\ keys[k] # NoKey /\ keys[k].expires_at # "past"
     \/ f = "account" /\ keys[k] # NoKey /\ accounts[keys[k].account] = "active"}

\* History: a pull that waits for a lookup another caller has begun is told
\* what that lookup read, so the moment of the reading counts for it.
Witness ==
  /\ shared' = [n \in Components |->
       CASE cache'[n].lookup = "none" -> {}
         [] cache[n].lookup = "none" /\ cache'[n].lookup # "none" -> TableFacts(n)'
         [] OTHER -> shared[n]]
  /\ witnessed' = [p \in Pulls |->
       CASE pull'[p].at = "new" \/ pull'[p].verdict = "denied" -> {}
         [] pull[p].at = "done" -> witnessed[p]
         [] OTHER -> witnessed[p] \cup FactsOf(p)' \cup
              (IF pull'[p].at = "lookup" THEN shared'[pull'[p].component] ELSE {})]

-----------------------------------------------------------------------------
(***************************************************************************)
(* accounts.go                                                             *)
(***************************************************************************)

\* Create: one INSERT.
CreateAccountRequest(q, a) ==
  /\ req[q].at = "new"
  /\ CreateAccount(a)
  /\ Respond(q)
  /\ UNCHANGED <<pull, cache, stray>>
  /\ Witness

\* Update and Delete: the pre-flight GetAccount.
PreflightUpdate(q, a, status) ==
  /\ GetAccount(a)
  /\ Arrive(q, "accounts.Update", a, AnyComponent, status, "keep", "write")
  /\ UNCHANGED <<tables, pull, cache, stray>>
  /\ Witness

PreflightDelete(q, a) ==
  /\ GetAccount(a)
  /\ Arrive(q, "accounts.Delete", a, AnyComponent, "keep", "keep", "write")
  /\ UNCHANGED <<tables, pull, cache, stray>>
  /\ Witness

\* Update: the UPDATE.
PatchAccount(q) ==
  LET a == req[q].account  status == req[q].status IN
  /\ Running(q, "accounts.Update", "write")
  /\ \/ UpdateAccount(a, status)
     \/ ~UpdateAccountAllowed(a, status) /\ UNCHANGED tables
  /\ Respond(q)
  /\ UNCHANGED <<pull, cache, stray>>
  /\ Witness

\* Delete: the cascade.
DeleteAccount(q) ==
  LET a == req[q].account IN
  /\ Running(q, "accounts.Delete", "write")
  /\ \/ DeleteAccountWithCascade(a)
     \/ ~DeleteAccountAllowed(a) /\ UNCHANGED tables
  /\ Respond(q)
  /\ UNCHANGED <<pull, cache, stray>>
  /\ Witness

-----------------------------------------------------------------------------
(***************************************************************************)
(* accounts.go IssueKey and keys.go                                        *)
(***************************************************************************)

\* The account must be active.  keys.Create turns the legacy account away
\* first; accounts.IssueKey does not.
IssueCheckAccount(q, handler, a, n) ==
  /\ handler = "keys.Create" => a # Legacy
  /\ accounts[a] = "active"
  /\ Arrive(q, handler, a, n, "keep", "keep", "component")
  /\ UNCHANGED <<tables, pull, cache, stray>>
  /\ Witness

IssueCheckComponent(q) ==
  /\ req[q].handler \in {"accounts.IssueKey", "keys.Create"}
  /\ req[q].at = "component"
  /\ IF components[req[q].component] # "absent" THEN Goto(q, "write")
                                                ELSE Respond(q)
  /\ UNCHANGED <<tables, pull, cache, stray>>
  /\ Witness

IssueInsert(q, k, expiry) ==
  LET a == req[q].account  n == req[q].component IN
  /\ req[q].handler \in {"accounts.IssueKey", "keys.Create"}
  /\ req[q].at = "write"
  /\ CreateKeyForAccount(k, a, n, expiry)
  /\ Respond(q)
  /\ stray' = IF accounts[a] = "deleted" \/ components[n] = "absent"
              THEN stray \cup {k} ELSE stray
  /\ UNCHANGED <<pull, cache>>
  /\ Witness

\* keys.Delete: the UPDATE.  A key that was revoked before is answered 204 too.
RevokeKeyRequest(q, k) ==
  /\ req[q].at = "new"
  /\ RevokeKey(k)
  /\ Respond(q)
  /\ UNCHANGED <<pull, cache, stray>>
  /\ Witness

-----------------------------------------------------------------------------
(***************************************************************************)
(* components.go                                                           *)
(***************************************************************************)

\* Create: the INSERT, then the RPM directories.
CreateComponentRequest(q, n, visibility) ==
  /\ CreateComponent(n, visibility)
  /\ Arrive(q, "components.Create", AnyAccount, n, "keep", visibility, "rollback")
  /\ UNCHANGED <<pull, cache, stray>>
  /\ Witness

\* The write has committed; the entry is yet to be evicted.
ToEvict(q) ==
  req' = [req EXCEPT ![q] = [@ EXCEPT !.at = "evict",
                                      !.replaced = components[req[q].component]]]

\* initRPMTree succeeds, or fails and the row is deleted again by name.
FinishCreate(q) ==
  LET n == req[q].component IN
  /\ Running(q, "components.Create", "rollback")
  /\ \/ Respond(q) /\ UNCHANGED <<tables, stray>>
     \/ /\ DeleteComponent(n)
        /\ stray' = stray \cup {k \in Keys : keys[k].active /\ keys[k].component = n}
        /\ ToEvict(q)
  /\ UNCHANGED <<pull, cache>>
  /\ Witness

\* Update and Delete read the component first, through the cache: an entry, or
\* a lookup under way, may still tell of a row that is gone.  (The lookup they
\* may begin themselves is to others as one a pull has begun.)
PreflightComponent(q, handler, n, visibility) ==
  /\ \/ components[n] # "absent"
     \/ cache[n].entry
     \/ cache[n].lookup \in {"settled", "private"}
  /\ Arrive(q, handler, AnyAccount, n, "keep", visibility, "write")
  /\ UNCHANGED <<tables, pull, cache, stray>>
  /\ Witness

PatchComponent(q) ==
  LET n == req[q].component IN
  /\ Running(q, "components.Update", "write")
  /\ \/ UpdateComponent(n, req[q].visibility) /\ ToEvict(q)
     \/ components[n] = "absent" /\ UNCHANGED tables /\ Respond(q)
  /\ UNCHANGED <<pull, cache, stray>>
  /\ Witness

DeleteComponentRequest(q) ==
  LET n == req[q].component IN
  /\ Running(q, "components.Delete", "write")
  /\ \/ DeleteComponentWithRevoke(n) /\ ToEvict(q)
     \/ components[n] = "absent" /\ UNCHANGED tables /\ Respond(q)
  /\ UNCHANGED <<pull, cache, stray>>
  /\ Witness

\* Wrong variant: a lookup under way is not told.
EvictEntryOnly(q) ==
  LET n == req[q].component IN
  /\ req[q].at = "evict"
  /\ cache' = [cache EXCEPT ![n] = [@ EXCEPT !.entry = FALSE]]
  /\ Respond(q)
  /\ UNCHANGED <<tables, pull, stray>>
  /\ Witness

\* evict: the entry goes, and the generation moves, so a lookup that is under
\* way does not insert what it has read.  Then the request is answered.
Evict(q) ==
  LET n == req[q].component IN
  /\ req[q].at = "evict"
  /\ cache' = [cache EXCEPT ![n] =
       [entry |-> FALSE, lookup |-> IF @.lookup = "public" THEN "settled" ELSE @.lookup]]
  /\ Respond(q)
  /\ UNCHANGED <<tables, pull, stray>>
  /\ Witness

\* A request may be refused by its first check (validation, no such row, no
\* confirm), any later store call may fail, and the process may stop between
\* two calls: what was written stays, the rest does not happen.  Nothing can
\* fail between a write and its evict, and a process that stops there takes
\* the cache with it.
Abort(q) ==
  /\ req[q].at \notin {"evict", "done"}
  /\ Respond(q)
  /\ UNCHANGED <<tables, pull, cache, stray>>
  /\ Witness

-----------------------------------------------------------------------------
(***************************************************************************)
(* forward_auth.go                                                         *)
(***************************************************************************)
Denied == [NewPull EXCEPT !.at = "done", !.verdict = "denied"]

Deny(p) == pull' = [pull EXCEPT ![p] = Denied]

\* GetComponent, a hit: public, no key needed.
ResolveHit(p, n) ==
  /\ pull[p].at = "new"
  /\ cache[n].entry
  /\ pull' = [pull EXCEPT ![p] = [@ EXCEPT !.at = "done", !.component = n,
                                           !.verdict = "allowed-public"]]
  /\ UNCHANGED <<tables, req, cache, stray>>
  /\ Witness

\* The function singleflight runs: capture the generation and read the table.
\* (A generation that moves between the two only keeps the row out of the
\* cache, as Expire may.)
BeginLookup(n) ==
  /\ cache[n].lookup = "none"
  /\ \E row \in {components[n], "absent"} :
       cache' = [cache EXCEPT ![n] = [@ EXCEPT !.lookup = row]]

\* GetComponent, a miss (no entry, or an expired one): the caller begins a
\* lookup, or joins the one under way.
ResolveMiss(p, n, k) ==
  /\ pull[p].at = "new"
  /\ pull' = [pull EXCEPT ![p] = [@ EXCEPT !.at = "lookup", !.component = n, !.key = k]]
  /\ \/ BeginLookup(n)
     \/ cache[n].lookup # "none" /\ UNCHANGED cache
  /\ UNCHANGED <<tables, req, stray>>
  /\ Witness

\* What forward-auth makes of the component: unknown is denied, public needs no
\* key.
Resolved(r, row) ==
  CASE row = "settled" -> [r EXCEPT !.at = "done", !.verdict = "allowed-public"]
    [] row = "private" -> [r EXCEPT !.at = "credential"]
    [] OTHER -> Denied

\* insert: a public row whose generation has not moved.
Insert(n) ==
  /\ cache[n].lookup = "public"
  /\ cache' = [cache EXCEPT ![n] = [entry |-> TRUE, lookup |-> "settled"]]
  /\ UNCHANGED <<tables, req, pull, stray>>
  /\ Witness

\* sf.Do returns, to the caller that began the lookup and to all who joined.
Land(n) ==
  /\ cache[n].lookup \notin {"none", "public"}
  /\ cache' = [cache EXCEPT ![n] = [@ EXCEPT !.lookup = "none"]]
  /\ pull' = [p \in Pulls |->
       IF pull[p].at = "lookup" /\ pull[p].component = n
       THEN Resolved(pull[p], cache[n].lookup) ELSE pull[p]]
  /\ UNCHANGED <<tables, req, stray>>
  /\ Witness

\* The TTL runs out and a lookup removes the entry.
Expire(n) ==
  /\ cache[n].entry
  /\ cache' = [cache EXCEPT ![n] = [@ EXCEPT !.entry = FALSE]]
  /\ UNCHANGED <<tables, req, pull, stray>>
  /\ Witness

\* Wrong variant: a key opens every component.
CheckKeyAnyComponent(p) ==
  LET k == pull[p].key IN
  /\ pull[p].at = "credential"
  /\ IF GetByValue(k)
     THEN pull' = [pull EXCEPT ![p] = [@ EXCEPT !.at = "account",
                                                !.account = keys[k].account]]
     ELSE Deny(p)
  /\ UNCHANGED <<tables, req, cache, stray>>
  /\ Witness

\* The key: active, and issued for this component.
CheckKey(p) ==
  LET k == pull[p].key IN
  /\ pull[p].at = "credential"
  /\ IF GetByValue(k) /\ keys[k].component = pull[p].component
     THEN pull' = [pull EXCEPT ![p] = [@ EXCEPT !.at = "account",
                                                !.account = keys[k].account]]
     ELSE Deny(p)
  /\ UNCHANGED <<tables, req, cache, stray>>
  /\ Witness

PullAt(p, point) == pull' = [pull EXCEPT ![p] = [@ EXCEPT !.at = point]]

\* Wrong variant: the use is counted before the account is looked at.
CountThenCheckAccount(p) ==
  /\ pull[p].at = "account"
  /\ IF accounts[pull[p].account] = "active" THEN PullAt(p, "count") ELSE Deny(p)
  /\ IncrementUsage(pull[p].key)
  /\ UNCHANGED <<req, cache, stray>>
  /\ Witness

\* The account of the key must be active.
CheckAccount(p) ==
  /\ pull[p].at = "account"
  /\ IF accounts[pull[p].account] = "active" THEN PullAt(p, "count") ELSE Deny(p)
  /\ UNCHANGED <<tables, req, cache, stray>>
  /\ Witness

\* Counting the use may fail; the request is allowed all the same.
CountUse(p) ==
  /\ pull[p].at = "count"
  /\ IncrementUsage(pull[p].key) \/ UNCHANGED tables
  /\ pull' = [pull EXCEPT ![p] = [@ EXCEPT !.at = "done", !.verdict = "allowed"]]
  /\ UNCHANGED <<req, cache, stray>>
  /\ Witness

\* A store error at any of the three lookups fails closed.
PullFails(p) ==
  /\ pull[p].at \in {"new", "credential", "account"}
  /\ Deny(p)
  /\ UNCHANGED <<tables, req, cache, stray>>
  /\ Witness

-----------------------------------------------------------------------------
AccountStep(q) ==
  \/ \E a \in Accounts : CreateAccountRequest(q, a)
  \/ \E a \in Accounts, status \in Patch :
        PreflightUpdate(q, a, status)
  \/ \E a \in Accounts : PreflightDelete(q, a)
  \/ PatchAccount(q)
  \/ DeleteAccount(q)

KeyStep(q) ==
  \/ \E handler \in {"accounts.IssueKey", "keys.Create"}, a \in Accounts,
         n \in Components : IssueCheckAccount(q, handler, a, n)
  \/ IssueCheckComponent(q)
  \/ \E k \in Keys, expiry \in Expiries : IssueInsert(q, k, expiry)
  \/ \E k \in Keys : RevokeKeyRequest(q, k)

ComponentStep(q) ==
  \/ \E n \in Components, visibility \in Visibility :
        CreateComponentRequest(q, n, visibility)
  \/ \E n \in Components, visibility \in Visibility \cup {"keep"} :
        PreflightComponent(q, "components.Update", n, visibility)
  \/ \E n \in Components : PreflightComponent(q, "components.Delete", n, "keep")
  \/ FinishCreate(q)
  \/ PatchComponent(q)
  \/ DeleteComponentRequest(q)
  \/ Evict(q)

PullStep(p) ==
  \/ \E n \in Components : ResolveHit(p, n)
  \/ \E n \in Components, k \in Keys : ResolveMiss(p, n, k)
  \/ CheckKey(p)
  \/ CheckAccount(p)
  \/ CountUse(p)
  \/ PullFails(p)

CacheStep(n) == Insert(n) \/ Land(n) \/ Expire(n)

\* Time passes for the keys that have an expiry.
Clock ==
  /\ \E k \in Keys : Lapse(k)
  /\ UNCHANGED <<req, pull, cache, stray>>
  /\ Witness

Next ==
  \/ \E q \in Requests : AccountStep(q) \/ KeyStep(q) \/ ComponentStep(q) \/ Abort(q)
  \/ \E p \in Pulls : PullStep(p)
  \/ \E n \in Components : CacheStep(n)
  \/ Clock

Spec == Init /\ [][Next]_vars

-----------------------------------------------------------------------------
(***************************************************************************)
(* Properties                                                              *)
(***************************************************************************)

\* Nobody is let in without cause: an allowed pull saw its component exist,
\* its key active and issued for that component, and the key's account
\* active, and one allowed without a key saw its component public, each at
\* some moment between its arrival and its answer.  So a revoke, a suspension,
\* a deletion or a change to private that was acknowledged before the pull
\* arrived denies it, whatever other requests do meanwhile, unless it is
\* itself undone.  The exception is a pull that joined the lookup of another
\* caller: for its component, the moment that lookup read the table counts
\* too (ComponentCache's ChangeIsImmediate is about that).
AllowedForCause ==
  \A p \in Pulls :
    /\ pull[p].verdict = "allowed" => {"component", "key", "account"} \subseteq witnessed[p]
    /\ pull[p].verdict = "allowed-public" => "public" \in witnessed[p]

\* The two cascades leave nothing behind but races: an active key of a
\* deleted account, or of a component that is gone, was inserted by a request
\* whose checks had been overtaken, stranded by a create that rolled back, or
\* inherited from the database the service opened.
OnlyRacedKeysOutlive == \A k \in Keys : Outlived(k) => k \in stray

\* A key row is never deleted, re-activated, or moved to another account or
\* component: revocation is final.
RevokedForGood ==
  [][\A k \in Keys : keys[k] # NoKey =>
        /\ keys'[k] # NoKey
        /\ keys'[k].account = keys[k].account
        /\ keys'[k].component = keys[k].component
        /\ keys'[k].active => keys[k].active]_vars

\* The legacy account can be neither suspended nor deleted, by any sequence
\* of requests: the pre-migration keys it owns never stop working all at once.
LegacyStaysActive == accounts[Legacy] = "active"

\* A use is counted only for a pull that was allowed (IncrementUsage comes
\* after every check).
UsageWithinPulls ==
  \A k \in Keys : keys[k] # NoKey =>
    keys[k].usage_count <=
      Cardinality({p \in Pulls : pull[p].verdict = "allowed" /\ pull[p].key = k})

\* "Pre-flight: deleted accounts aren't patchable." (accounts.go:325): a
\* deleted account stays deleted.
DeletedIsFinal ==
  [][\A a \in Accounts : accounts[a] = "deleted" => accounts'[a] = "deleted"]_vars

\* "expected: 401 - store rejects expired keys"
\* (docs/ops/manual-test-plan.md:150): a pull whose key had expired before it
\* arrived is not allowed.
ExpiredKeyDenied ==
  \A p \in Pulls : pull[p].verdict = "allowed" => "unexpired" \in witnessed[p]
=============================================================================
