------------------------- MODULE SubscriberApiProofs -------------------------
(***************************************************************************)
(* The subscriber tables and forward-auth, for every set of components,    *)
(* accounts, keys, admin requests and pulls.                               *)
(***************************************************************************)
EXTENDS SubscriberApi, FiniteSetTheorems, TLAPS

\* Where a pull is tells what it has seen, and the key it found is still
\* there, under the account it read (rows are never deleted or moved).
PullProgress ==
  \A p \in Pulls :
    /\ pull[p].at \in {"credential", "account", "count"} => "component" \in witnessed[p]
    /\ pull[p].at = "count" => {"key", "account"} \subseteq witnessed[p]
    /\ pull[p].at = "account" =>
         /\ "key" \in witnessed[p]
         /\ keys[pull[p].key] # NoKey
         /\ keys[pull[p].key].account = pull[p].account
    /\ pull[p].verdict # "none" => pull[p].at = "done"
    /\ pull[p].at = "lookup" =>
         /\ cache[pull[p].component].lookup # "none"
         /\ shared[pull[p].component] \subseteq witnessed[p]

\* An entry, and a row about to be inserted, is of a component that is public
\* or that a write yet to evict has just changed; and a lookup holds what the
\* table said when it read it.
CacheWitnessedOf(n) ==
  /\ cache[n].entry \/ cache[n].lookup = "public" => "public" \in TableFacts(n)
  /\ cache[n].lookup \in {"public", "settled"} => "public" \in shared[n]
  /\ cache[n].lookup = "private" => "component" \in shared[n]

CacheWitnessed == \A n \in Components : CacheWitnessedOf(n)

ApiInv ==
  /\ TypeOK
  /\ LegacyStaysActive
  /\ OnlyRacedKeysOutlive
  /\ PullProgress
  /\ CacheWitnessed
  /\ AllowedForCause

USE KeyStoreConstants, SomeOfEach

-----------------------------------------------------------------------------
LEMMA AnyTyped ==
  AnyAccount \in Accounts /\ AnyComponent \in Components /\ AnyKey \in Keys
BY DEF AnyAccount, AnyComponent, AnyKey

\* TableFacts spelt out, before and after a step.
LEMMA FactsAre ==
  ASSUME NEW n \in Components
  PROVE  /\ TableFacts(n) \subseteq Facts /\ TableFacts(n)' \subseteq Facts
         /\ "public" \in TableFacts(n) <=>
              \/ components[n] = "public"
              \/ \E q \in Requests : /\ req[q].at = "evict" /\ req[q].component = n
                                     /\ req[q].replaced = "public"
         /\ "component" \in TableFacts(n) <=>
              \/ components[n] \in Visibility
              \/ \E q \in Requests : /\ req[q].at = "evict" /\ req[q].component = n
                                     /\ req[q].replaced \in Visibility
         /\ "public" \in TableFacts(n)' <=>
              \/ components'[n] = "public"
              \/ \E q \in Requests : /\ req'[q].at = "evict" /\ req'[q].component = n
                                     /\ req'[q].replaced = "public"
         /\ "component" \in TableFacts(n)' <=>
              \/ components'[n] \in Visibility
              \/ \E q \in Requests : /\ req'[q].at = "evict" /\ req'[q].component = n
                                     /\ req'[q].replaced \in Visibility
BY DEF TableFacts, Facts

LEMMA NoKeyIsNoRow == NoKey \notin Key
BY DEF NoKey, Key

\* Updates of one column keep a row a row.
LEMMA RowUpdates ==
  ASSUME NEW row \in Key
  PROVE  /\ [row EXCEPT !.active = FALSE] \in Key
         /\ [row EXCEPT !.usage_count = row.usage_count + 1] \in Key
         /\ [row EXCEPT !.expires_at = "past"] \in Key
<1>1. [row EXCEPT !.active = FALSE] \in Key
  BY DEF Key
<1>2. [row EXCEPT !.usage_count = row.usage_count + 1] \in Key
  BY DEF Key
<1>3. [row EXCEPT !.expires_at = "past"] \in Key
  BY DEF Key
<1> QED BY <1>1, <1>2, <1>3

\* The rows of an opened database.
LEMMA OpenedRows ==
  ASSUME NEW row \in [component : Components,
                      account : {a \in Accounts : accounts[a] # "absent"},
                      active : BOOLEAN, expires_at : Expiries, usage_count : {0}]
  PROVE  row \in Key
<1>1. row.component \in Components
  OBVIOUS
<1>2. row.account \in Accounts
  OBVIOUS
<1>3. row.active \in BOOLEAN
  OBVIOUS
<1>4. row.expires_at \in {"never", "ahead", "past"}
  OBVIOUS
<1>5. row.usage_count \in Nat
  OBVIOUS
<1>6. row = [component |-> row.component, account |-> row.account,
             active |-> row.active, expires_at |-> row.expires_at,
             usage_count |-> row.usage_count]
  OBVIOUS
<1> QED BY <1>1, <1>2, <1>3, <1>4, <1>5, <1>6 DEF Key

LEMMA InitInv == Init => ApiInv
<1> SUFFICES ASSUME Init PROVE ApiInv
  OBVIOUS
<1>1. TablesTypeOK
  <2>1. keys \in [Keys -> Key \cup {NoKey}]
    BY OpenedRows DEF Init, TablesInit
  <2> QED BY <2>1 DEF Init, TablesInit, TablesTypeOK
<1>2. NewRequest \in Request /\ NewPull \in Pull
  BY AnyTyped DEF NewRequest, Request, Visibility, Patch, NewPull, Pull
<1>3. TypeOK
  <2>1. shared \in [Components -> SUBSET Facts]
    BY FactsAre DEF Init, CacheInit
  <2> QED BY <1>1, <1>2, <2>1 DEF Init, CacheInit, TypeOK
<1>4. LegacyStaysActive
  BY DEF Init, TablesInit, LegacyStaysActive
<1>5. OnlyRacedKeysOutlive
  BY DEF Init, OnlyRacedKeysOutlive
<1>6. PullProgress /\ AllowedForCause
  BY DEF Init, NewPull, PullProgress, AllowedForCause
<1>7. CacheWitnessed
  <2> SUFFICES ASSUME NEW n \in Components PROVE CacheWitnessedOf(n)
    BY DEF CacheWitnessed
  <2>1. /\ cache[n].entry => components[n] = "public"
        /\ cache[n].lookup # "none" =>
             components[n] = cache[n].lookup /\ shared[n] = TableFacts(n)
        /\ components[n] \in {"public", "private", "absent"}
    BY <1>1 DEF Init, CacheInit, TablesTypeOK, Visibility
  <2> QED BY <2>1, FactsAre DEF CacheWitnessedOf, Visibility
<1> QED BY <1>3, <1>4, <1>5, <1>6, <1>7 DEF ApiInv

-----------------------------------------------------------------------------
(* What the store's statements do to the tables, each proved once. *)

\* A revoke of the rows that satisfy a condition keeps every row in place.
LEMMA TablesType ==
  ASSUME TablesTypeOK
  PROVE  /\ \A a \in Accounts : CreateAccount(a) => TablesTypeOK'
         /\ \A a \in Accounts, s \in Patch :
              UpdateAccount(a, s) => TablesTypeOK'
         /\ \A a \in Accounts : DeleteAccountWithCascade(a) => TablesTypeOK'
         /\ \A k \in Keys, a \in Accounts, n \in Components, e \in Expiries :
              CreateKeyForAccount(k, a, n, e) => TablesTypeOK'
         /\ \A k \in Keys : RevokeKey(k) \/ IncrementUsage(k) \/ Lapse(k)
                              => TablesTypeOK'
         /\ \A n \in Components, v \in Visibility :
              CreateComponent(n, v) => TablesTypeOK'
         /\ \A n \in Components, v \in Visibility \cup {"keep"} :
              UpdateComponent(n, v) => TablesTypeOK'
         /\ \A n \in Components :
              DeleteComponent(n) \/ DeleteComponentWithRevoke(n) => TablesTypeOK'
<1> USE DEF TablesTypeOK
<1>1. ASSUME NEW a \in Accounts, CreateAccount(a) PROVE TablesTypeOK'
  BY <1>1 DEF CreateAccount, AccountStatus
<1>2. ASSUME NEW a \in Accounts, NEW s \in Patch,
             UpdateAccount(a, s)
      PROVE  TablesTypeOK'
  BY <1>2 DEF UpdateAccount, AccountStatus, Patch
<1>r. ASSUME NEW k \in Keys
      PROVE  /\ keys[k].active => [keys[k] EXCEPT !.active = FALSE] \in Key
             /\ keys[k] # NoKey =>
                  /\ [keys[k] EXCEPT !.active = FALSE] \in Key
                  /\ [keys[k] EXCEPT !.usage_count = keys[k].usage_count + 1] \in Key
                  /\ [keys[k] EXCEPT !.expires_at = "past"] \in Key
  <2>1. keys[k] = NoKey \/ keys[k] \in Key
    OBVIOUS
  <2>2. keys[k] = NoKey => ~keys[k].active
    BY DEF NoKey
  <2> QED BY <2>1, <2>2, RowUpdates
<1>3. ASSUME NEW a \in Accounts, DeleteAccountWithCascade(a) PROVE TablesTypeOK'
  BY <1>3, <1>r DEF DeleteAccountWithCascade, RevokeWhere, AccountStatus
<1>4. ASSUME NEW k \in Keys, NEW a \in Accounts, NEW n \in Components,
             NEW e \in Expiries, CreateKeyForAccount(k, a, n, e)
      PROVE  TablesTypeOK'
  <2>1. [component |-> n, account |-> a, active |-> TRUE, expires_at |-> e,
         usage_count |-> 0] \in Key
    BY DEF Key
  <2> QED BY <1>4, <2>1 DEF CreateKeyForAccount
<1>5. ASSUME NEW k \in Keys, RevokeKey(k) \/ IncrementUsage(k) \/ Lapse(k)
      PROVE  TablesTypeOK'
  <2>1. CASE RevokeKey(k)
    BY <2>1, <1>r DEF RevokeKey
  <2>2. CASE IncrementUsage(k)
    BY <2>2, <1>r DEF IncrementUsage
  <2>3. CASE Lapse(k)
    BY <2>3, <1>r DEF Lapse
  <2> QED BY <1>5, <2>1, <2>2, <2>3
<1>6. ASSUME NEW n \in Components, NEW v \in Visibility, CreateComponent(n, v)
      PROVE  TablesTypeOK'
  BY <1>6 DEF CreateComponent
<1>u. ASSUME NEW n \in Components, NEW v \in Visibility \cup {"keep"},
             UpdateComponent(n, v)
      PROVE  TablesTypeOK'
  BY <1>u DEF UpdateComponent
<1>7. ASSUME NEW n \in Components, DeleteComponent(n) \/ DeleteComponentWithRevoke(n)
      PROVE  TablesTypeOK'
  <2>1. CASE DeleteComponent(n)
    BY <2>1 DEF DeleteComponent
  <2>2. CASE DeleteComponentWithRevoke(n)
    BY <2>2, <1>r DEF DeleteComponentWithRevoke, RevokeWhere
  <2> QED BY <1>7, <2>1, <2>2
<1> QED BY <1>1, <1>2, <1>3, <1>4, <1>5, <1>6, <1>u, <1>7

\* Every step runs at most one statement of the store, and the two that can
\* leave an outlived key behind record it.
Statement ==
  \/ UNCHANGED tables
  \/ \E a \in Accounts : CreateAccount(a) \/ DeleteAccountWithCascade(a)
  \/ \E a \in Accounts, s \in Patch : UpdateAccount(a, s)
  \/ \E k \in Keys, a \in Accounts, n \in Components, e \in Expiries :
       /\ CreateKeyForAccount(k, a, n, e)
       /\ accounts[a] = "deleted" \/ components[n] = "absent" => k \in stray'
  \/ \E k \in Keys : RevokeKey(k) \/ IncrementUsage(k) \/ Lapse(k)
  \/ \E n \in Components, v \in Visibility : CreateComponent(n, v)
  \/ \E n \in Components, v \in Visibility \cup {"keep"} : UpdateComponent(n, v)
  \/ \E n \in Components : DeleteComponentWithRevoke(n)
  \/ \E n \in Components :
       /\ DeleteComponent(n)
       /\ \A k \in Keys : keys[k].active /\ keys[k].component = n => k \in stray'

\* No statement deletes a key row, moves it, or re-activates it.
KeyKept(k) ==
  keys[k] # NoKey =>
    /\ keys'[k] # NoKey
    /\ keys'[k].account = keys[k].account
    /\ keys'[k].component = keys[k].component
    /\ keys'[k].active => keys[k].active

LEMMA StatementKeeps ==
  ASSUME TablesTypeOK, Statement, NEW m \in Keys
  PROVE  KeyKept(m)
<1> USE DEF TablesTypeOK
<1>1. CASE keys'[m] = keys[m]
  BY <1>1 DEF KeyKept
<1>2. CASE keys[m] = NoKey
  BY <1>2 DEF KeyKept
\* The three single-column updates.
<1>3. ASSUME keys[m] # NoKey,
             \/ keys'[m] = [keys[m] EXCEPT !.active = FALSE]
             \/ keys'[m] = [keys[m] EXCEPT !.usage_count = keys[m].usage_count + 1]
             \/ keys'[m] = [keys[m] EXCEPT !.expires_at = "past"]
      PROVE  KeyKept(m)
  <2> DEFINE row == keys[m]
  <2>1. row \in Key
    BY <1>3
  <2>2. keys'[m] \in Key
    BY <1>3, <2>1, RowUpdates
  <2>3. keys'[m] # NoKey
    BY <2>2, NoKeyIsNoRow
  <2>4. keys'[m].account = row.account /\ keys'[m].component = row.component
    BY <1>3, <2>1 DEF Key
  <2>5. keys'[m].active => row.active
    BY <1>3, <2>1 DEF Key
  <2> QED BY <2>3, <2>4, <2>5 DEF KeyKept
<1>4. CASE UNCHANGED keys
  BY <1>1, <1>4
<1>5. ASSUME NEW a \in Accounts, DeleteAccountWithCascade(a) PROVE KeyKept(m)
  <2>1. \/ keys'[m] = keys[m]
        \/ keys[m].active /\ keys'[m] = [keys[m] EXCEPT !.active = FALSE]
    BY <1>5 DEF DeleteAccountWithCascade, RevokeWhere
  <2> QED BY <1>1, <1>2, <1>3, <2>1
<1>6. ASSUME NEW n \in Components, DeleteComponentWithRevoke(n) PROVE KeyKept(m)
  <2>1. \/ keys'[m] = keys[m]
        \/ keys[m].active /\ keys'[m] = [keys[m] EXCEPT !.active = FALSE]
    BY <1>6 DEF DeleteComponentWithRevoke, RevokeWhere
  <2> QED BY <1>1, <1>2, <1>3, <2>1
<1>7. ASSUME NEW k \in Keys, RevokeKey(k) PROVE KeyKept(m)
  BY <1>1, <1>3, <1>7 DEF RevokeKey
<1>8. ASSUME NEW k \in Keys, IncrementUsage(k) PROVE KeyKept(m)
  BY <1>1, <1>3, <1>8 DEF IncrementUsage
<1>9. ASSUME NEW k \in Keys, Lapse(k) PROVE KeyKept(m)
  BY <1>1, <1>3, <1>9 DEF Lapse
<1>10. ASSUME NEW k \in Keys, NEW a \in Accounts, NEW n \in Components,
              NEW e \in Expiries, CreateKeyForAccount(k, a, n, e)
       PROVE  KeyKept(m)
  BY <1>1, <1>2, <1>10 DEF CreateKeyForAccount
<1> QED
  BY <1>4, <1>5, <1>6, <1>7, <1>8, <1>9, <1>10
     DEF Statement, tables, CreateAccount, UpdateAccount, CreateComponent,
         UpdateComponent, DeleteComponent

\* The statements that touch accounts keep the legacy account active.
LEMMA StatementLegacy ==
  ASSUME TablesTypeOK, Statement, LegacyStaysActive
  PROVE  LegacyStaysActive'
BY DEF AccountStatus, Patch, TablesTypeOK, LegacyStaysActive, Statement, tables, CreateAccount,
       DeleteAccountWithCascade, DeleteAccountAllowed, UpdateAccount,
       UpdateAccountAllowed, CreateKeyForAccount, RevokeKey, IncrementUsage, Lapse,
       CreateComponent, UpdateComponent, DeleteComponent, DeleteComponentWithRevoke

LEMMA StatementType ==
  ASSUME TablesTypeOK, Statement
  PROVE  TablesTypeOK'
<1>1. CASE UNCHANGED tables
  BY <1>1 DEF tables, TablesTypeOK
<1> QED BY <1>1, TablesType DEF Statement

-----------------------------------------------------------------------------
(* Type correctness, and the statement each action runs. *)
LEMMA WitnessType ==
  ASSUME shared \in [Components -> SUBSET Facts], witnessed \in [Pulls -> SUBSET Facts],
         pull' \in [Pulls -> Pull], Witness
  PROVE  /\ shared' \in [Components -> SUBSET Facts]
         /\ witnessed' \in [Pulls -> SUBSET Facts]
<1>1. shared' \in [Components -> SUBSET Facts]
  <2>1. ASSUME NEW n \in Components PROVE TableFacts(n)' \subseteq Facts
    BY FactsAre
  <2> QED BY <2>1 DEF Witness
<1>2. ASSUME NEW p \in Pulls PROVE FactsOf(p)' \subseteq Facts
  BY DEF FactsOf, TableFacts, Facts
<1>3. ASSUME NEW p \in Pulls PROVE shared'[pull'[p].component] \subseteq Facts
  BY <1>1 DEF Pull
<1> QED BY <1>1, <1>2, <1>3 DEF Witness

\* The ways a handler moves its request along keep it a request.
LEMMA RequestMoves ==
  ASSUME NEW r \in Request, NEW point \in {"component", "write", "rollback", "done"}
  PROVE  [r EXCEPT !.at = point] \in Request
BY DEF Request

LEMMA RequestArrives ==
  ASSUME NEW q \in Requests, req \in [Requests -> Request],
         NEW h \in Handlers, NEW a \in Accounts, NEW n \in Components,
         NEW st \in Patch, NEW v \in Visibility \cup {"keep"},
         NEW point \in {"component", "write", "rollback", "done"},
         Arrive(q, h, a, n, st, v, point)
  PROVE  req' \in [Requests -> Request]
<1>1. [at |-> point, handler |-> h, account |-> a, component |-> n,
       status |-> st, visibility |-> v, replaced |-> "none"] \in Request
  BY DEF Request
<1> QED BY <1>1 DEF Arrive

LEMMA RequestResponds ==
  ASSUME NEW q \in Requests, req \in [Requests -> Request], Respond(q)
  PROVE  req' \in [Requests -> Request]
<1>1. Answered \in Request
  BY AnyTyped DEF Answered, NewRequest, Request, Visibility, Patch
<1> QED BY <1>1 DEF Respond

LEMMA RequestToEvict ==
  ASSUME NEW q \in Requests, req \in [Requests -> Request], TablesTypeOK,
         components[req[q].component] # "absent", ToEvict(q)
  PROVE  req' \in [Requests -> Request]
<1> DEFINE v == components[req[q].component]
<1>1. v \in Visibility
  BY DEF TablesTypeOK, Request
<1> HIDE DEF v
<1>2. [req[q] EXCEPT !.at = "evict", !.replaced = v] \in Request
  BY <1>1 DEF Request
<1> QED BY <1>2 DEF ToEvict, v

\* What a step has to show, the tables being left to StatementType.
Sound ==
  /\ Statement
  /\ req' \in [Requests -> Request]
  /\ pull' \in [Pulls -> Pull]
  /\ cache' \in [Components -> Cached]
  /\ stray' \in SUBSET Keys /\ stray \subseteq stray'

LEMMA AccountStepSound ==
  ASSUME TypeOK, NEW q \in Requests, AccountStep(q)
  PROVE  Sound /\ Witness
<1> USE DEF TypeOK, Sound
<1>1. ASSUME NEW a \in Accounts, CreateAccountRequest(q, a) PROVE Sound /\ Witness
  <2>1. req' \in [Requests -> Request]
    BY <1>1, RequestResponds DEF CreateAccountRequest
  <2> QED BY <1>1, <2>1 DEF CreateAccountRequest, Statement
<1>2. ASSUME NEW a \in Accounts, NEW status \in Patch,
             PreflightUpdate(q, a, status)
      PROVE  Sound /\ Witness
  <2>1. req' \in [Requests -> Request]
    BY <1>2, RequestArrives, AnyTyped DEF PreflightUpdate, Handlers
  <2> QED BY <1>2, <2>1 DEF PreflightUpdate, Statement
<1>3. ASSUME NEW a \in Accounts, PreflightDelete(q, a) PROVE Sound /\ Witness
  <2>1. req' \in [Requests -> Request]
    BY <1>3, RequestArrives, AnyTyped DEF PreflightDelete, Handlers, Patch
  <2> QED BY <1>3, <2>1 DEF PreflightDelete, Statement
<1>4. ASSUME PatchAccount(q) PROVE Sound /\ Witness
  <2>1. req[q].account \in Accounts /\ req[q].status \in Patch
    BY DEF Request
  <2>2. Statement
    BY <1>4, <2>1 DEF PatchAccount, Statement
  <2>3. req' \in [Requests -> Request]
    BY <1>4, RequestResponds DEF PatchAccount
  <2> QED BY <1>4, <2>2, <2>3 DEF PatchAccount
<1>5. ASSUME DeleteAccount(q) PROVE Sound /\ Witness
  <2>1. req[q].account \in Accounts
    BY DEF Request
  <2>2. Statement
    BY <1>5, <2>1 DEF DeleteAccount, Statement
  <2>3. req' \in [Requests -> Request]
    BY <1>5, RequestResponds DEF DeleteAccount
  <2> QED BY <1>5, <2>2, <2>3 DEF DeleteAccount
<1> QED BY <1>1, <1>2, <1>3, <1>4, <1>5 DEF AccountStep

LEMMA KeyStepSound ==
  ASSUME TypeOK, NEW q \in Requests, KeyStep(q)
  PROVE  Sound /\ Witness
<1> USE DEF TypeOK, Sound
<1>1. ASSUME NEW h \in {"accounts.IssueKey", "keys.Create"}, NEW a \in Accounts,
             NEW n \in Components, IssueCheckAccount(q, h, a, n)
      PROVE  Sound /\ Witness
  <2>1. req' \in [Requests -> Request]
    BY <1>1, RequestArrives DEF IssueCheckAccount, Handlers, Patch
  <2> QED BY <1>1, <2>1 DEF IssueCheckAccount, Statement
<1>2. ASSUME IssueCheckComponent(q) PROVE Sound /\ Witness
  <2>1. [req[q] EXCEPT !.at = "write"] \in Request
    BY RequestMoves
  <2>2. req' \in [Requests -> Request]
    BY <1>2, <2>1, RequestResponds DEF IssueCheckComponent, Goto
  <2> QED BY <1>2, <2>2 DEF IssueCheckComponent, Statement
<1>3. ASSUME NEW k \in Keys, NEW e \in Expiries, IssueInsert(q, k, e)
      PROVE  Sound /\ Witness
  <2>1. req[q].account \in Accounts /\ req[q].component \in Components
    BY DEF Request
  <2>2. Statement
    <3> DEFINE a == req[q].account
               n == req[q].component
    <3>1. /\ CreateKeyForAccount(k, a, n, e)
          /\ accounts[a] = "deleted" \/ components[n] = "absent" => k \in stray'
      BY <1>3 DEF IssueInsert
    <3> HIDE DEF a, n
    <3>2. a \in Accounts /\ n \in Components
      BY <2>1 DEF a, n
    <3> QED BY <3>1, <3>2 DEF Statement
  <2>3. req' \in [Requests -> Request]
    BY <1>3, RequestResponds DEF IssueInsert
  <2> QED BY <1>3, <2>2, <2>3 DEF IssueInsert
<1>4. ASSUME NEW k \in Keys, RevokeKeyRequest(q, k) PROVE Sound /\ Witness
  <2>1. req' \in [Requests -> Request]
    BY <1>4, RequestResponds DEF RevokeKeyRequest
  <2> QED BY <1>4, <2>1 DEF RevokeKeyRequest, Statement
<1> QED BY <1>1, <1>2, <1>3, <1>4 DEF KeyStep

LEMMA ComponentStepSound ==
  ASSUME TypeOK, NEW q \in Requests, ComponentStep(q)
  PROVE  Sound /\ Witness
<1> USE DEF TypeOK, Sound
<1>0. req[q].component \in Components /\ req[q].visibility \in Visibility \cup {"keep"}
  BY DEF Request
<1>1. ASSUME NEW n \in Components, NEW v \in Visibility, CreateComponentRequest(q, n, v)
      PROVE  Sound /\ Witness
  <2>1. req' \in [Requests -> Request]
    BY <1>1, RequestArrives, AnyTyped DEF CreateComponentRequest, Handlers, Patch
  <2> QED BY <1>1, <2>1 DEF CreateComponentRequest, Statement
<1>2. ASSUME NEW n \in Components, NEW v \in Visibility \cup {"keep"},
             NEW h \in {"components.Update", "components.Delete"},
             PreflightComponent(q, h, n, v)
      PROVE  Sound /\ Witness
  <2>1. req' \in [Requests -> Request]
    BY <1>2, RequestArrives, AnyTyped DEF PreflightComponent, Handlers, Patch
  <2> QED BY <1>2, <2>1 DEF PreflightComponent, Statement
<1>r. /\ Respond(q) => req' \in [Requests -> Request]
      /\ components[req[q].component] # "absent" /\ ToEvict(q)
           => req' \in [Requests -> Request]
  BY RequestResponds, RequestToEvict
<1>3. ASSUME FinishCreate(q) PROVE Sound /\ Witness
  <2>1. Statement
    BY <1>0, <1>3 DEF FinishCreate, Statement
  <2> QED BY <1>3, <1>r, <2>1 DEF FinishCreate, DeleteComponent
<1>4. ASSUME PatchComponent(q) PROVE Sound /\ Witness
  <2>1. Statement
    BY <1>0, <1>4 DEF PatchComponent, Statement
  <2> QED BY <1>4, <1>r, <2>1 DEF PatchComponent, UpdateComponent
<1>5. ASSUME DeleteComponentRequest(q) PROVE Sound /\ Witness
  <2>1. Statement
    BY <1>0, <1>5 DEF DeleteComponentRequest, Statement
  <2> QED BY <1>5, <1>r, <2>1 DEF DeleteComponentRequest, DeleteComponentWithRevoke
<1>6. ASSUME Evict(q) PROVE Sound /\ Witness
  <2> DEFINE n == req[q].component
             c == [entry |-> FALSE, lookup |-> IF cache[n].lookup = "public"
                                               THEN "settled" ELSE cache[n].lookup]
  <2>1. c \in Cached
    BY <1>0 DEF Cached
  <2>2. cache' = [cache EXCEPT ![n] = c]
    BY <1>6 DEF Evict
  <2> QED BY <1>0, <1>6, <1>r, <2>1, <2>2 DEF Evict, Statement
<1> QED BY <1>1, <1>2, <1>3, <1>4, <1>5, <1>6 DEF ComponentStep, Visibility

LEMMA AbortSound ==
  ASSUME TypeOK, NEW q \in Requests, Abort(q)
  PROVE  Sound /\ Witness
BY RequestResponds DEF Abort, TypeOK, Sound, Statement

LEMMA DeniedIsPull == Denied \in Pull
BY AnyTyped DEF Denied, NewPull, Pull

LEMMA PullStepSound ==
  ASSUME TypeOK, NEW p \in Pulls, PullStep(p)
  PROVE  Sound /\ Witness
<1> USE DEF TypeOK, Sound
<1> DEFINE r == pull[p]
<1>0. r \in Pull
  OBVIOUS
<1> HIDE DEF r
<1>1. Denied \in Pull
  BY DeniedIsPull
<1>2. ASSUME NEW n \in Components, ResolveHit(p, n) PROVE Sound /\ Witness
  <2>1. [r EXCEPT !.at = "done", !.component = n, !.verdict = "allowed-public"] \in Pull
    BY <1>0 DEF Pull
  <2>2. pull' \in [Pulls -> Pull]
    BY <1>2, <2>1 DEF ResolveHit, r
  <2> QED BY <1>2, <2>2 DEF ResolveHit, Statement
<1>m. ASSUME NEW n \in Components, NEW k \in Keys, ResolveMiss(p, n, k)
      PROVE  Sound /\ Witness
  <2>1. [r EXCEPT !.at = "lookup", !.component = n, !.key = k] \in Pull
    BY <1>0 DEF Pull
  <2>2. pull' \in [Pulls -> Pull]
    BY <1>m, <2>1 DEF ResolveMiss, r
  <2>3. cache' \in [Components -> Cached]
    <3>1. ASSUME NEW row \in {components[n], "absent"}
          PROVE  [cache[n] EXCEPT !.lookup = row] \in Cached
      BY DEF Cached, TablesTypeOK, Visibility
    <3> QED BY <1>m, <3>1 DEF ResolveMiss, BeginLookup
  <2> QED BY <1>m, <2>2, <2>3 DEF ResolveMiss, Statement
<1>3. ASSUME CheckKey(p) PROVE Sound /\ Witness
  <2>1. r.key \in Keys
    BY <1>0 DEF Pull
  <2>2. ASSUME GetByValue(r.key) PROVE keys[r.key].account \in Accounts
    BY <2>1, <2>2 DEF GetByValue, TablesTypeOK, Key
  <2>3. ASSUME NEW a \in Accounts
        PROVE  [r EXCEPT !.at = "account", !.account = a] \in Pull
    BY <1>0 DEF Pull
  <2>4. pull' \in [Pulls -> Pull]
    BY <1>1, <1>3, <2>2, <2>3 DEF CheckKey, Deny, r
  <2> QED BY <1>3, <2>4 DEF CheckKey, Statement
<1>4. ASSUME CheckAccount(p) PROVE Sound /\ Witness
  <2>1. [r EXCEPT !.at = "count"] \in Pull
    BY <1>0 DEF Pull
  <2>2. pull' \in [Pulls -> Pull]
    BY <1>1, <1>4, <2>1 DEF CheckAccount, PullAt, Deny, r
  <2> QED BY <1>4, <2>2 DEF CheckAccount, Statement
<1>5. ASSUME CountUse(p) PROVE Sound /\ Witness
  <2>1. r.key \in Keys
    BY <1>0 DEF Pull
  <2>2. [r EXCEPT !.at = "done", !.verdict = "allowed"] \in Pull
    BY <1>0 DEF Pull
  <2>3. pull' \in [Pulls -> Pull]
    BY <1>5, <2>2 DEF CountUse, r
  <2>4. Statement
    BY <1>5, <2>1 DEF CountUse, Statement, r
  <2> QED BY <1>5, <2>3, <2>4 DEF CountUse
<1>6. ASSUME PullFails(p) PROVE Sound /\ Witness
  BY <1>1, <1>6 DEF PullFails, Deny, Statement, r
<1> QED BY <1>2, <1>m, <1>3, <1>4, <1>5, <1>6 DEF PullStep

LEMMA CacheStepSound ==
  ASSUME TypeOK, NEW n \in Components, CacheStep(n)
  PROVE  Sound /\ Witness
<1> USE DEF TypeOK, Sound
<1>1. cache[n] \in Cached
  OBVIOUS
<1>2. ASSUME Insert(n) PROVE Sound /\ Witness
  <2>1. [entry |-> TRUE, lookup |-> "settled"] \in Cached
    BY DEF Cached
  <2> QED BY <1>2, <2>1 DEF Insert, Statement
<1>3. ASSUME Expire(n) PROVE Sound /\ Witness
  <2>1. [cache[n] EXCEPT !.entry = FALSE] \in Cached
    BY <1>1 DEF Cached
  <2> QED BY <1>3, <2>1 DEF Expire, Statement
<1>4. ASSUME Land(n) PROVE Sound /\ Witness
  <2>1. [cache[n] EXCEPT !.lookup = "none"] \in Cached
    BY <1>1 DEF Cached
  <2>2. ASSUME NEW r \in Pull, NEW row PROVE Resolved(r, row) \in Pull
    <3>1. /\ [r EXCEPT !.at = "done", !.verdict = "allowed-public"] \in Pull
          /\ [r EXCEPT !.at = "credential"] \in Pull
      BY DEF Pull
    <3> QED BY <3>1, DeniedIsPull DEF Resolved
  <2>3. pull' \in [Pulls -> Pull]
    <3>1. ASSUME NEW p \in Pulls PROVE Resolved(pull[p], cache[n].lookup) \in Pull
      BY <2>2
    <3> QED BY <1>4, <3>1 DEF Land
  <2> QED BY <1>4, <2>1, <2>3 DEF Land, Statement
<1> QED BY <1>2, <1>3, <1>4 DEF CacheStep

LEMMA ClockSound == ASSUME TypeOK, Clock PROVE Sound /\ Witness
BY DEF Clock, TypeOK, Sound, Statement

LEMMA NextSound == ASSUME TypeOK, Next PROVE Sound /\ Witness
BY AccountStepSound, KeyStepSound, ComponentStepSound, AbortSound, PullStepSound,
   CacheStepSound, ClockSound DEF Next

LEMMA TypeStep == ASSUME TypeOK, [Next]_vars PROVE TypeOK'
<1>1. CASE Next
  <2>1. Sound /\ Witness
    BY <1>1, NextSound
  <2>2. TablesTypeOK'
    BY <2>1, StatementType DEF TypeOK, Sound
  <2>3. /\ shared' \in [Components -> SUBSET Facts]
        /\ witnessed' \in [Pulls -> SUBSET Facts]
    BY <2>1, WitnessType DEF TypeOK, Sound
  <2> QED BY <2>1, <2>2, <2>3 DEF TypeOK, Sound
<1>2. CASE UNCHANGED vars
  BY <1>2 DEF vars, TypeOK, TablesTypeOK
<1> QED BY <1>1, <1>2

-----------------------------------------------------------------------------
(* Only raced keys outlive. *)

\* A row that was there and has come to outlive its account or component was
\* either outlived before, or a component was deleted under it alone.
LEMMA OldRowOutlived ==
  ASSUME TablesTypeOK, TablesTypeOK', Statement, NEW m \in Keys,
         keys[m] # NoKey, Outlived(m)'
  PROVE  Outlived(m) \/ m \in stray'
<1> DEFINE a == keys[m].account
           n == keys[m].component
<1>1. /\ keys[m].active
      /\ accounts'[a] = "deleted" \/ components'[n] = "absent"
  BY StatementKeeps DEF KeyKept, Outlived
<1>2. a \in Accounts /\ n \in Components
  BY DEF TablesTypeOK, Key
<1>3. keys'[m] # NoKey /\ keys'[m].active
  BY DEF Outlived
<1>4. ASSUME accounts'[a] = accounts[a] /\ components'[n] = components[n]
      PROVE  Outlived(m)
  BY <1>1, <1>4 DEF Outlived
<1>5. ASSUME NEW b \in Accounts, DeleteAccountWithCascade(b)
      PROVE  Outlived(m)
  <2>1. a = b => keys'[m] = [keys[m] EXCEPT !.active = FALSE]
    BY <1>1, <1>5 DEF DeleteAccountWithCascade, RevokeWhere
  <2>2. keys[m] \in Key
    BY DEF TablesTypeOK
  <2>3. a # b
    BY <1>3, <2>1, <2>2 DEF Key
  <2>4. accounts' = [accounts EXCEPT ![b] = "deleted"] /\ components' = components
    BY <1>5 DEF DeleteAccountWithCascade
  <2>5. accounts'[a] = accounts[a] /\ components'[n] = components[n]
    BY <1>2, <2>3, <2>4 DEF TablesTypeOK
  <2> QED BY <1>4, <2>5
<1>6. ASSUME NEW c \in Components, DeleteComponentWithRevoke(c)
      PROVE  Outlived(m)
  <2>1. n = c => keys'[m] = [keys[m] EXCEPT !.active = FALSE]
    BY <1>1, <1>6 DEF DeleteComponentWithRevoke, RevokeWhere
  <2>2. keys[m] \in Key
    BY DEF TablesTypeOK
  <2>3. n # c
    BY <1>3, <2>1, <2>2 DEF Key
  <2>4. components' = [components EXCEPT ![c] = "absent"] /\ accounts' = accounts
    BY <1>6 DEF DeleteComponentWithRevoke
  <2>5. accounts'[a] = accounts[a] /\ components'[n] = components[n]
    BY <1>2, <2>3, <2>4 DEF TablesTypeOK
  <2> QED BY <1>4, <2>5
<1>7. ASSUME NEW c \in Components, DeleteComponent(c),
             \A k \in Keys : keys[k].active /\ keys[k].component = c => k \in stray'
      PROVE  Outlived(m) \/ m \in stray'
  <2>1. CASE n = c
    BY <1>1, <1>7, <2>1
  <2>2. CASE n # c
    BY <1>2, <1>4, <1>7, <2>2 DEF DeleteComponent, TablesTypeOK
  <2> QED BY <2>1, <2>2
\* The other changes of an account or a component make it neither deleted
\* nor absent.
<1>8. ASSUME NEW b \in Accounts, NEW s \in Patch,
             CreateAccount(b) \/ UpdateAccount(b, s)
      PROVE  Outlived(m)
  BY <1>1, <1>2, <1>8
     DEF CreateAccount, UpdateAccount, AccountStatus, Patch, TablesTypeOK, Outlived
<1>u. ASSUME NEW c \in Components, NEW v \in Visibility \cup {"keep"},
             UpdateComponent(c, v)
      PROVE  Outlived(m)
  BY <1>1, <1>2, <1>u DEF UpdateComponent, TablesTypeOK, Outlived, Visibility
<1>9. ASSUME NEW c \in Components, NEW v \in Visibility, CreateComponent(c, v)
      PROVE  Outlived(m)
  BY <1>1, <1>2, <1>9
     DEF CreateComponent, TablesTypeOK, Outlived, Visibility
<1>10. CASE UNCHANGED <<accounts, components>>
  BY <1>4, <1>10
<1>11. \/ UNCHANGED tables
       \/ \E k \in Keys, b \in Accounts, c \in Components, e \in Expiries :
            CreateKeyForAccount(k, b, c, e)
       \/ \E k \in Keys : RevokeKey(k) \/ IncrementUsage(k) \/ Lapse(k)
       => UNCHANGED <<accounts, components>>
  BY DEF tables, CreateKeyForAccount, RevokeKey, IncrementUsage, Lapse
<1>12. (\E b \in Accounts, s \in Patch : CreateAccount(b) \/ UpdateAccount(b, s))
         => Outlived(m)
  BY <1>8
<1> QED
  BY <1>5, <1>6, <1>7, <1>8, <1>u, <1>9, <1>10, <1>11, <1>12 DEF Statement, Patch

\* A row that is new comes from an insert, which records a race.
LEMMA NewRowOutlived ==
  ASSUME TablesTypeOK, Statement, NEW m \in Keys, keys[m] = NoKey, Outlived(m)'
  PROVE  m \in stray'
<1>1. keys'[m] # NoKey
  BY DEF Outlived
<1>2. ASSUME NEW k \in Keys, NEW a \in Accounts, NEW n \in Components,
             NEW e \in Expiries, CreateKeyForAccount(k, a, n, e),
             accounts[a] = "deleted" \/ components[n] = "absent" => k \in stray'
      PROVE  m \in stray'
  <2>1. k = m
    BY <1>1, <1>2 DEF CreateKeyForAccount, TablesTypeOK
  <2>2. keys'[m].account = a /\ keys'[m].component = n
    BY <1>2, <2>1 DEF CreateKeyForAccount, TablesTypeOK
  <2>3. accounts[a] = "deleted" \/ components[n] = "absent"
    BY <1>2, <2>2 DEF Outlived, CreateKeyForAccount
  <2> QED BY <1>2, <2>1, <2>3
<1>3. ASSUME NEW k \in Keys, RevokeKey(k) \/ IncrementUsage(k) \/ Lapse(k)
      PROVE  keys'[m] = NoKey
  BY <1>3 DEF RevokeKey, IncrementUsage, Lapse, TablesTypeOK
<1>4. ~keys[m].active
  BY DEF NoKey
<1>5. ASSUME NEW a \in Accounts, DeleteAccountWithCascade(a) PROVE keys'[m] = NoKey
  BY <1>4, <1>5 DEF DeleteAccountWithCascade, RevokeWhere
<1>6. ASSUME NEW n \in Components, DeleteComponentWithRevoke(n) PROVE keys'[m] = NoKey
  BY <1>4, <1>6 DEF DeleteComponentWithRevoke, RevokeWhere
<1> QED
  BY <1>1, <1>2, <1>3, <1>5, <1>6
     DEF Statement, tables, CreateAccount, UpdateAccount, CreateComponent,
         UpdateComponent, DeleteComponent

LEMMA OutlivedStep ==
  ASSUME TypeOK, OnlyRacedKeysOutlive, Sound
  PROVE  OnlyRacedKeysOutlive'
<1> SUFFICES ASSUME NEW m \in Keys, Outlived(m)' PROVE m \in stray'
  BY DEF OnlyRacedKeysOutlive
<1>1. TablesTypeOK /\ TablesTypeOK' /\ Statement
  BY StatementType DEF TypeOK, Sound
<1>2. CASE keys[m] # NoKey
  BY <1>1, <1>2, OldRowOutlived DEF OnlyRacedKeysOutlive, Sound
<1>3. CASE keys[m] = NoKey
  BY <1>1, <1>3, NewRowOutlived
<1> QED BY <1>2, <1>3

-----------------------------------------------------------------------------
(* What the cache holds. *)

\* Requests other than the one that evicts leave the cache alone, and what they
\* change in the components table stays a fact until they evict.
LEMMA RequestStepFacts ==
  ASSUME TypeOK, NEW q \in Requests, NEW n \in Components,
         AccountStep(q) \/ KeyStep(q) \/ ComponentStep(q) \/ Abort(q), ~Evict(q)
  PROVE  UNCHANGED cache /\ TableFacts(n) \subseteq TableFacts(n)'
<1> DEFINE m == req[q].component
<1>1. UNCHANGED cache
  BY DEF AccountStep, CreateAccountRequest, PreflightUpdate, PreflightDelete,
         PatchAccount, DeleteAccount, KeyStep, IssueCheckAccount, IssueCheckComponent,
         IssueInsert, RevokeKeyRequest, ComponentStep, CreateComponentRequest,
         FinishCreate, PreflightComponent, PatchComponent, DeleteComponentRequest, Abort
<1>2. req[q].at # "evict" /\ \A s \in Requests : s # q => req'[s] = req[s]
  BY DEF AccountStep, CreateAccountRequest, PreflightUpdate, PreflightDelete,
         PatchAccount, DeleteAccount, KeyStep, IssueCheckAccount, IssueCheckComponent,
         IssueInsert, RevokeKeyRequest, ComponentStep, CreateComponentRequest,
         FinishCreate, PreflightComponent, PatchComponent, DeleteComponentRequest, Abort,
         Evict, Arrive, Respond, Goto, ToEvict, Running, TypeOK
<1>3. m \in Components /\ req[q] \in Request
  BY DEF TypeOK, Request
<1>4. \/ components'[n] = components[n]
      \/ components[n] = "absent"
      \/ n = m /\ ToEvict(q)
  <2>1. AccountStep(q) \/ KeyStep(q) \/ Abort(q) => UNCHANGED components
    BY DEF AccountStep, CreateAccountRequest, CreateAccount, PreflightUpdate,
           PreflightDelete, PatchAccount, UpdateAccount, DeleteAccount,
           DeleteAccountWithCascade, KeyStep, IssueCheckAccount, IssueCheckComponent,
           IssueInsert, CreateKeyForAccount, RevokeKeyRequest, RevokeKey, Abort, tables
  <2>2. ASSUME NEW c \in Components, NEW v \in Visibility, CreateComponentRequest(q, c, v)
        PROVE  components'[n] = components[n] \/ components[n] = "absent"
    BY <2>2 DEF CreateComponentRequest, CreateComponent, TypeOK, TablesTypeOK
  <2>3. FinishCreate(q) \/ PatchComponent(q) \/ DeleteComponentRequest(q)
          => \/ UNCHANGED components
             \/ ToEvict(q) /\ \A c \in Components : c # m => components'[c] = components[c]
    BY <1>3 DEF FinishCreate, DeleteComponent, PatchComponent, UpdateComponent,
           DeleteComponentRequest, DeleteComponentWithRevoke, TypeOK, TablesTypeOK, tables
  <2>4. \A h, c, v : PreflightComponent(q, h, c, v) => UNCHANGED components
    BY DEF PreflightComponent, tables
  <2> QED BY <2>1, <2>2, <2>3, <2>4 DEF ComponentStep
<1>5. ASSUME ToEvict(q)
      PROVE  req'[q].at = "evict" /\ req'[q].component = m /\ req'[q].replaced = components[m]
  BY <1>3, <1>5 DEF ToEvict, Request, TypeOK
<1>6. ASSUME "public" \in TableFacts(n) PROVE "public" \in TableFacts(n)'
  BY <1>2, <1>4, <1>5, <1>6, FactsAre
<1>7. ASSUME "component" \in TableFacts(n) PROVE "component" \in TableFacts(n)'
  BY <1>2, <1>4, <1>5, <1>7, FactsAre DEF Visibility
<1>8. TableFacts(n) \subseteq {"public", "component"}
  BY DEF TableFacts
<1> QED BY <1>1, <1>6, <1>7, <1>8

\* A step that leaves the table and the requests alone.
LEMMA SameFacts ==
  ASSUME NEW n \in Components, UNCHANGED <<components, req>>
  PROVE  TableFacts(n)' = TableFacts(n)
BY DEF TableFacts

\* The history of a lookup that goes on.
LEMMA SharedKept ==
  ASSUME Witness, NEW n \in Components, cache[n].lookup # "none", cache'[n].lookup # "none"
  PROVE  shared'[n] = shared[n]
BY DEF Witness

LEMMA SharedBegun ==
  ASSUME Witness, NEW n \in Components, cache[n].lookup = "none", cache'[n].lookup # "none"
  PROVE  shared'[n] = TableFacts(n)'
BY DEF Witness

LEMMA CacheWitnessedStep ==
  ASSUME TypeOK, CacheWitnessed, Next
  PROVE  CacheWitnessed'
<1>0. Sound /\ Witness
  BY NextSound
<1> SUFFICES ASSUME NEW n \in Components PROVE CacheWitnessedOf(n)'
  BY DEF CacheWitnessed
<1>1. /\ CacheWitnessedOf(n) /\ cache[n] \in Cached
      /\ components[n] \in {"public", "private", "absent"}
  BY DEF CacheWitnessed, TypeOK, TablesTypeOK, Visibility
<1>2. ASSUME cache'[n] = cache[n], TableFacts(n) \subseteq TableFacts(n)'
      PROVE  CacheWitnessedOf(n)'
  <2>1. cache[n].lookup # "none" => shared'[n] = shared[n]
    BY <1>0, <1>2, SharedKept
  <2> QED BY <1>1, <1>2, <2>1 DEF CacheWitnessedOf
\* An entry goes, and a row that is yet to be inserted with it or not.
<1>3. ASSUME cache'[n].entry = FALSE,
             \/ cache'[n].lookup = "none"
             \/ cache'[n].lookup = cache[n].lookup /\ cache[n].lookup # "public"
             \/ cache'[n].lookup = "settled" /\ cache[n].lookup = "public"
      PROVE  CacheWitnessedOf(n)'
  BY <1>0, <1>1, <1>3, SharedKept DEF CacheWitnessedOf
<1>4. ASSUME NEW q \in Requests, Evict(q) PROVE CacheWitnessedOf(n)'
  <2>1. req[q].component \in Components /\ req[q].at = "evict"
    BY <1>4 DEF TypeOK, Request, Evict
  <2>2. CASE n = req[q].component
    <3>1. cache'[n] = [entry |-> FALSE, lookup |-> IF cache[n].lookup = "public"
                                                   THEN "settled" ELSE cache[n].lookup]
      BY <1>4, <2>2 DEF Evict, TypeOK
    <3> QED BY <1>3, <3>1
  <2>3. CASE n # req[q].component
    <3>1. cache'[n] = cache[n] /\ UNCHANGED components
      BY <1>4, <2>3 DEF Evict, TypeOK, tables
    <3>2. \A s \in Requests : s # q => req'[s] = req[s]
      BY <1>4 DEF Evict, Respond, TypeOK
    <3>3. TableFacts(n) \subseteq TableFacts(n)'
      <4>1. TableFacts(n) \subseteq {"public", "component"}
        BY DEF TableFacts
      <4> QED BY <2>3, <3>1, <3>2, <4>1, FactsAre
    <3> QED BY <1>2, <3>1, <3>3
  <2> QED BY <2>2, <2>3
<1>5. ASSUME NEW q \in Requests, ~Evict(q),
             AccountStep(q) \/ KeyStep(q) \/ ComponentStep(q) \/ Abort(q)
      PROVE  CacheWitnessedOf(n)'
  BY <1>2, <1>5, RequestStepFacts
<1>6. ASSUME NEW p \in Pulls, NEW m \in Components, NEW k \in Keys, ResolveMiss(p, m, k)
      PROVE  CacheWitnessedOf(n)'
  <2>1. UNCHANGED <<components, req>>
    BY <1>6 DEF ResolveMiss, tables
  <2>2. TableFacts(n)' = TableFacts(n)
    BY <2>1, SameFacts
  <2>3. CASE cache'[n] = cache[n]
    BY <1>2, <2>2, <2>3
  <2>4. ASSUME NEW row \in {components[n], "absent"}, cache[n].lookup = "none",
               cache'[n] = [cache[n] EXCEPT !.lookup = row]
        PROVE  CacheWitnessedOf(n)'
    <3>1. cache'[n].lookup = row /\ cache'[n].entry = cache[n].entry
      BY <1>1, <2>4 DEF Cached
    <3>2. row # "none" /\ shared'[n] = TableFacts(n)
      BY <1>0, <1>1, <2>2, <2>4, <3>1, SharedBegun
    <3>3. row = "public" => "public" \in TableFacts(n)
      BY <2>4, FactsAre
    <3>4. row = "private" => "component" \in TableFacts(n)
      BY <2>4, FactsAre DEF Visibility
    <3>5. row # "settled"
      BY <1>1
    <3> QED BY <1>1, <2>2, <3>1, <3>2, <3>3, <3>4, <3>5 DEF CacheWitnessedOf
  <2> QED BY <1>6, <2>3, <2>4 DEF ResolveMiss, BeginLookup, TypeOK
<1>7. ASSUME NEW p \in Pulls, PullStep(p),
             \A m \in Components, k \in Keys : ~ResolveMiss(p, m, k)
      PROVE  CacheWitnessedOf(n)'
  <2>1. UNCHANGED <<components, req, cache>>
    BY <1>7 DEF PullStep, ResolveHit, CheckKey, CheckAccount, CountUse, IncrementUsage,
                PullFails, tables
  <2> QED BY <1>2, <2>1, SameFacts
<1>8. ASSUME NEW m \in Components, CacheStep(m) PROVE CacheWitnessedOf(n)'
  <2>1. UNCHANGED <<components, req>>
    BY <1>8 DEF CacheStep, Insert, Land, Expire, tables
  <2>2. TableFacts(n)' = TableFacts(n)
    BY <2>1, SameFacts
  <2>3. CASE m # n
    <3>1. cache'[n] = cache[n]
      BY <1>8, <2>3 DEF CacheStep, Insert, Land, Expire, TypeOK
    <3> QED BY <1>2, <2>2, <3>1
  <2>4. CASE Insert(n)
    <3>1. /\ cache[n].lookup = "public"
          /\ cache'[n] = [entry |-> TRUE, lookup |-> "settled"]
      BY <2>4 DEF Insert, TypeOK
    <3> QED BY <1>0, <1>1, <2>2, <3>1, SharedKept DEF CacheWitnessedOf
  <2>5. CASE Land(n)
    <3>1. /\ cache'[n].entry = cache[n].entry /\ cache'[n].lookup = "none"
      BY <1>1, <2>5 DEF Land, TypeOK, Cached
    <3> QED BY <1>1, <2>2, <3>1 DEF CacheWitnessedOf
  <2>6. CASE Expire(n)
    <3>1. cache'[n].entry = FALSE /\ cache'[n].lookup = cache[n].lookup
      BY <1>1, <2>6 DEF Expire, TypeOK, Cached
    <3>2. cache[n].lookup # "none" => shared'[n] = shared[n]
      BY <1>0, <3>1, SharedKept
    <3> QED BY <1>1, <2>2, <3>1, <3>2 DEF CacheWitnessedOf
  <2> QED BY <1>8, <2>3, <2>4, <2>5, <2>6 DEF CacheStep
<1>9. ASSUME Clock PROVE CacheWitnessedOf(n)'
  <2>1. UNCHANGED <<components, req, cache>>
    BY <1>9 DEF Clock, Lapse
  <2> QED BY <1>2, <2>1, SameFacts
<1> QED BY <1>4, <1>5, <1>6, <1>7, <1>8, <1>9 DEF Next

-----------------------------------------------------------------------------
(* Nobody is let in without cause. *)

\* What has been witnessed is not forgotten once a pull has begun.
LEMMA WitnessGrows ==
  ASSUME TypeOK, Witness, NEW p \in Pulls, pull'[p].at # "new",
         pull'[p].verdict # "denied"
  PROVE  witnessed[p] \subseteq witnessed'[p]
BY DEF TypeOK, Witness

\* A step of a pull that is still running witnesses what holds after it.
LEMMA WitnessesNow ==
  ASSUME Witness, NEW p \in Pulls, pull[p].at # "done", pull'[p].at # "new",
         pull'[p].verdict # "denied"
  PROVE  /\ FactsOf(p)' \subseteq witnessed'[p]
         /\ pull'[p].at = "lookup" => shared'[pull'[p].component] \subseteq witnessed'[p]
BY DEF Witness

\* What PullProgress and AllowedForCause say of one pull.
Progress(p) ==
  /\ pull[p].at \in {"credential", "account", "count"} => "component" \in witnessed[p]
  /\ pull[p].at = "count" => {"key", "account"} \subseteq witnessed[p]
  /\ pull[p].at = "account" =>
       /\ "key" \in witnessed[p]
       /\ keys[pull[p].key] # NoKey
       /\ keys[pull[p].key].account = pull[p].account
  /\ pull[p].verdict # "none" => pull[p].at = "done"
  /\ pull[p].at = "lookup" =>
       /\ cache[pull[p].component].lookup # "none"
       /\ shared[pull[p].component] \subseteq witnessed[p]
  /\ pull[p].verdict = "allowed" => {"component", "key", "account"} \subseteq witnessed[p]
  /\ pull[p].verdict = "allowed-public" => "public" \in witnessed[p]

LEMMA ProgressIs == (PullProgress /\ AllowedForCause) <=> \A p \in Pulls : Progress(p)
BY DEF PullProgress, AllowedForCause, Progress

\* A lookup ends only when it lands.
LEMMA LookupGoesOn ==
  ASSUME TypeOK, NEW n \in Components, Next, cache[n].lookup # "none", ~Land(n)
  PROVE  cache'[n].lookup # "none"
<1>0. cache[n] \in Cached
  BY DEF TypeOK
<1>1. ASSUME NEW q \in Requests, Evict(q) PROVE cache'[n].lookup # "none"
  <2>1. req[q].component \in Components
    BY DEF TypeOK, Request
  <2> QED BY <1>1, <2>1 DEF Evict, TypeOK
<1>2. ASSUME NEW q \in Requests, ~Evict(q),
             AccountStep(q) \/ KeyStep(q) \/ ComponentStep(q) \/ Abort(q)
      PROVE  UNCHANGED cache
  BY <1>2, RequestStepFacts
<1>3. ASSUME NEW p \in Pulls, PullStep(p) PROVE cache'[n] = cache[n]
  BY <1>3 DEF PullStep, ResolveHit, ResolveMiss, BeginLookup, CheckKey, CheckAccount,
              CountUse, PullFails, TypeOK
<1>4. ASSUME NEW m \in Components, CacheStep(m) PROVE cache'[n].lookup # "none"
  <2>1. CASE m # n
    BY <1>4, <2>1 DEF CacheStep, Insert, Land, Expire, TypeOK
  <2>2. CASE m = n
    BY <1>0, <1>4, <2>2 DEF CacheStep, Insert, Expire, TypeOK, Cached
  <2> QED BY <2>1, <2>2
<1> QED BY <1>1, <1>2, <1>3, <1>4 DEF Next, Clock

\* A step that leaves a pull alone.
LEMMA ProgressKept ==
  ASSUME TypeOK, NEW p \in Pulls, Progress(p), Next, Sound, Witness, pull'[p] = pull[p],
         pull[p].at = "lookup" => ~Land(pull[p].component)
  PROVE  Progress(p)'
<1>1. CASE pull[p].at = "new" \/ pull[p].verdict = "denied"
  BY <1>1 DEF Progress
<1>2. CASE pull[p].at # "new" /\ pull[p].verdict # "denied"
  <2>1. witnessed[p] \subseteq witnessed'[p]
    BY <1>2, WitnessGrows
  <2>2. pull[p].key \in Keys /\ pull[p].component \in Components
    BY DEF TypeOK, Pull
  <2>3. KeyKept(pull[p].key)
    BY <2>2, StatementKeeps DEF TypeOK, Sound
  <2>4. pull[p].at = "lookup" =>
          /\ cache'[pull[p].component].lookup # "none"
          /\ shared'[pull[p].component] \subseteq witnessed'[p]
    BY <1>2, <2>2, LookupGoesOn, WitnessesNow DEF Progress
  <2> QED BY <2>1, <2>3, <2>4 DEF Progress, KeyKept
<1> QED BY <1>1, <1>2

\* A denied pull has nothing to show.
LEMMA ProgressDenied ==
  ASSUME TypeOK, NEW p \in Pulls, pull'[p] = Denied
  PROVE  Progress(p)'
<1>1. pull'[p].at = "done" /\ pull'[p].verdict = "denied"
  BY DEF Denied, NewPull
<1> QED BY <1>1 DEF Progress

\* A lookup lands: the pulls that wait for it are told what it read.
LEMMA ProgressLands ==
  ASSUME TypeOK, CacheWitnessed, NEW p \in Pulls, Progress(p), Witness,
         pull[p].at = "lookup", Land(pull[p].component)
  PROVE  Progress(p)'
<1> DEFINE r == pull[p]
           n == r.component
           row == cache[n].lookup
<1>0. r \in Pull /\ n \in Components
  BY DEF TypeOK, Pull
<1>1. /\ row \in {"settled", "private", "absent"}
      /\ pull'[p] = Resolved(r, row)
  BY <1>0 DEF Land, TypeOK, Cached
<1>2. /\ row = "settled" => "public" \in witnessed[p]
      /\ row = "private" => "component" \in witnessed[p]
  BY <1>0 DEF CacheWitnessed, CacheWitnessedOf, Progress
<1>3. r.verdict = "none"
  BY DEF Progress
<1>4. CASE row = "settled"
  <2>1. pull'[p].at = "done" /\ pull'[p].verdict = "allowed-public"
    BY <1>0, <1>1, <1>4 DEF Resolved, Pull
  <2>2. witnessed[p] \subseteq witnessed'[p]
    BY <2>1, WitnessGrows
  <2> QED BY <1>2, <1>4, <2>1, <2>2 DEF Progress
<1>5. CASE row = "private"
  <2>1. pull'[p].at = "credential" /\ pull'[p].verdict = "none"
    BY <1>0, <1>1, <1>3, <1>5 DEF Resolved, Pull
  <2>2. witnessed[p] \subseteq witnessed'[p]
    BY <2>1, WitnessGrows
  <2> QED BY <1>2, <1>5, <2>1, <2>2 DEF Progress
<1>6. CASE row = "absent"
  <2>1. pull'[p] = Denied
    BY <1>1, <1>6 DEF Resolved
  <2> QED BY <2>1, ProgressDenied
<1> QED BY <1>1, <1>4, <1>5, <1>6

LEMMA ProgressOfPull ==
  ASSUME TypeOK, TypeOK', CacheWitnessed, NEW p \in Pulls, Progress(p), PullStep(p)
  PROVE  Progress(p)'
<1> DEFINE r == pull[p]
<1>0. r \in Pull /\ r.key \in Keys /\ r.component \in Components
  BY DEF TypeOK, Pull
<1>1. Sound /\ Witness
  BY PullStepSound
<1>2. ASSUME NEW n \in Components, ResolveHit(p, n) PROVE Progress(p)'
  <2>1. /\ pull'[p].at = "done" /\ pull'[p].verdict = "allowed-public"
        /\ pull'[p].component = n
    BY <1>0, <1>2 DEF ResolveHit, TypeOK, Pull
  <2>2. FactsOf(p)' \subseteq witnessed'[p]
    BY <1>1, <1>2, <2>1, WitnessesNow DEF ResolveHit
  <2>3. "public" \in TableFacts(n)'
    BY <1>2, SameFacts DEF ResolveHit, tables, CacheWitnessed, CacheWitnessedOf
  <2>4. "public" \in FactsOf(p)'
    BY <2>1, <2>3 DEF FactsOf
  <2> QED BY <2>1, <2>2, <2>4 DEF Progress
<1>m. ASSUME NEW n \in Components, NEW k \in Keys, ResolveMiss(p, n, k)
      PROVE  Progress(p)'
  <2>1. r.at = "new" /\ r.verdict = "none"
    BY <1>m DEF ResolveMiss, Progress
  <2>2. /\ pull'[p].at = "lookup" /\ pull'[p].verdict = "none"
        /\ pull'[p].component = n
    BY <1>0, <1>m, <2>1 DEF ResolveMiss, TypeOK, Pull
  <2>3. cache'[n].lookup # "none"
    BY <1>0, <1>m DEF ResolveMiss, BeginLookup, TypeOK, TablesTypeOK, Visibility, Cached
  <2>4. shared'[n] \subseteq witnessed'[p]
    BY <1>1, <2>1, <2>2, WitnessesNow
  <2> QED BY <2>2, <2>3, <2>4 DEF Progress
<1>3. ASSUME Deny(p) PROVE Progress(p)'
  <2>1. pull'[p] = Denied
    BY <1>3 DEF Deny, TypeOK
  <2> QED BY <2>1, ProgressDenied
<1>4. ASSUME CheckKey(p) PROVE Progress(p)'
  <2>1. r.at = "credential" /\ UNCHANGED keys
    BY <1>4 DEF CheckKey, tables
  <2>2. CASE Deny(p)
    BY <1>3, <2>2
  <2>3. ASSUME GetByValue(r.key), keys[r.key].component = r.component,
               pull' = [pull EXCEPT ![p] = [@ EXCEPT !.at = "account",
                                                     !.account = keys[r.key].account]]
        PROVE  Progress(p)'
    <3>1. /\ pull'[p].at = "account" /\ pull'[p].account = keys[r.key].account
          /\ pull'[p].key = r.key /\ pull'[p].component = r.component
          /\ pull'[p].verdict = r.verdict
      BY <1>0, <2>3 DEF TypeOK, Pull
    <3>4. r.verdict = "none"
      BY <2>1 DEF Progress
    <3>2. FactsOf(p)' \subseteq witnessed'[p] /\ witnessed[p] \subseteq witnessed'[p]
      BY <1>1, <2>1, <3>1, <3>4, WitnessesNow, WitnessGrows
    <3>3. "key" \in FactsOf(p)'
      BY <2>1, <2>3, <3>1 DEF FactsOf, Facts, GetByValue
    <3> QED BY <2>1, <2>3, <3>1, <3>2, <3>3, <3>4 DEF Progress, GetByValue
  <2> QED BY <1>4, <2>2, <2>3 DEF CheckKey
<1>5. ASSUME CheckAccount(p) PROVE Progress(p)'
  <2>1. r.at = "account" /\ UNCHANGED accounts
    BY <1>5 DEF CheckAccount, tables
  <2>2. CASE Deny(p)
    BY <1>3, <2>2
  <2>3. ASSUME accounts[r.account] = "active", PullAt(p, "count")
        PROVE  Progress(p)'
    <3>1. /\ pull'[p].at = "count" /\ pull'[p].key = r.key
          /\ pull'[p].verdict = r.verdict
      BY <1>0, <2>3 DEF TypeOK, Pull, PullAt
    <3>5. r.verdict = "none"
      BY <2>1 DEF Progress
    <3>2. FactsOf(p)' \subseteq witnessed'[p] /\ witnessed[p] \subseteq witnessed'[p]
      BY <1>1, <2>1, <3>1, <3>5, WitnessesNow, WitnessGrows
    <3>3. keys'[r.key] # NoKey /\ keys'[r.key].account = r.account
      BY <1>0, <1>1, <2>1, StatementKeeps DEF Progress, KeyKept, Sound, TypeOK
    <3>4. "account" \in FactsOf(p)'
      BY <2>1, <2>3, <3>1, <3>3 DEF FactsOf, Facts
    <3> QED BY <2>1, <3>1, <3>2, <3>4, <3>5 DEF Progress
  <2> QED BY <1>5, <2>2, <2>3 DEF CheckAccount
<1>6. ASSUME CountUse(p) PROVE Progress(p)'
  <2>1. r.at = "count"
    BY <1>6 DEF CountUse
  <2>2. pull'[p].at = "done" /\ pull'[p].verdict = "allowed"
    BY <1>0, <1>6 DEF CountUse, TypeOK, Pull
  <2>3. witnessed[p] \subseteq witnessed'[p]
    BY <1>1, <2>1, <2>2, WitnessGrows
  <2> QED BY <2>1, <2>2, <2>3 DEF Progress
<1>7. ASSUME PullFails(p) PROVE Progress(p)'
  BY <1>3, <1>7 DEF PullFails
<1> QED BY <1>2, <1>m, <1>4, <1>5, <1>6, <1>7 DEF PullStep

LEMMA RequestsLeavePulls ==
  ASSUME NEW q \in Requests,
         AccountStep(q) \/ KeyStep(q) \/ ComponentStep(q) \/ Abort(q)
  PROVE  UNCHANGED pull
BY DEF AccountStep, CreateAccountRequest, PreflightUpdate, PreflightDelete, PatchAccount,
       DeleteAccount, KeyStep, IssueCheckAccount, IssueCheckComponent, IssueInsert,
       RevokeKeyRequest, ComponentStep, CreateComponentRequest, FinishCreate,
       PreflightComponent, PatchComponent, DeleteComponentRequest, Evict,
       Abort

LEMMA ProgressStep ==
  ASSUME TypeOK, TypeOK', CacheWitnessed, PullProgress, AllowedForCause, Next
  PROVE  (PullProgress /\ AllowedForCause)'
<1>1. SUFFICES ASSUME NEW p \in Pulls PROVE Progress(p)'
  BY DEF PullProgress, AllowedForCause, Progress
<1>2. Progress(p)
  BY ProgressIs
<1>3. Sound /\ Witness
  BY NextSound
<1>4. CASE PullStep(p)
  BY <1>2, <1>4, ProgressOfPull
<1>l. CASE pull[p].at = "lookup" /\ Land(pull[p].component)
  BY <1>2, <1>3, <1>l, ProgressLands
<1>5. CASE pull'[p] = pull[p] /\ ~(pull[p].at = "lookup" /\ Land(pull[p].component))
  BY <1>2, <1>3, <1>5, ProgressKept
<1>6. ASSUME NEW s \in Pulls, PullStep(s), s # p PROVE pull'[p] = pull[p]
  BY <1>6 DEF PullStep, ResolveHit, ResolveMiss, CheckKey, CheckAccount, PullAt, CountUse,
              PullFails, Deny, TypeOK
<1>7. ASSUME NEW n \in Components, CacheStep(n),
             ~(pull[p].at = "lookup" /\ Land(pull[p].component))
      PROVE  pull'[p] = pull[p]
  BY <1>7 DEF CacheStep, Insert, Land, Expire, TypeOK
<1>8. Clock => UNCHANGED pull
  BY DEF Clock
<1> QED BY <1>4, <1>l, <1>5, <1>6, <1>7, <1>8, RequestsLeavePulls DEF Next

-----------------------------------------------------------------------------
(* Uses are counted after every check. *)

\* The pulls that were allowed with a key.  They are finitely many however
\* many pulls there are, and no key has been counted more often.
AllowedWith(k) == {p \in Pulls : pull[p].verdict = "allowed" /\ pull[p].key = k}

UsageInv ==
  \A k \in Keys :
    /\ IsFiniteSet(AllowedWith(k))
    /\ keys[k] # NoKey => keys[k].usage_count <= Cardinality(AllowedWith(k))

\* A step counts a use of a row, keeps the count of it, or inserts it.
UsageKept(m) ==
  \/ keys'[m] = NoKey
  \/ keys[m] # NoKey /\ keys'[m].usage_count = keys[m].usage_count
  \/ keys'[m].usage_count = 0

LEMMA UsageStep ==
  ASSUME TypeOK, Next, NEW m \in Keys, ~\E p \in Pulls : CountUse(p)
  PROVE  UsageKept(m)
<1>0. keys \in [Keys -> Key \cup {NoKey}]
  BY DEF TypeOK, TablesTypeOK
<1>1. ASSUME keys'[m] = keys[m] PROVE UsageKept(m)
  BY <1>1 DEF UsageKept
<1>2. ASSUME keys[m] # NoKey,
             \/ keys'[m] = [keys[m] EXCEPT !.active = FALSE]
             \/ keys'[m] = [keys[m] EXCEPT !.expires_at = "past"]
      PROVE  UsageKept(m)
  <2>1. keys[m] \in Key
    BY <1>0, <1>2
  <2>2. keys'[m].usage_count = keys[m].usage_count
    BY <1>2, <2>1 DEF Key
  <2> QED BY <1>2, <2>2 DEF UsageKept
<1>3. ASSUME NEW a \in Accounts, DeleteAccountWithCascade(a) PROVE UsageKept(m)
  <2>1. \/ keys'[m] = keys[m]
        \/ keys[m].active /\ keys'[m] = [keys[m] EXCEPT !.active = FALSE]
    BY <1>3 DEF DeleteAccountWithCascade, RevokeWhere
  <2> QED BY <1>1, <1>2, <2>1 DEF NoKey
<1>4. ASSUME NEW n \in Components, DeleteComponentWithRevoke(n) PROVE UsageKept(m)
  <2>1. \/ keys'[m] = keys[m]
        \/ keys[m].active /\ keys'[m] = [keys[m] EXCEPT !.active = FALSE]
    BY <1>4 DEF DeleteComponentWithRevoke, RevokeWhere
  <2> QED BY <1>1, <1>2, <2>1 DEF NoKey
<1>5. ASSUME NEW k \in Keys, RevokeKey(k) \/ Lapse(k) PROVE UsageKept(m)
  BY <1>0, <1>1, <1>2, <1>5 DEF RevokeKey, Lapse
<1>6. ASSUME NEW k \in Keys, NEW a, NEW n, NEW e, CreateKeyForAccount(k, a, n, e)
      PROVE  UsageKept(m)
  BY <1>0, <1>6 DEF CreateKeyForAccount, UsageKept
<1>7. ASSUME UNCHANGED keys PROVE UsageKept(m)
  BY <1>1, <1>7
<1>8. ASSUME NEW q \in Requests, AccountStep(q) PROVE UsageKept(m)
  <2>1. req[q].account \in Accounts
    BY DEF TypeOK, Request
  <2> QED BY <1>3, <1>7, <1>8, <2>1
          DEF AccountStep, CreateAccountRequest, CreateAccount, PreflightUpdate,
              PreflightDelete, PatchAccount, UpdateAccount, DeleteAccount, tables
<1>9. ASSUME NEW q \in Requests, KeyStep(q) PROVE UsageKept(m)
  BY <1>5, <1>6, <1>7, <1>9
     DEF KeyStep, IssueCheckAccount, IssueCheckComponent, IssueInsert, RevokeKeyRequest,
         tables
<1>10. ASSUME NEW q \in Requests, ComponentStep(q) PROVE UsageKept(m)
  <2>1. req[q].component \in Components
    BY DEF TypeOK, Request
  <2> QED BY <1>4, <1>7, <1>10, <2>1
          DEF ComponentStep, CreateComponentRequest, CreateComponent, PreflightComponent,
              FinishCreate, DeleteComponent, PatchComponent, UpdateComponent,
              DeleteComponentRequest, Evict, tables
<1>11. ASSUME NEW p \in Pulls, PullStep(p), ~CountUse(p) PROVE UNCHANGED keys
  BY <1>11 DEF PullStep, ResolveHit, ResolveMiss, CheckKey, CheckAccount, PullFails, tables
<1>12. ASSUME NEW n \in Components, CacheStep(n) PROVE UNCHANGED keys
  BY <1>12 DEF CacheStep, Insert, Land, Expire, tables
<1> QED BY <1>5, <1>7, <1>8, <1>9, <1>10, <1>11, <1>12 DEF Next, Abort, Clock, tables

\* Only CountUse allows a pull with a key, and an answer stays what it is.
LEMMA AllowedStep ==
  ASSUME TypeOK, PullProgress, Next, NEW k \in Keys,
         ~\E p \in Pulls : CountUse(p)
  PROVE  AllowedWith(k)' = AllowedWith(k)
<1>1. CASE UNCHANGED pull
  BY <1>1 DEF AllowedWith
<1>2. ASSUME NEW p \in Pulls, PullStep(p), ~CountUse(p)
      PROVE  AllowedWith(k)' = AllowedWith(k)
  <2> DEFINE r == pull[p]
  <2>0. r \in Pull
    BY DEF TypeOK
  <2>1. \A s \in Pulls : s # p => pull'[s] = pull[s]
    BY <1>2 DEF PullStep, ResolveHit, ResolveMiss, CheckKey, CheckAccount, PullAt,
                PullFails, Deny, TypeOK
  <2>2. r.at # "done"
    BY <1>2 DEF PullStep, ResolveHit, ResolveMiss, CheckKey, CheckAccount, PullFails
  <2>3. r.verdict = "none"
    BY <2>2 DEF PullProgress
  <2>4. pull'[p].verdict # "allowed"
    <3>1. CASE Deny(p)
      BY <3>1 DEF Deny, Denied, NewPull, TypeOK
    <3>2. ASSUME NEW n \in Components, ResolveHit(p, n)
          PROVE  pull'[p].verdict # "allowed"
      BY <2>0, <3>2 DEF ResolveHit, TypeOK, Pull
    <3>m. ASSUME NEW n \in Components, NEW j \in Keys, ResolveMiss(p, n, j)
          PROVE  pull'[p].verdict # "allowed"
      BY <2>0, <2>3, <3>m DEF ResolveMiss, TypeOK, Pull
    <3>3. CASE CheckKey(p)
      <4> DEFINE a == keys[r.key].account
      <4>1. Deny(p) \/ pull'[p] = [r EXCEPT !.at = "account", !.account = a]
        BY <3>3 DEF CheckKey, TypeOK
      <4> HIDE DEF a
      <4> QED BY <2>0, <2>3, <3>1, <4>1 DEF Pull
    <3>4. CASE CheckAccount(p)
      BY <2>0, <2>3, <3>1, <3>4 DEF CheckAccount, PullAt, TypeOK, Pull
    <3> QED BY <1>2, <3>1, <3>2, <3>m, <3>3, <3>4 DEF PullStep, PullFails
  <2> QED BY <2>1, <2>3, <2>4 DEF AllowedWith
<1>3. ASSUME NEW n \in Components, CacheStep(n) PROVE AllowedWith(k)' = AllowedWith(k)
  <2>1. CASE Insert(n) \/ Expire(n)
    BY <1>1, <2>1 DEF Insert, Expire
  <2>2. CASE Land(n)
    <3> SUFFICES ASSUME NEW p \in Pulls
                 PROVE  \/ pull'[p] = pull[p]
                        \/ pull[p].verdict = "none" /\ pull'[p].verdict # "allowed"
      BY DEF AllowedWith
    <3> DEFINE r == pull[p]
               row == cache[n].lookup
    <3>1. CASE r.at = "lookup" /\ r.component = n
      <4>1. r \in Pull /\ r.verdict = "none"
        BY <3>1 DEF TypeOK, PullProgress
      <4>2. pull'[p] = Resolved(r, row)
        BY <2>2, <3>1 DEF Land
      <4> HIDE DEF r, row
      <4>3. Resolved(r, row).verdict # "allowed"
        BY <4>1 DEF Resolved, Denied, NewPull, Pull
      <4> QED BY <4>1, <4>2, <4>3 DEF r
    <3>2. CASE ~(r.at = "lookup" /\ r.component = n)
      BY <2>2, <3>2 DEF Land
    <3> QED BY <3>1, <3>2
  <2> QED BY <1>3, <2>1, <2>2 DEF CacheStep
<1> QED BY <1>1, <1>2, <1>3, RequestsLeavePulls DEF Next, Clock

\* A use is counted together with the answer it is counted for.
LEMMA CountStep ==
  ASSUME TypeOK, PullProgress, UsageInv, NEW p \in Pulls, CountUse(p)
  PROVE  UsageInv'
<1> DEFINE j == pull[p].key
<1>0. /\ pull[p] \in Pull /\ j \in Keys
      /\ keys \in [Keys -> Key \cup {NoKey}]
  BY DEF TypeOK, TablesTypeOK, Pull
<1>1. pull'[p].verdict = "allowed" /\ pull'[p].key = j
  BY <1>0 DEF CountUse, TypeOK, Pull
<1>2. \A s \in Pulls : s # p => pull'[s] = pull[s]
  BY DEF CountUse, TypeOK
<1>3. pull[p].verdict = "none"
  BY DEF CountUse, PullProgress
<1> SUFFICES ASSUME NEW k \in Keys
             PROVE  /\ IsFiniteSet(AllowedWith(k)')
                    /\ keys'[k] # NoKey =>
                         keys'[k].usage_count <= Cardinality(AllowedWith(k)')
  BY DEF UsageInv
<1>4. IsFiniteSet(AllowedWith(k)) /\ Cardinality(AllowedWith(k)) \in Nat
  BY FS_CardinalityType DEF UsageInv
<1>5. CASE k # j
  <2>1. AllowedWith(k)' = AllowedWith(k)
    BY <1>1, <1>2, <1>3, <1>5 DEF AllowedWith
  <2>2. keys'[k] = keys[k]
    BY <1>0, <1>5 DEF CountUse, IncrementUsage, tables
  <2> QED BY <1>4, <2>1, <2>2 DEF UsageInv
<1>6. CASE k = j
  <2>1. AllowedWith(k)' = AllowedWith(k) \cup {p} /\ p \notin AllowedWith(k)
    BY <1>1, <1>2, <1>3, <1>6 DEF AllowedWith
  <2>2. /\ IsFiniteSet(AllowedWith(k)')
        /\ Cardinality(AllowedWith(k)') = Cardinality(AllowedWith(k)) + 1
    BY <1>4, <2>1, FS_AddElement
  <2>3. ASSUME keys'[k] # NoKey
        PROVE  keys'[k].usage_count <= Cardinality(AllowedWith(k)) + 1
    <3>1. keys[k] # NoKey
      BY <2>3, <1>0, <1>6 DEF CountUse, IncrementUsage, tables
    <3>2. /\ keys[k] \in Key /\ keys[k].usage_count \in Nat
          /\ keys[k].usage_count <= Cardinality(AllowedWith(k))
      BY <1>0, <3>1 DEF Key, UsageInv
    <3>3. CASE UNCHANGED tables
      BY <1>4, <3>2, <3>3 DEF tables
    <3>4. CASE IncrementUsage(j)
      <4>1. keys'[k] = [keys[k] EXCEPT !.usage_count = keys[k].usage_count + 1]
        BY <1>0, <1>6, <3>4 DEF IncrementUsage
      <4>2. keys'[k].usage_count = keys[k].usage_count + 1
        BY <3>2, <4>1 DEF Key
      <4> QED BY <1>4, <3>2, <4>2
    <3> QED BY <3>3, <3>4 DEF CountUse
  <2> QED BY <2>2, <2>3
<1> QED BY <1>5, <1>6

LEMMA UsageInvStep ==
  ASSUME ApiInv, UsageInv, [Next]_vars
  PROVE  UsageInv'
<1>1. CASE UNCHANGED vars
  BY <1>1 DEF vars, UsageInv, AllowedWith
<1>2. CASE Next /\ ~\E p \in Pulls : CountUse(p)
  <2> SUFFICES ASSUME NEW k \in Keys
               PROVE  /\ IsFiniteSet(AllowedWith(k)')
                      /\ keys'[k] # NoKey =>
                           keys'[k].usage_count <= Cardinality(AllowedWith(k)')
    BY DEF UsageInv
  <2>1. AllowedWith(k)' = AllowedWith(k) /\ UsageKept(k)
    BY <1>2, UsageStep, AllowedStep DEF ApiInv
  <2>2. IsFiniteSet(AllowedWith(k)) /\ Cardinality(AllowedWith(k)) \in Nat
    BY FS_CardinalityType DEF UsageInv
  <2>3. ASSUME keys'[k] # NoKey PROVE keys'[k].usage_count <= Cardinality(AllowedWith(k))
    BY <2>1, <2>2, <2>3 DEF UsageKept, UsageInv
  <2> QED BY <2>1, <2>2, <2>3
<1>3. ASSUME NEW p \in Pulls, CountUse(p) PROVE UsageInv'
  BY <1>3, CountStep DEF ApiInv
<1> QED BY <1>1, <1>2, <1>3

-----------------------------------------------------------------------------
(* The theorems. *)
LEMMA InvStep == ApiInv /\ [Next]_vars => ApiInv'
<1> SUFFICES ASSUME ApiInv, [Next]_vars PROVE ApiInv'
  OBVIOUS
<1>1. CASE Next
  <2>1. Sound
    BY <1>1, NextSound DEF ApiInv
  <2>2. TypeOK'
    BY TypeStep DEF ApiInv
  <2>3. LegacyStaysActive'
    BY <2>1, StatementLegacy DEF ApiInv, Sound, TypeOK
  <2>4. OnlyRacedKeysOutlive'
    BY <2>1, OutlivedStep DEF ApiInv
  <2>5. PullProgress' /\ AllowedForCause'
    BY <1>1, <2>2, ProgressStep DEF ApiInv
  <2>6. CacheWitnessed'
    BY <1>1, CacheWitnessedStep DEF ApiInv
  <2> QED BY <2>2, <2>3, <2>4, <2>5, <2>6 DEF ApiInv
<1>2. CASE UNCHANGED vars
  <2>1. CacheWitnessed'
    BY <1>2, SameFacts DEF vars, ApiInv, CacheWitnessed, CacheWitnessedOf
  <2> QED BY <1>2, <2>1
          DEF vars, ApiInv, TypeOK, TablesTypeOK, LegacyStaysActive,
              OnlyRacedKeysOutlive, Outlived, PullProgress, AllowedForCause
<1> QED BY <1>1, <1>2

LEMMA Invariance == Spec => []ApiInv
BY InitInv, InvStep, PTL DEF Spec

\* The tables, the requests and the history keep their types, whatever the
\* handlers of accounts.go, keys.go, components.go and forward_auth.go do.
THEOREM ApiTypeCorrect == Spec => []TypeOK
BY Invariance, PTL DEF ApiInv

\* UpdateAccount and DeleteAccountWithCascade never take the legacy account
\* out of service, for any sequence of requests.
THEOREM LegacySafe == Spec => []LegacyStaysActive
BY Invariance, PTL DEF ApiInv

\* The cascades of DeleteAccountWithCascade and DeleteComponentWithRevoke
\* leave no active key behind other than one that was raced in.
THEOREM CascadesComplete == Spec => []OnlyRacedKeysOutlive
BY Invariance, PTL DEF ApiInv

\* ServeHTTP of forward_auth.go, which asks the cache of cached_components.go,
\* allows a pull only for a component, a key and an account that were good
\* during the pull; for the component of a pull that joined another caller's
\* lookup, when that lookup read the table.
THEOREM ForwardAuthSound == Spec => []AllowedForCause
BY Invariance, PTL DEF ApiInv

\* No statement of the store revives or moves a key.
THEOREM RevocationFinal == Spec => RevokedForGood
<1>1. ApiInv /\ [Next]_vars =>
        [\A k \in Keys : keys[k] # NoKey =>
           /\ keys'[k] # NoKey
           /\ keys'[k].account = keys[k].account
           /\ keys'[k].component = keys[k].component
           /\ keys'[k].active => keys[k].active]_vars
  <2> SUFFICES ASSUME ApiInv, Next, NEW k \in Keys PROVE KeyKept(k)
    BY DEF KeyKept
  <2>1. Sound
    BY NextSound DEF ApiInv
  <2> QED BY <2>1, StatementKeeps DEF ApiInv, TypeOK, Sound
<1> QED BY <1>1, Invariance, PTL DEF Spec, RevokedForGood

\* forward_auth.go counts a use (IncrementUsage) after every check and once
\* for an answer: no key is counted more often than it was let in with, for
\* any number of pulls under way.
THEOREM UsageSound == Spec => []UsageWithinPulls
<1>1. Init => UsageInv
  <2> SUFFICES ASSUME Init, NEW k \in Keys
               PROVE  /\ IsFiniteSet(AllowedWith(k))
                      /\ keys[k] # NoKey => keys[k].usage_count <= Cardinality(AllowedWith(k))
    BY DEF UsageInv
  <2>1. AllowedWith(k) = {}
    BY DEF Init, NewPull, AllowedWith
  <2>2. keys[k] # NoKey => keys[k].usage_count = 0
    BY DEF Init, TablesInit
  <2> QED BY <2>1, <2>2, FS_EmptySet
<1>2. ApiInv /\ UsageInv /\ [Next]_vars => UsageInv'
  BY UsageInvStep
<1>3. UsageInv => UsageWithinPulls
  BY DEF UsageInv, UsageWithinPulls, AllowedWith
<1> QED BY <1>1, <1>2, <1>3, Invariance, PTL DEF Spec
=============================================================================
