-------------------------- MODULE AuditTrailProofs --------------------------
(***************************************************************************)
(* What the audit log says, for every set of accounts, keys, components,   *)
(* admin requests and pulls.                                               *)
(***************************************************************************)
EXTENDS AuditTrail, SubscriberApiProofs

\* A row belongs to a request that is over.  Only a PATCH has a name for its row
\* before that.
Settled(q) ==
  /\ audit[q].is # "none" => req[q].at = "done"
  /\ audit[q].is = "none" =>
       audit[q].action \in {"account.update", "account.suspend", "account.reactivate"}

\* TrailIsTrue, of every row that is owed, lost or written: it happened ...
RowTrue(q) ==
  \A k \in Keys, a \in Accounts :
    /\ Has(q, "key.issue", k) => keys[k] # NoKey
    /\ Has(q, "key.revoke", k) => keys[k] # NoKey /\ ~keys[k].active
    /\ Has(q, "account.create", a) => accounts[a] # "absent"
    /\ Has(q, "account.delete", a) => accounts[a] = "deleted" \/ a \in reopened

\* ... and no other request has the same row.
Twice(q, p, action, target) == Has(q, action, target) /\ Has(p, action, target)

RowAlone(q) ==
  \A p \in Requests \ {q}, k \in Keys, a \in Accounts :
    /\ ~Twice(q, p, "key.issue", k)
    /\ ~Twice(q, p, "account.create", a)
    /\ Twice(q, p, "account.delete", a) => a \in reopened

Explained(k) ==
  keys[k] # NoKey /\ ~keys[k].active =>
    \/ k \in unrecorded
    \/ \E q \in Requests : \/ Has(q, "key.revoke", k)
                           \/ Has(q, "account.delete", keys[k].account)

AuditInv ==
  /\ AuditTypeOK
  /\ \A q \in Requests : Settled(q) /\ RowTrue(q) /\ RowAlone(q)
  /\ \A k \in Keys : Explained(k)

\* What a step of q is to the log.
Told(q) ==
  /\ Statement
  /\ unrecorded \subseteq unrecorded' /\ reopened \subseteq reopened'
  /\ \A p \in Requests \ {q} : audit'[p] = audit[p] /\ req'[p] = req[p]
  /\ req[q].at = "done" =>
       /\ req'[q] = req[q]
       /\ audit[q].is # "none" /\ audit'[q].is # "none"
       /\ audit'[q].action = audit[q].action /\ audit'[q].target = audit[q].target
       /\ UNCHANGED tables
  /\ \A a \in Accounts : accounts[a] = "deleted" =>
       accounts'[a] = "deleted" \/ a \in reopened'
  /\ \A k \in Keys :
       keys'[k] # NoKey /\ ~keys'[k].active /\ (keys[k] = NoKey \/ keys[k].active) =>
         \/ k \in unrecorded'
         \/ Has(q, "key.revoke", k)'
         \/ audit'[q].is # "none" /\ audit'[q].action = "account.delete"
              /\ audit'[q].target = keys'[k].account
  /\ Settled(q)'
  /\ req[q].at # "done" => RowTrue(q)' /\ RowAlone(q)'

-----------------------------------------------------------------------------
LEMMA AuditInitSound == AuditInit => AuditInv
<1> SUFFICES ASSUME AuditInit PROVE AuditInv
  OBVIOUS
<1>1. TypeOK
  BY InitInv DEF AuditInit, ApiInv
<1>2. AuditTypeOK
  BY <1>1, AnyTyped DEF AuditInit, AuditTypeOK, AuditRow, Actions
<1>3. ASSUME NEW q \in Requests PROVE Settled(q) /\ RowTrue(q) /\ RowAlone(q)
  <2>1. audit[q].is = "none" /\ audit[q].action = "account.update"
    BY DEF AuditInit
  <2> QED BY <2>1 DEF Settled, RowTrue, RowAlone, Twice, Has
<1>4. \A k \in Keys : Explained(k)
  BY DEF AuditInit, Explained
<1> QED BY <1>2, <1>3, <1>4 DEF AuditInv

\* No statement takes the row of an account away.
LEMMA AccountsStay ==
  ASSUME TablesTypeOK, Statement, NEW a \in Accounts, accounts[a] # "absent"
  PROVE  accounts'[a] # "absent"
BY DEF TablesTypeOK, AccountStatus, Statement, tables, CreateAccount,
       DeleteAccountWithCascade, UpdateAccount, CreateKeyForAccount, RevokeKey, IncrementUsage, Lapse,
       CreateComponent, UpdateComponent, DeleteComponent, DeleteComponentWithRevoke

LEMMA ToldKeeps ==
  ASSUME AuditInv, AuditTypeOK', NEW q \in Requests, Told(q)
  PROVE  AuditInv'
<1>s. TablesTypeOK /\ Statement
  BY DEF AuditInv, AuditTypeOK, TypeOK, Told
<1>a. ASSUME NEW p \in Requests, audit[p].is # "none"
      PROVE  /\ audit'[p].is # "none"
             /\ audit'[p].action = audit[p].action /\ audit'[p].target = audit[p].target
  BY <1>a DEF Told, AuditInv, Settled
<1>k. \A k \in Keys : KeyKept(k)
  BY <1>s, StatementKeeps
<1>d. ASSUME NEW a \in Accounts, accounts[a] = "deleted" \/ a \in reopened
      PROVE  accounts'[a] = "deleted" \/ a \in reopened'
  BY <1>d DEF Told
<1>h. ASSUME NEW p \in Requests, p # q \/ req[q].at = "done", NEW act, NEW t,
             Has(p, act, t)'
      PROVE  Has(p, act, t)
  BY <1>h DEF Told, Has
<1>1. ASSUME NEW p \in Requests PROVE Settled(p)'
  BY DEF Told, Settled, AuditInv
<1>2. ASSUME NEW p \in Requests PROVE RowTrue(p)'
  <2>2. CASE p # q \/ req[q].at = "done"
    <3> SUFFICES ASSUME NEW k \in Keys, NEW a \in Accounts
                 PROVE  /\ Has(p, "key.issue", k)' => keys'[k] # NoKey
                        /\ Has(p, "key.revoke", k)' => keys'[k] # NoKey /\ ~keys'[k].active
                        /\ Has(p, "account.create", a)' => accounts'[a] # "absent"
                        /\ Has(p, "account.delete", a)' =>
                             accounts'[a] = "deleted" \/ a \in reopened'
      BY DEF RowTrue
    <3>0. RowTrue(p)
      BY DEF AuditInv
    <3>1. Has(p, "key.issue", k)' => keys'[k] # NoKey
      BY <1>h, <2>2, <3>0, <1>k DEF RowTrue, KeyKept
    <3>2. Has(p, "key.revoke", k)' => keys'[k] # NoKey /\ ~keys'[k].active
      BY <1>h, <2>2, <3>0, <1>k DEF RowTrue, KeyKept
    <3>3. Has(p, "account.create", a)' => accounts'[a] # "absent"
      BY <1>h, <2>2, <3>0, <1>s, AccountsStay DEF RowTrue
    <3>4. Has(p, "account.delete", a)' => accounts'[a] = "deleted" \/ a \in reopened'
      BY <1>h, <2>2, <3>0, <1>d DEF RowTrue
    <3> QED BY <3>1, <3>2, <3>3, <3>4
  <2> QED BY <2>2 DEF Told
<1>3. ASSUME NEW p \in Requests PROVE RowAlone(p)'
  <2>1. CASE p = q /\ req[q].at # "done"
    BY <2>1 DEF Told
  <2> SUFFICES ASSUME p # q \/ req[q].at = "done",
                      NEW o \in Requests \ {p}, NEW k \in Keys, NEW a \in Accounts
               PROVE  /\ ~Twice(p, o, "key.issue", k)'
                      /\ ~Twice(p, o, "account.create", a)'
                      /\ Twice(p, o, "account.delete", a)' => a \in reopened'
    BY <2>1 DEF RowAlone
  <2>2. CASE o = q /\ req[q].at # "done"
    <3>1. RowAlone(q)' /\ p \in Requests \ {q}
      BY <2>2 DEF Told
    <3> QED BY <2>2, <3>1 DEF RowAlone, Twice
  <2>3. CASE o # q \/ req[q].at = "done"
    <3>1. RowAlone(p) /\ reopened \subseteq reopened'
      BY DEF AuditInv, Told
    <3>2. ASSUME NEW act, NEW t, Twice(p, o, act, t)' PROVE Twice(p, o, act, t)
      BY <1>h, <2>3, <3>2 DEF Twice
    <3> QED BY <3>1, <3>2 DEF RowAlone
  <2> QED BY <2>2, <2>3
<1>4. ASSUME NEW k \in Keys PROVE Explained(k)'
  <2> SUFFICES ASSUME keys'[k] # NoKey, ~keys'[k].active
               PROVE  \/ k \in unrecorded'
                      \/ \E p \in Requests : \/ Has(p, "key.revoke", k)'
                                             \/ Has(p, "account.delete", keys[k].account)'
    BY DEF Explained
  <2>1. CASE keys[k] # NoKey /\ ~keys[k].active
    <3>1. keys'[k].account = keys[k].account
      BY <2>1, <1>k DEF KeyKept
    <3> QED BY <2>1, <3>1, <1>a DEF AuditInv, Explained, Told, Has
  <2>2. CASE keys[k] = NoKey \/ keys[k].active
    BY <2>2 DEF Told, Has
  <2> QED BY <2>1, <2>2
<1> QED BY <1>1, <1>2, <1>3, <1>4 DEF AuditInv

-----------------------------------------------------------------------------
(* Every step is a step of SubscriberApi, or none. *)
LEMMA StepImplements ==
  ASSUME [AuditNext]_trailVars
  PROVE  [Next]_vars
<1>1. ASSUME NEW q \in Requests, AuditStep(q) PROVE [Next]_vars
  BY <1>1 DEF AuditStep, AuditCreateAccount, AuditPreflight, AuditPatch, AuditDelete,
     AuditIssue, AuditRevoke, AuditComponents, AuditOther, WriteFromRequest, Next,
     AccountStep, KeyStep
<1> QED BY <1>1 DEF AuditNext, trailVars, Next

LEMMA AuditTypes ==
  ASSUME AuditTypeOK, [AuditNext]_trailVars
  PROVE  AuditTypeOK'
<1>0. TypeOK /\ TypeOK'
  BY StepImplements, TypeStep DEF AuditTypeOK
<1>n. \A f, t : NameOf(f, t) \in Actions
  BY DEF NameOf, Actions
<1>w. ASSUME NEW q \in Requests, NEW act \in Actions, NEW t \in Accounts \cup Keys,
             NEW i \in {"none", "owed", "written", "lost"},
             audit' = [audit EXCEPT ![q] = [is |-> i, action |-> act, target |-> t]]
      PROVE  audit' \in [Requests -> AuditRow]
  BY <1>w DEF AuditTypeOK, AuditRow
<1>q. ASSUME NEW q \in Requests
      PROVE  /\ req[q].account \in Accounts
             /\ audit[q] \in AuditRow /\ audit[q].action \in Actions
  BY <1>0 DEF TypeOK, Request, AuditTypeOK, AuditRow
<1>1. ASSUME NEW q \in Requests, NEW a \in Accounts, AuditCreateAccount(q, a)
      PROVE  AuditTypeOK'
  BY <1>0, <1>w, <1>1 DEF AuditCreateAccount, Owes, Actions, AuditTypeOK
<1>2. ASSUME NEW q \in Requests, NEW a \in Accounts,
             NEW st \in Patch, AuditPreflight(q, a, st)
      PROVE  AuditTypeOK'
  BY <1>0, <1>w, <1>n, <1>2 DEF AuditPreflight, AuditTypeOK
<1>3. ASSUME NEW q \in Requests, AuditPatch(q) PROVE AuditTypeOK'
  <2>1. audit' \in [Requests -> AuditRow]
    BY <1>q, <1>w, <1>3 DEF AuditPatch, Owes, AuditTypeOK
  <2> QED BY <1>0, <1>3, <2>1 DEF AuditPatch, AuditTypeOK
<1>4. ASSUME NEW q \in Requests, AuditDelete(q) PROVE AuditTypeOK'
  BY <1>0, <1>q, <1>w, <1>4 DEF AuditDelete, Owes, Actions, AuditTypeOK
<1>5. ASSUME NEW q \in Requests, NEW k \in Keys, NEW e \in Expiries, AuditIssue(q, k, e)
      PROVE  AuditTypeOK'
  BY <1>0, <1>w, <1>5 DEF AuditIssue, Owes, Actions, AuditTypeOK
<1>6. ASSUME NEW q \in Requests, NEW k \in Keys, AuditRevoke(q, k) PROVE AuditTypeOK'
  BY <1>0, <1>w, <1>6 DEF AuditRevoke, Owes, Actions, AuditTypeOK
<1>7. ASSUME NEW q \in Requests, AuditComponents(q) PROVE AuditTypeOK'
  BY <1>0, <1>7 DEF AuditComponents, AuditTypeOK
<1>8. ASSUME NEW q \in Requests, WriteFromRequest(q) PROVE AuditTypeOK'
  <2>1. /\ [audit[q] EXCEPT !.is = "written"] \in AuditRow
        /\ [audit[q] EXCEPT !.is = "lost"] \in AuditRow
    BY <1>q DEF AuditRow
  <2> QED BY <1>0, <1>8, <2>1 DEF WriteFromRequest, Becomes, AuditTypeOK
<1>9. ASSUME UNCHANGED auditVars PROVE AuditTypeOK'
  BY <1>0, <1>9 DEF auditVars, AuditTypeOK
<1> QED BY <1>1, <1>2, <1>3, <1>4, <1>5, <1>6, <1>7, <1>8, <1>9
        DEF AuditNext, AuditStep, AuditOther, trailVars

-----------------------------------------------------------------------------
(* What each step is to the log. *)

\* A step of q that writes no row: q has none yet.
LEMMA QuietStep ==
  ASSUME AuditInv, TypeOK', NEW q \in Requests, req[q].at # "done", Statement,
         UNCHANGED <<audit, reopened, accounts>>,
         \A p \in Requests \ {q} : req'[p] = req[p],
         unrecorded \subseteq unrecorded',
         \A k \in Keys :
           keys'[k] # NoKey /\ ~keys'[k].active /\ (keys[k] = NoKey \/ keys[k].active) =>
             k \in unrecorded'
  PROVE  Told(q)
<1>1. audit'[q].is = "none"
  BY DEF AuditInv, Settled
<1>2. Settled(q)' /\ RowTrue(q)' /\ RowAlone(q)'
  BY <1>1 DEF AuditInv, Settled, RowTrue, RowAlone, Twice, Has
<1> QED BY <1>2 DEF Told

\* A step of q that leaves the tables alone revokes nothing.
LEMMA NothingRevoked ==
  ASSUME TablesTypeOK, UNCHANGED keys
  PROVE  \A k \in Keys :
           ~(keys'[k] # NoKey /\ ~keys'[k].active /\ (keys[k] = NoKey \/ keys[k].active))
OBVIOUS

LEMMA OtherTold ==
  ASSUME AuditInv, TypeOK', NEW q \in Requests, AuditOther(q)
  PROVE  Told(q)
<1>t. TablesTypeOK /\ req \in [Requests -> Request] /\ req[q] \in Request
  BY DEF AuditInv, AuditTypeOK, TypeOK
<1>1. UNCHANGED <<components, accounts, keys, audit, reopened, unrecorded>>
  BY DEF AuditOther, auditVars, PreflightDelete, IssueCheckAccount, IssueCheckComponent,
     Abort, tables
<1>2. req[q].at # "done" /\ \A p \in Requests \ {q} : req'[p] = req[p]
  BY <1>t DEF AuditOther, PreflightDelete, IssueCheckAccount, IssueCheckComponent, Abort,
     Arrive, Goto, Respond
<1> QED BY <1>t, <1>1, <1>2, NothingRevoked, QuietStep DEF Statement, tables

LEMMA ComponentsTold ==
  ASSUME AuditInv, TypeOK', NEW q \in Requests, AuditComponents(q)
  PROVE  Told(q)
<1>t. TypeOK /\ TablesTypeOK /\ req \in [Requests -> Request] /\ req[q] \in Request
  BY DEF AuditInv, AuditTypeOK, TypeOK
<1>0. ComponentStep(q) /\ UNCHANGED <<audit, reopened>>
  BY DEF AuditComponents
<1>s. Statement
  BY <1>0, <1>t, ComponentStepSound DEF Sound
<1>1. UNCHANGED accounts
  BY <1>0 DEF ComponentStep, CreateComponentRequest, CreateComponent, PreflightComponent,
     FinishCreate, DeleteComponent, PatchComponent, UpdateComponent,
     DeleteComponentRequest, DeleteComponentWithRevoke, Evict, tables
<1>2. \/ UNCHANGED keys
      \/ \E n \in Components : DeleteComponentWithRevoke(n)
  <2>1. req[q].component \in Components
    BY <1>t DEF Request
  <2> QED
    BY <1>0, <2>1 DEF ComponentStep, CreateComponentRequest, CreateComponent,
       PreflightComponent, FinishCreate, DeleteComponent, PatchComponent, UpdateComponent,
       DeleteComponentRequest, Evict, tables
<1>3. ASSUME NEW k \in Keys, keys'[k] # NoKey, ~keys'[k].active,
             keys[k] = NoKey \/ keys[k].active
      PROVE  k \in unrecorded'
  <2>1. keys[k] # NoKey
    BY <1>2, <1>3 DEF DeleteComponentWithRevoke, RevokeWhere, NoKey
  <2> QED BY <1>3, <2>1 DEF AuditComponents
<1>4. req[q].at # "done" /\ \A p \in Requests \ {q} : req'[p] = req[p]
  BY <1>0, <1>t DEF ComponentStep, CreateComponentRequest, PreflightComponent,
     FinishCreate, PatchComponent, DeleteComponentRequest, Evict, ToEvict, Arrive, Respond,
     Running
<1>6. unrecorded \subseteq unrecorded'
  BY DEF AuditComponents
<1> QED BY <1>0, <1>s, <1>1, <1>3, <1>4, <1>6, QuietStep

LEMMA WriteTold ==
  ASSUME AuditInv, NEW q \in Requests, WriteFromRequest(q)
  PROVE  Told(q)
<1>t. TablesTypeOK /\ audit \in [Requests -> AuditRow] /\ audit[q] \in AuditRow
  BY DEF AuditInv, AuditTypeOK, TypeOK
<1>1. /\ UNCHANGED <<components, accounts, keys, req, reopened, unrecorded>>
      /\ audit[q].is = "owed"
  BY DEF WriteFromRequest, vars
<1>2. \A p \in Requests \ {q} : audit'[p] = audit[p]
  BY <1>t DEF WriteFromRequest, Becomes
<1>3. /\ audit'[q].is # "none"
      /\ audit'[q].action = audit[q].action /\ audit'[q].target = audit[q].target
  BY <1>t DEF WriteFromRequest, Becomes, AuditRow
<1>4. req[q].at = "done"
  BY <1>1 DEF AuditInv, Settled
<1>5. Settled(q)'
  BY <1>1, <1>3, <1>4 DEF AuditInv, Settled
<1> QED BY <1>t, <1>1, <1>2, <1>3, <1>4, <1>5, NothingRevoked DEF Told, Statement, tables

\* The row q owes after its write, and only q.
LEMMA OwedRow ==
  ASSUME AuditTypeOK, NEW q \in Requests, NEW act, NEW t, Owes(q, act, t)
  PROVE  /\ audit'[q].is = "owed" /\ audit'[q].action = act /\ audit'[q].target = t
         /\ \A p \in Requests \ {q} : audit'[p] = audit[p]
BY DEF AuditTypeOK, Owes

LEMMA Arrival ==
  ASSUME TypeOK, NEW q \in Requests, NEW h, NEW a, NEW n, NEW st, NEW v, NEW point,
         Arrive(q, h, a, n, st, v, point)
  PROVE  /\ req[q].at = "new" /\ req'[q].at = point /\ req'[q].handler = h
         /\ req'[q].account = a /\ req'[q].status = st
         /\ \A p \in Requests \ {q} : req'[p] = req[p]
BY DEF TypeOK, Arrive

LEMMA Response ==
  ASSUME TypeOK, NEW q \in Requests, Respond(q)
  PROVE  /\ req'[q].at = "done"
         /\ \A p \in Requests \ {q} : req'[p] = req[p]
BY DEF TypeOK, Respond, Answered, NewRequest

LEMMA CreateTold ==
  ASSUME AuditInv, NEW q \in Requests, NEW a \in Accounts, AuditCreateAccount(q, a)
  PROVE  Told(q)
<1>t. TypeOK /\ TablesTypeOK /\ AuditTypeOK
  BY DEF AuditInv, AuditTypeOK, TypeOK
<1>1. CreateAccount(a) /\ UNCHANGED <<keys, reopened, unrecorded>>
  BY DEF AuditCreateAccount, CreateAccountRequest, CreateAccount
<1>2. /\ req[q].at = "new" /\ req'[q].at = "done"
      /\ \A p \in Requests \ {q} : req'[p] = req[p]
  BY <1>t, Response DEF AuditCreateAccount, CreateAccountRequest
<1>3. /\ audit'[q].is = "owed" /\ audit'[q].action = "account.create" /\ audit'[q].target = a
      /\ \A p \in Requests \ {q} : audit'[p] = audit[p]
  BY <1>t, OwedRow DEF AuditCreateAccount
<1>5. /\ accounts[a] = "absent" /\ accounts'[a] = "active"
      /\ \A b \in Accounts : b # a => accounts'[b] = accounts[b]
  BY <1>1, <1>t DEF CreateAccount, TablesTypeOK
<1>6. Settled(q)' /\ RowTrue(q)'
  BY <1>2, <1>3, <1>5 DEF Settled, RowTrue, Has
<1>7. RowAlone(q)'
  <2>1. ASSUME NEW p \in Requests \ {q} PROVE ~Has(p, "account.create", a)'
    <3>1. RowTrue(p) /\ (Has(p, "account.create", a)' => Has(p, "account.create", a))
      BY <1>3 DEF AuditInv, Has
    <3> QED BY <1>5, <3>1, SomeOfEach DEF RowTrue
  <2> QED BY <1>3, <2>1 DEF RowAlone, Twice, Has
<1>8. \A b \in Accounts : accounts[b] = "deleted" => accounts'[b] = "deleted"
  BY <1>5
<1> QED BY <1>t, <1>1, <1>2, <1>3, <1>6, <1>7, <1>8, NothingRevoked DEF Told, Statement

LEMMA PreflightTold ==
  ASSUME AuditInv, NEW q \in Requests, NEW a \in Accounts, NEW st \in Patch,
         AuditPreflight(q, a, st)
  PROVE  Told(q)
<1>t. TypeOK /\ TablesTypeOK /\ AuditTypeOK
  BY DEF AuditInv, AuditTypeOK, TypeOK
<1>1. UNCHANGED <<components, accounts, keys, reopened, unrecorded>>
  BY DEF AuditPreflight, PreflightUpdate, tables
<1>2. req[q].at = "new" /\ \A p \in Requests \ {q} : req'[p] = req[p]
  BY <1>t, Arrival DEF AuditPreflight, PreflightUpdate
<1>3. /\ audit'[q].is = "none" /\ audit'[q].action = NameOf(accounts[a], st)
      /\ \A p \in Requests \ {q} : audit'[p] = audit[p]
  BY <1>t DEF AuditPreflight, AuditTypeOK
<1>4. NameOf(accounts[a], st) \in {"account.update", "account.suspend", "account.reactivate"}
  BY DEF NameOf
<1>5. Settled(q)' /\ RowTrue(q)' /\ RowAlone(q)'
  BY <1>3, <1>4 DEF Settled, RowTrue, RowAlone, Twice, Has
<1> QED BY <1>t, <1>1, <1>2, <1>3, <1>5, NothingRevoked DEF Told, Statement, tables

LEMMA PatchTold ==
  ASSUME AuditInv, NEW q \in Requests, AuditPatch(q)
  PROVE  Told(q)
<1> DEFINE a == req[q].account
           st == req[q].status
<1>t. TypeOK /\ TablesTypeOK /\ AuditTypeOK
  BY DEF AuditInv, AuditTypeOK, TypeOK
<1>q. a \in Accounts /\ st \in Patch
  BY <1>t DEF TypeOK, Request
<1>0. req[q].at = "write"
  BY DEF AuditPatch, PatchAccount, Running
<1>1. UNCHANGED <<keys, unrecorded>>
  BY DEF AuditPatch, PatchAccount, UpdateAccount, tables
<1>s. Statement
  BY <1>q DEF AuditPatch, PatchAccount, Statement
<1>2. /\ req'[q].at = "done"
      /\ \A p \in Requests \ {q} : req'[p] = req[p]
  BY <1>t, Response DEF AuditPatch, PatchAccount
<1>4. /\ reopened \subseteq reopened'
      /\ \A b \in Accounts : accounts[b] = "deleted" =>
           accounts'[b] = "deleted" \/ b \in reopened'
  BY DEF AuditPatch
<1>n. /\ audit[q].is = "none"
      /\ audit[q].action \in {"account.update", "account.suspend", "account.reactivate"}
  BY <1>0 DEF AuditInv, Settled
<1>5. /\ audit'[q].action = audit[q].action
      /\ \A p \in Requests \ {q} : audit'[p] = audit[p]
  <2>1. CASE UpdateAccountAllowed(a, st)
    BY <1>t, <2>1, OwedRow DEF AuditPatch
  <2>2. CASE ~UpdateAccountAllowed(a, st)
    BY <2>2 DEF AuditPatch
  <2> QED BY <2>1, <2>2
<1>6. Settled(q)' /\ RowTrue(q)' /\ RowAlone(q)'
  BY <1>n, <1>2, <1>5 DEF Settled, RowTrue, RowAlone, Twice, Has
<1> QED BY <1>t, <1>0, <1>1, <1>s, <1>2, <1>4, <1>5, <1>6, NothingRevoked DEF Told

LEMMA DeleteTold ==
  ASSUME AuditInv, NEW q \in Requests, AuditDelete(q)
  PROVE  Told(q)
<1> DEFINE a == req[q].account
<1>t. TypeOK /\ TablesTypeOK /\ AuditTypeOK
  BY DEF AuditInv, AuditTypeOK, TypeOK
<1>q. a \in Accounts
  BY <1>t DEF TypeOK, Request
<1>0. req[q].at = "write" /\ UNCHANGED <<reopened, unrecorded>>
  BY DEF AuditDelete, DeleteAccount, Running
<1>s. Statement
  BY <1>q DEF AuditDelete, DeleteAccount, Statement
<1>2. /\ req'[q].at = "done"
      /\ \A p \in Requests \ {q} : req'[p] = req[p]
  BY <1>t, Response DEF AuditDelete, DeleteAccount
<1>n. /\ audit[q].is = "none"
      /\ audit[q].action \in {"account.update", "account.suspend", "account.reactivate"}
  BY <1>0 DEF AuditInv, Settled
<1>5. CASE DeleteAccountAllowed(a)
  <2>1. DeleteAccountWithCascade(a)
    BY <1>5 DEF AuditDelete, DeleteAccount
  <2>2. /\ accounts[a] # "deleted"
        /\ \A b \in Accounts : accounts'[b] = IF b = a THEN "deleted" ELSE accounts[b]
    BY <1>t, <1>q, <1>5, <2>1
       DEF DeleteAccountAllowed, GetAccount, DeleteAccountWithCascade, TablesTypeOK
  <2>3. /\ audit'[q].is = "owed" /\ audit'[q].action = "account.delete"
        /\ audit'[q].target = a
        /\ \A p \in Requests \ {q} : audit'[p] = audit[p]
    BY <1>t, <1>5, OwedRow DEF AuditDelete
  <2>4. ASSUME NEW k \in Keys, keys'[k] # NoKey, ~keys'[k].active,
               keys[k] = NoKey \/ keys[k].active
        PROVE  keys'[k].account = a
    <3>1. keys[k] # NoKey /\ keys[k].account = a
      BY <2>1, <2>4 DEF DeleteAccountWithCascade, RevokeWhere, NoKey
    <3>2. KeyKept(k)
      BY <1>t, <1>s, StatementKeeps
    <3> QED BY <3>1, <3>2 DEF KeyKept
  <2>5. Settled(q)' /\ RowTrue(q)'
    BY <1>2, <2>2, <2>3 DEF Settled, RowTrue, Has
  \* Another row of the same deletion is of a deletion that was undone.
  <2>6. RowAlone(q)'
    <3>1. ASSUME NEW p \in Requests \ {q}, NEW b \in Accounts, b = a,
                 Has(p, "account.delete", b)'
          PROVE  b \in reopened
      <4>1. RowTrue(p) /\ Has(p, "account.delete", b)
        BY <2>3, <3>1 DEF AuditInv, Has
      <4> QED BY <2>2, <3>1, <4>1, SomeOfEach DEF RowTrue
    <3> SUFFICES ASSUME NEW p \in Requests \ {q}, NEW k \in Keys, NEW b \in Accounts
                 PROVE  /\ ~Twice(q, p, "key.issue", k)'
                        /\ ~Twice(q, p, "account.create", b)'
                        /\ Twice(q, p, "account.delete", b)' => b \in reopened'
      BY DEF RowAlone
    <3> QED BY <1>0, <2>3, <3>1 DEF Twice, Has
  <2> QED BY <1>0, <1>s, <1>2, <2>2, <2>3, <2>4, <2>5, <2>6 DEF Told
<1>6. CASE ~DeleteAccountAllowed(a)
  <2>1. UNCHANGED <<components, accounts, keys, audit>>
    BY <1>6 DEF AuditDelete, DeleteAccount, DeleteAccountWithCascade, tables
  <2>2. Settled(q)' /\ RowTrue(q)' /\ RowAlone(q)'
    BY <1>n, <1>2, <2>1 DEF Settled, RowTrue, RowAlone, Twice, Has
  <2> QED BY <1>t, <1>0, <1>s, <1>2, <2>1, <2>2, NothingRevoked DEF Told
<1> QED BY <1>5, <1>6

LEMMA IssueTold ==
  ASSUME AuditInv, NEW q \in Requests, NEW k \in Keys, NEW e \in Expiries,
         AuditIssue(q, k, e)
  PROVE  Told(q)
<1> DEFINE a == req[q].account
           n == req[q].component
<1>t. TypeOK /\ TablesTypeOK /\ AuditTypeOK
  BY DEF AuditInv, AuditTypeOK, TypeOK
<1>q. a \in Accounts /\ n \in Components
  BY <1>t DEF TypeOK, Request
<1>0. /\ req[q].at = "write" /\ CreateKeyForAccount(k, a, n, e)
      /\ UNCHANGED <<accounts, reopened, unrecorded>>
  BY DEF AuditIssue, IssueInsert, CreateKeyForAccount
<1>s. Statement
  <2>1. IssueInsert(q, k, e)
    BY DEF AuditIssue
  <2>2. KeyStep(q)
    BY <2>1 DEF KeyStep
  <2> QED BY <1>t, <2>2, KeyStepSound DEF Sound
<1>2. /\ req'[q].at = "done"
      /\ \A p \in Requests \ {q} : req'[p] = req[p]
  BY <1>t, Response DEF AuditIssue, IssueInsert
<1>3. /\ audit'[q].is = "owed" /\ audit'[q].action = "key.issue" /\ audit'[q].target = k
      /\ \A p \in Requests \ {q} : audit'[p] = audit[p]
  BY <1>t, OwedRow DEF AuditIssue
<1>4. /\ keys[k] = NoKey /\ keys'[k] # NoKey /\ keys'[k].active
      /\ \A m \in Keys : m # k => keys'[m] = keys[m]
  <2>1. keys'[k] = [component |-> n, account |-> a, active |-> TRUE, expires_at |-> e,
                    usage_count |-> 0]
    BY <1>t, <1>0 DEF CreateKeyForAccount, TablesTypeOK
  <2> QED BY <1>t, <1>0, <2>1 DEF CreateKeyForAccount, TablesTypeOK, NoKey
<1>5. Settled(q)' /\ RowTrue(q)'
  BY <1>2, <1>3, <1>4 DEF Settled, RowTrue, Has
<1>6. RowAlone(q)'
  <2>1. ASSUME NEW p \in Requests \ {q} PROVE ~Has(p, "key.issue", k)'
    <3>1. RowTrue(p) /\ (Has(p, "key.issue", k)' => Has(p, "key.issue", k))
      BY <1>3 DEF AuditInv, Has
    <3> QED BY <1>4, <3>1, KeyStoreConstants DEF RowTrue
  <2> QED BY <1>3, <2>1 DEF RowAlone, Twice, Has
<1> QED BY <1>0, <1>s, <1>2, <1>3, <1>4, <1>5, <1>6 DEF Told

LEMMA RevokeTold ==
  ASSUME AuditInv, NEW q \in Requests, NEW k \in Keys, AuditRevoke(q, k)
  PROVE  Told(q)
<1>t. TypeOK /\ TablesTypeOK /\ AuditTypeOK
  BY DEF AuditInv, AuditTypeOK, TypeOK
<1>0. RevokeKey(k) /\ UNCHANGED <<accounts, reopened, unrecorded>>
  BY DEF AuditRevoke, RevokeKeyRequest, RevokeKey
<1>s. Statement
  BY <1>0 DEF Statement
<1>2. /\ req[q].at = "new" /\ req'[q].at = "done"
      /\ \A p \in Requests \ {q} : req'[p] = req[p]
  BY <1>t, Response DEF AuditRevoke, RevokeKeyRequest
<1>3. /\ audit'[q].is = "owed" /\ audit'[q].action = "key.revoke" /\ audit'[q].target = k
      /\ \A p \in Requests \ {q} : audit'[p] = audit[p]
  BY <1>t, OwedRow DEF AuditRevoke
<1>4. /\ keys'[k] # NoKey /\ ~keys'[k].active
      /\ \A m \in Keys : m # k => keys'[m] = keys[m]
  <2>1. keys[k] \in Key /\ keys'[k] = [keys[k] EXCEPT !.active = FALSE]
    BY <1>t, <1>0 DEF RevokeKey, TablesTypeOK
  <2>2. keys'[k] \in Key /\ ~keys'[k].active
    BY <2>1 DEF Key
  <2> QED BY <1>t, <1>0, <2>2, NoKeyIsNoRow DEF RevokeKey, TablesTypeOK
<1>5. Settled(q)' /\ RowTrue(q)' /\ RowAlone(q)'
  BY <1>2, <1>3, <1>4 DEF Settled, RowTrue, RowAlone, Twice, Has
<1> QED BY <1>0, <1>s, <1>2, <1>3, <1>4, <1>5 DEF Told, Has

-----------------------------------------------------------------------------
(* The inductive step. *)

\* Pulls, the cache and the clock: no account, no request and no row moves, and no key is
\* revoked.
LEMMA AroundKeeps ==
  ASSUME AuditInv, AuditTypeOK', UNCHANGED auditVars,
         (\E p \in Pulls : PullStep(p)) \/ (\E n \in Components : CacheStep(n)) \/ Clock
  PROVE  AuditInv'
<1>t. TypeOK /\ TablesTypeOK
  BY DEF AuditInv, AuditTypeOK, TypeOK
<1>1. UNCHANGED <<accounts, req, audit, reopened, unrecorded>>
  BY DEF auditVars, PullStep, ResolveHit, ResolveMiss, CheckKey, CheckAccount, CountUse,
     PullFails, CacheStep, Insert, Land, Expire, Clock, Lapse, IncrementUsage, tables
<1>2. \/ UNCHANGED keys
      \/ \E k \in Keys : IncrementUsage(k) \/ Lapse(k)
  <2>1. \A p \in Pulls : pull[p].key \in Keys
    BY <1>t DEF TypeOK, Pull
  <2> QED BY <2>1 DEF PullStep, ResolveHit, ResolveMiss, CheckKey, CheckAccount, CountUse,
             PullFails, CacheStep, Insert, Land, Expire, Clock, tables
<1>3. ASSUME NEW k \in Keys
      PROVE  /\ (keys'[k] # NoKey) <=> (keys[k] # NoKey)
             /\ keys[k] # NoKey => /\ keys'[k].active = keys[k].active
                                   /\ keys'[k].account = keys[k].account
  <2>1. CASE keys'[k] = keys[k]
    BY <2>1
  <2>2. ASSUME keys[k] # NoKey,
               \/ keys'[k] = [keys[k] EXCEPT !.usage_count = keys[k].usage_count + 1]
               \/ keys'[k] = [keys[k] EXCEPT !.expires_at = "past"]
        PROVE  /\ keys'[k] # NoKey /\ keys'[k].active = keys[k].active
               /\ keys'[k].account = keys[k].account
    <3>1. keys[k] \in Key
      BY <1>t, <2>2 DEF TablesTypeOK
    <3>2. keys'[k] \in Key
      BY <2>2, <3>1, RowUpdates
    <3> QED BY <2>2, <3>1, <3>2, NoKeyIsNoRow DEF Key
  <2>3. \/ keys'[k] = keys[k]
        \/ keys[k] # NoKey /\ keys'[k] = [keys[k] EXCEPT !.usage_count = keys[k].usage_count + 1]
        \/ keys[k] # NoKey /\ keys'[k] = [keys[k] EXCEPT !.expires_at = "past"]
    BY <1>2, <1>t DEF IncrementUsage, Lapse, TablesTypeOK
  <2> QED BY <2>1, <2>2, <2>3
<1>4. ASSUME NEW q \in Requests PROVE Settled(q)' /\ RowAlone(q)'
  BY <1>1 DEF AuditInv, Settled, RowAlone, Twice, Has
<1>5. ASSUME NEW q \in Requests PROVE RowTrue(q)'
  BY <1>1, <1>3 DEF AuditInv, RowTrue, Has
<1>6. ASSUME NEW k \in Keys PROVE Explained(k)'
  BY <1>1, <1>3 DEF AuditInv, Explained, Has
<1> QED BY <1>4, <1>5, <1>6 DEF AuditInv

LEMMA AuditInvStep == AuditInv /\ [AuditNext]_trailVars => AuditInv'
<1> SUFFICES ASSUME AuditInv, [AuditNext]_trailVars PROVE AuditInv'
  OBVIOUS
<1>0. AuditTypeOK' /\ TypeOK'
  BY AuditTypes DEF AuditInv, AuditTypeOK
<1>1. ASSUME NEW q \in Requests, AuditStep(q) PROVE AuditInv'
  <2>1. Told(q)
    BY <1>0, <1>1, CreateTold, PreflightTold, PatchTold, DeleteTold, IssueTold, RevokeTold,
       ComponentsTold, OtherTold, WriteTold DEF AuditStep
  <2> QED BY <1>0, <2>1, ToldKeeps
<1>2. CASE UNCHANGED trailVars
  BY <1>0, <1>2 DEF trailVars, vars, auditVars, AuditInv, Settled, RowTrue, RowAlone, Twice,
     Explained, Has
<1> QED BY <1>0, <1>1, <1>2, AroundKeeps DEF AuditNext

LEMMA AuditInvariant == AuditSpec => []AuditInv
BY AuditInitSound, AuditInvStep, PTL DEF AuditSpec

-----------------------------------------------------------------------------
(***************************************************************************)
(* The theorems                                                            *)
(***************************************************************************)

\* The rows of the audit log, the tables and the requests keep their types.
THEOREM AuditTypeCorrect == AuditSpec => []AuditTypeOK
BY AuditInvariant, PTL DEF AuditInv

\* A written row tells of an issue, a creation or a deletion that the request it
\* belongs to made, and no second request has the same row; a key.revoke row
\* tells of a key that is revoked, if not by that request.  This holds whatever
\* requests fall between the checks of a handler and its write.
THEOREM TrailTrue == AuditSpec => []TrailIsTrue
<1>1. AuditInv => TrailIsTrue
  BY DEF AuditInv, RowTrue, RowAlone, Twice, TrailIsTrue
<1> QED BY <1>1, AuditInvariant, PTL

\* Every revoked key has a row that accounts for it, written, owed or lost, but
\* for those components.Delete revokes and those the service found revoked.
THEOREM RevocationsTold == AuditSpec => []RevocationsExplained
<1>1. AuditInv => RevocationsExplained
  BY DEF AuditInv, Explained, RevocationsExplained
<1> QED BY <1>1, AuditInvariant, PTL

\* The handlers with their rows implement SubscriberApi, so what is proved of
\* that specification holds with the audit log too.
THEOREM AuditRefinement == AuditSpec => Spec
<1>1. AuditInit => Init
  BY DEF AuditInit
<1>2. [AuditNext]_trailVars => [Next]_vars
  BY StepImplements
<1> QED BY <1>1, <1>2, PTL DEF AuditSpec, Spec

\* With the audit log, the legacy account stays active, only raced keys outlive
\* a cascade, revocation is final, pulls are allowed for cause and a key counts
\* no more uses than pulls were allowed with it.
THEOREM AuditedTablesSafe ==
  AuditSpec => /\ []LegacyStaysActive
               /\ []OnlyRacedKeysOutlive
               /\ RevokedForGood
               /\ []AllowedForCause
               /\ []UsageWithinPulls
BY AuditRefinement, LegacySafe, CascadesComplete, RevocationFinal,
   ForwardAuthSound, UsageSound, PTL
=============================================================================
