--------------------------- MODULE OperatorAccess ---------------------------
(***************************************************************************)
(* Who may use the admin API: the operators and sessions tables            *)
(* (auth/internal/store), the OAuth callback that opens a session, the     *)
(* session and role middleware every admin request passes, and the         *)
(* handlers that change operators (auth/internal/handler, /middleware).    *)
(*                                                                         *)
(* Requests and callbacks run concurrently; every action is one store call *)
(* with the code up to the next one.  The handlers of the subscriber       *)
(* tables are in SubscriberApi: here they are requests that read or write. *)
(***************************************************************************)
EXTENDS Integers, FiniteSets

CONSTANTS
  Operators,         \* operator ids, one for each email
  Sessions,          \* session ids, generated at random and so never reused
  Providers,         \* OAuth providers
  Requests,          \* requests to the admin API
  Logins,            \* OAuth callbacks whose provider exchange succeeded
  AbsoluteLifetime, IdleLifetime,
  MaxTime            \* bound on the clock

ASSUME AccessConstants ==
  /\ IsFiniteSet(Operators)
  /\ Operators # {} /\ Sessions # {} /\ Providers # {}
  /\ AbsoluteLifetime \in Nat /\ IdleLifetime \in Nat
  /\ MaxTime \in Nat \ {0}

VARIABLES
  operators,         \* the row of every operator, of status "absent" without
  sessions,          \* the row of every session, NoSession without one
  req,               \* the state of every request
  login,             \* the state of every callback
  now,               \* the wall clock
  issued,            \* session ids that have been given out
  activity,          \* history: when a session was opened, and when the
                     \* requests that were accepted on it had arrived
  late,              \* history: sessions opened for a disabled operator
  spared,            \* history: sessions a failed force-logout left alone
  witnessed          \* history: what held at some moment of each request

tables == <<operators, sessions>>
vars == <<operators, sessions, req, login, now, issued, activity, late, spared,
          witnessed>>

Times == 1 .. MaxTime

Roles == {"admin", "readonly"}

\* last_login is 0 and first_seen "none" while the column is NULL; `known`
\* are the providers whose identity column is set.
Operator == [role : Roles, status : {"absent", "active", "disabled"},
             last_login : Nat, first_seen : Providers \cup {"none"},
             known : SUBSET Providers]

NoSession == [operator |-> "none"]
Session   == [operator : Operators, last_seen : Nat, expires_at : Nat]

\* What a request is for: a GET that readonly operators may use ("read"), any
\* other route that is for admins alone ("write", the GETs of the operators
\* among them), the two routes that change operators, and logout.
Kinds == {"read", "write", "create", "update", "logout"}

Request == [at : {"new", "lifetime", "operator", "handler", "forcelogout",
                  "touch", "done"},
            kind : Kinds, session : Sessions, row : Session \cup {NoSession},
            seen : Nat, target : Operators]

Login == [at : {"new", "create", "lastlogin", "provider", "done"},
          operator : Operators, provider : Providers, created : Nat]

Facts == {"session", "active", "admin"}

AnyOperator == CHOOSE o \in Operators : TRUE
AnySession  == CHOOSE s \in Sessions : TRUE
AnyProvider == CHOOSE p \in Providers : TRUE

NewRequest == [at |-> "new", kind |-> "read", session |-> AnySession,
               row |-> NoSession, seen |-> 0, target |-> AnyOperator]
NewLogin == [at |-> "new", operator |-> AnyOperator, provider |-> AnyProvider,
             created |-> 0]

ActiveAdmins ==
  {o \in Operators : operators[o].role = "admin" /\ operators[o].status = "active"}

SessionsOf(o) == {s \in Sessions : sessions[s] # NoSession /\ sessions[s].operator = o}

TypeOK ==
  /\ operators \in [Operators -> Operator]
  /\ sessions \in [Sessions -> Session \cup {NoSession}]
  /\ req \in [Requests -> Request]
  /\ login \in [Logins -> Login]
  /\ now \in Nat
  /\ issued \in SUBSET Sessions
  /\ activity \in [Sessions -> SUBSET Nat]
  /\ late \in SUBSET Sessions
  /\ spared \in SUBSET Sessions
  /\ witnessed \in [Requests -> SUBSET Facts]

\* The service opens a database without operators, or one an earlier process
\* left behind; its sessions may be about to expire.
Init ==
  /\ now \in Times
  /\ operators \in [Operators -> [role : Roles,
                                  status : {"absent", "active", "disabled"},
                                  last_login : {0}, first_seen : {"none"},
                                  known : {{}}]]
  /\ \/ \A o \in Operators : operators[o].status = "absent"
     \/ ActiveAdmins # {}
  /\ sessions \in
       [Sessions -> [operator : {o \in Operators : operators[o].status # "absent"},
                     last_seen : {now}, expires_at : now .. now + AbsoluteLifetime]
                    \cup {NoSession}]
  /\ req = [r \in Requests |-> NewRequest]
  /\ login = [l \in Logins |-> NewLogin]
  /\ issued = {s \in Sessions : sessions[s] # NoSession}
  /\ activity = [s \in Sessions |-> IF sessions[s] = NoSession THEN {} ELSE {now}]
  /\ late = {}
  /\ spared = {s \in Sessions : /\ sessions[s] # NoSession
                                /\ operators[sessions[s].operator].status = "disabled"}
  /\ witnessed = [r \in Requests |-> {}]

\* History: the facts that hold for a request's session and its operator.
FactsOf(r) ==
  LET row == req[r].row IN
  IF row = NoSession THEN {} ELSE
  {f \in Facts :
     \/ f = "session" /\ sessions[req[r].session] # NoSession
     \/ f = "active" /\ operators[row.operator].status = "active"
     \/ f = "admin" /\ row.operator \in ActiveAdmins}

Witness ==
  witnessed' = [r \in Requests |->
    IF req'[r].at = "done" THEN {} ELSE witnessed[r] \cup FactsOf(r)']

-----------------------------------------------------------------------------
(***************************************************************************)
(* store/sessions.go and store/operators.go                                *)
(***************************************************************************)
DeleteSession(s) == sessions' = [sessions EXCEPT ![s] = NoSession]

DeleteOperatorSessions(o) ==
  sessions' = [s \in Sessions |-> IF s \in SessionsOf(o) THEN NoSession ELSE sessions[s]]

\* Wrong variant: the touch renews the absolute expiry as well.
TouchRenews(s, t) ==
  sessions' = IF sessions[s] # NoSession /\ sessions[s].last_seen < t
              THEN [sessions EXCEPT ![s] = [@ EXCEPT !.last_seen = t,
                                                     !.expires_at = t + AbsoluteLifetime]]
              ELSE sessions

\* TouchSession moves last_seen_at forward only, and never brings a deleted
\* session back.
TouchSession(s, t) ==
  sessions' = IF sessions[s] # NoSession /\ sessions[s].last_seen < t
              THEN [sessions EXCEPT ![s] = [@ EXCEPT !.last_seen = t]]
              ELSE sessions

\* Wrong variant: a field that is not in the patch is written as it comes.
AfterLiteral(old, new) == new

After(old, new) == IF new = "keep" THEN old ELSE new

\* The row of the operator once a PATCH is applied.
Patched(o, newRole, newStatus) ==
  [operators[o] EXCEPT !.role = After(operators[o].role, newRole),
                       !.status = After(operators[o].status, newStatus)]

IsActiveAdmin(row) == row.role = "admin" /\ row.status = "active"

\* Wrong variant: the count includes the admin who is about to go.
UpdateAllowedOffByOne(o, newRole, newStatus) ==
  /\ operators[o].status # "absent"
  /\ IsActiveAdmin(operators[o]) /\ ~IsActiveAdmin(Patched(o, newRole, newStatus))
       => Cardinality(ActiveAdmins) >= 1

\* The guard against self-lockout counts inside the transaction.
UpdateAllowed(o, newRole, newStatus) ==
  /\ operators[o].status # "absent"
  /\ IsActiveAdmin(operators[o]) /\ ~IsActiveAdmin(Patched(o, newRole, newStatus))
       => Cardinality(ActiveAdmins) > 1

UpdateOperatorAtomically(o, newRole, newStatus) ==
  /\ UpdateAllowed(o, newRole, newStatus)
  /\ operators' = [operators EXCEPT ![o] = Patched(o, newRole, newStatus)]

\* BootstrapOperatorFromEnv, when the service starts: inert once any operator
\* exists.
BootstrapOperatorFromEnv(o) ==
  /\ \A x \in Operators : operators[x].status = "absent"
  /\ operators' = [operators EXCEPT ![o] = [@ EXCEPT !.role = "admin",
                                                     !.status = "active"]]
  /\ UNCHANGED <<sessions, req, login, now, issued, activity, late, spared>>
  /\ Witness

-----------------------------------------------------------------------------
(***************************************************************************)
(* handler/auth.go Callback, from the operator lookup on                   *)
(***************************************************************************)
LoginAt(l, point) == login' = [login EXCEPT ![l] = [@ EXCEPT !.at = point]]

\* The callback is over, and what it was about is forgotten.
LoginEnds(l) == login' = [login EXCEPT ![l] = [NewLogin EXCEPT !.at = "done"]]

LookupOperator(l, o, p) ==
  /\ login[l].at = "new"
  /\ operators[o].status = "active"
  /\ login' = [login EXCEPT ![l] = [@ EXCEPT !.at = "create", !.operator = o,
                                             !.provider = p]]
  /\ UNCHANGED <<tables, req, now, issued, activity, late, spared>>
  /\ Witness

\* CreateSession does not look at the operator again.
CreateSession(l, s) ==
  LET o == login[l].operator IN
  /\ login[l].at = "create"
  /\ s \notin issued
  /\ sessions' = [sessions EXCEPT ![s] =
       [operator |-> o, last_seen |-> now, expires_at |-> now + AbsoluteLifetime]]
  /\ issued' = issued \cup {s}
  /\ activity' = [activity EXCEPT ![s] = {now}]
  /\ late' = IF operators[o].status = "disabled" THEN late \cup {s} ELSE late
  /\ login' = [login EXCEPT ![l] = [@ EXCEPT !.at = "lastlogin", !.created = now]]
  /\ UNCHANGED <<operators, req, now, spared>>
  /\ Witness

\* Wrong variant: the last login is whichever is recorded last.
RecordAnyLogin(l) ==
  LET o == login[l].operator  t == login[l].created IN
  /\ login[l].at = "lastlogin"
  /\ \/ operators' = [operators EXCEPT ![o] = [@ EXCEPT !.last_login = t]]
     \/ UNCHANGED operators
  /\ LoginAt(l, "provider")
  /\ UNCHANGED <<sessions, req, now, issued, activity, late, spared>>
  /\ Witness

\* The two records of the login are best effort: a failure is logged.
UpdateLastLogin(l) ==
  LET o == login[l].operator  t == login[l].created IN
  /\ login[l].at = "lastlogin"
  /\ \/ /\ operators[o].last_login < t
        /\ operators' = [operators EXCEPT ![o] = [@ EXCEPT !.last_login = t]]
     \/ UNCHANGED operators
  /\ LoginAt(l, "provider")
  /\ UNCHANGED <<sessions, req, now, issued, activity, late, spared>>
  /\ Witness

UpdateLoginProvider(l) ==
  LET o == login[l].operator  p == login[l].provider IN
  /\ login[l].at = "provider"
  /\ \/ operators' = [operators EXCEPT ![o] =
          [@ EXCEPT !.known = operators[o].known \cup {p},
                    !.first_seen = IF operators[o].first_seen = "none" THEN p
                                   ELSE operators[o].first_seen]]
     \/ UNCHANGED operators
  /\ LoginEnds(l)
  /\ UNCHANGED <<sessions, req, now, issued, activity, late, spared>>
  /\ Witness

\* The callback is refused, a store call of it fails, or the process stops.
LoginFails(l) ==
  /\ login[l].at # "done"
  /\ LoginEnds(l)
  /\ UNCHANGED <<tables, req, now, issued, activity, late, spared>>
  /\ Witness

-----------------------------------------------------------------------------
(***************************************************************************)
(* middleware/session.go and middleware/role.go                            *)
(***************************************************************************)
RequestAt(r, point) == req' = [req EXCEPT ![r] = [@ EXCEPT !.at = point]]

\* The response: the request is over, and what it was about is forgotten.
Answered == [NewRequest EXCEPT !.at = "done"]

Answer(r) == req' = [req EXCEPT ![r] = Answered]

\* A request arrives with a session cookie.  No row for it: 401.
GetSession(r, s, kind) ==
  /\ req[r].at = "new"
  /\ IF sessions[s] = NoSession THEN Answer(r)
     ELSE req' = [req EXCEPT ![r] = [@ EXCEPT !.at = "lifetime", !.kind = kind,
                                             !.session = s, !.row = sessions[s]]]
  /\ UNCHANGED <<tables, login, now, issued, activity, late, spared>>
  /\ Witness

Expired(row, t) == t > row.expires_at \/ t - row.last_seen > IdleLifetime

\* The clock is read once, here: the touch at the end uses this time.  An
\* expired session is deleted; that the delete fails does not matter.
CheckLifetime(r) ==
  /\ req[r].at = "lifetime"
  /\ \/ /\ Expired(req[r].row, now)
        /\ DeleteSession(req[r].session) \/ UNCHANGED sessions
        /\ Answer(r)
     \/ /\ ~Expired(req[r].row, now)
        /\ req' = [req EXCEPT ![r] = [@ EXCEPT !.at = "operator", !.seen = now]]
        /\ UNCHANGED sessions
  /\ UNCHANGED <<operators, login, now, issued, activity, late, spared>>
  /\ Witness

\* RequireRole lets readonly operators through to the GETs and to logout;
\* requireAdmin in the operators handler keeps its GETs from them as well, and
\* those are requests of kind "write".
RoleDenied(row, kind) == row.role = "readonly" /\ kind \notin {"read", "logout"}

\* Wrong variant: the status of the operator is not looked at.
GetOperatorAnyStatus(r) ==
  LET row == operators[req[r].row.operator]
      denied == RoleDenied(row, req[r].kind) IN
  /\ req[r].at = "operator"
  /\ IF denied THEN Answer(r) ELSE RequestAt(r, "handler")
  /\ UNCHANGED <<tables, login, now, issued, activity, late, spared>>
  /\ Witness

\* Wrong variant: a request the role gate denied touches its session.
GetOperatorTouchDenied(r) ==
  LET row == operators[req[r].row.operator]
      denied == RoleDenied(row, req[r].kind) IN
  /\ req[r].at = "operator"
  /\ \/ /\ row.status # "active"
        /\ DeleteSession(req[r].session) \/ UNCHANGED sessions
        /\ Answer(r)
     \/ /\ row.status = "active"
        /\ RequestAt(r, IF denied THEN "touch" ELSE "handler")
        /\ UNCHANGED sessions
  /\ UNCHANGED <<operators, login, now, issued, activity, late, spared>>
  /\ Witness

\* The operator must be active, and an admin unless the request reads or logs
\* out.
GetOperator(r) ==
  LET row == operators[req[r].row.operator]
      denied == RoleDenied(row, req[r].kind) IN
  /\ req[r].at = "operator"
  /\ \/ /\ row.status # "active"
        /\ DeleteSession(req[r].session) \/ UNCHANGED sessions
        /\ Answer(r)
     \/ /\ row.status = "active"
        /\ IF denied THEN Answer(r) ELSE RequestAt(r, "handler")
        /\ UNCHANGED sessions
  /\ UNCHANGED <<operators, login, now, issued, activity, late, spared>>
  /\ Witness

\* Once the handler has answered with success the session is touched.
Touch(r) ==
  /\ req[r].at = "touch"
  /\ TouchSession(req[r].session, req[r].seen) \/ UNCHANGED sessions
  /\ Answer(r)
  /\ UNCHANGED <<operators, login, now, issued, activity, late, spared>>
  /\ Witness

\* History: the request has been answered with success.
Accepted(r) ==
  activity' = [activity EXCEPT ![req[r].session] = @ \cup {req[r].seen}]

-----------------------------------------------------------------------------
(***************************************************************************)
(* handler/operators.go, handler/auth.go                                   *)
(***************************************************************************)
Handling(r, kind) == req[r].at = "handler" /\ req[r].kind = kind

\* Whoami, the routes of the subscriber tables and the GETs of the operators.
Serve(r) ==
  /\ req[r].at = "handler"
  /\ req[r].kind \in {"read", "write"}
  /\ RequestAt(r, "touch")
  /\ Accepted(r)
  /\ UNCHANGED <<tables, login, now, issued, late, spared>>
  /\ Witness

\* Create: AllowlistOperator inserts an active row for a new email.
CreateOperator(r, o, role) ==
  /\ Handling(r, "create")
  /\ operators[o].status = "absent"
  /\ operators' = [operators EXCEPT ![o] = [@ EXCEPT !.role = role,
                                                     !.status = "active"]]
  /\ RequestAt(r, "touch")
  /\ Accepted(r)
  /\ UNCHANGED <<sessions, login, now, issued, late, spared>>
  /\ Witness

\* Wrong variant: only a demotion logs the operator out.
UpdateOperatorDemotionOnly(r, o, newRole, newStatus) ==
  LET before == operators[o]
      after == Patched(o, newRole, newStatus)
      demoted == before.role = "admin" /\ after.role = "readonly" IN
  /\ Handling(r, "update")
  /\ newRole # "keep" \/ newStatus # "keep"
  /\ UpdateOperatorAtomically(o, newRole, newStatus)
  /\ req' = [req EXCEPT ![r] =
       [@ EXCEPT !.at = IF demoted THEN "forcelogout" ELSE "touch",
                 !.target = o]]
  /\ Accepted(r)
  /\ UNCHANGED <<sessions, login, now, issued, late, spared>>
  /\ Witness

\* Update: a demotion or a disabling goes on to delete the sessions of the
\* operator.
UpdateOperator(r, o, newRole, newStatus) ==
  LET before == operators[o]
      after == Patched(o, newRole, newStatus)
      demoted == before.role = "admin" /\ after.role = "readonly"
      disabled == before.status = "active" /\ after.status = "disabled" IN
  /\ Handling(r, "update")
  /\ newRole # "keep" \/ newStatus # "keep"
  /\ UpdateOperatorAtomically(o, newRole, newStatus)
  /\ req' = [req EXCEPT ![r] =
       [@ EXCEPT !.at = IF demoted \/ disabled THEN "forcelogout" ELSE "touch",
                 !.target = o]]
  /\ Accepted(r)
  /\ UNCHANGED <<sessions, login, now, issued, late, spared>>
  /\ Witness

\* That the force-logout fails is logged, and the answer is 200 all the same.
ForceLogout(r) ==
  LET o == req[r].target IN
  /\ req[r].at = "forcelogout"
  /\ \/ /\ DeleteOperatorSessions(o)
        /\ UNCHANGED spared
     \/ /\ UNCHANGED sessions
        /\ spared' = spared \cup SessionsOf(o)
  /\ RequestAt(r, "touch")
  /\ UNCHANGED <<operators, login, now, issued, activity, late>>
  /\ Witness

\* Logout answers 204 even when the delete fails.
Logout(r) ==
  /\ Handling(r, "logout")
  /\ DeleteSession(req[r].session) \/ UNCHANGED sessions
  /\ RequestAt(r, "touch")
  /\ Accepted(r)
  /\ UNCHANGED <<operators, login, now, issued, late, spared>>
  /\ Witness

\* A handler answers with an error, a store call fails, or the process stops.
Abort(r) ==
  /\ req[r].at # "done"
  /\ Answer(r)
  /\ spared' = IF req[r].at = "forcelogout" THEN spared \cup SessionsOf(req[r].target)
               ELSE spared
  /\ UNCHANGED <<tables, login, now, issued, activity, late>>
  /\ Witness

-----------------------------------------------------------------------------
\* Time goes on, or the clock is set, back as well as forward.
ClockMoves ==
  /\ now' \in Times \ {now}
  /\ UNCHANGED <<tables, req, login, issued, activity, late, spared>>
  /\ Witness

LoginStep(l) ==
  \/ \E o \in Operators, p \in Providers : LookupOperator(l, o, p)
  \/ \E s \in Sessions : CreateSession(l, s)
  \/ UpdateLastLogin(l)
  \/ UpdateLoginProvider(l)
  \/ LoginFails(l)

RequestStep(r) ==
  \/ \E s \in Sessions, kind \in Kinds : GetSession(r, s, kind)
  \/ CheckLifetime(r)
  \/ GetOperator(r)
  \/ Touch(r)
  \/ Serve(r)
  \/ \E o \in Operators, role \in Roles : CreateOperator(r, o, role)
  \/ \E o \in Operators, newRole \in Roles \cup {"keep"},
         newStatus \in {"active", "disabled", "keep"} :
        UpdateOperator(r, o, newRole, newStatus)
  \/ ForceLogout(r)
  \/ Logout(r)
  \/ Abort(r)

Next ==
  \/ \E o \in Operators : BootstrapOperatorFromEnv(o)
  \/ \E l \in Logins : LoginStep(l)
  \/ \E r \in Requests : RequestStep(r)
  \/ ClockMoves

Spec == Init /\ [][Next]_vars

-----------------------------------------------------------------------------
(***************************************************************************)
(* Properties                                                              *)
(***************************************************************************)

\* The invariant the guard in UpdateOperatorAtomically protects: once there
\* are operators at all, an active admin is among them, whichever PATCHes
\* race and however stale the session checks behind them are.
AtLeastOneAdmin ==
  (\E o \in Operators : operators[o].status # "absent") => ActiveAdmins # {}

Admitted(r) == req[r].at \in {"handler", "forcelogout", "touch"}

\* A request is let through to its handler only if, at some moment since it
\* arrived, its session existed, its operator was active, and, for a request
\* that changes anything or asks for the operators, an active admin.  So no
\* request that arrives after a disabling or a demotion acts on what held
\* before, though one under way may.
AdmittedForCause ==
  \A r \in Requests : Admitted(r) =>
    /\ {"session", "active"} \subseteq witnessed[r]
    /\ req[r].kind \notin {"read", "logout"} => "admin" \in witnessed[r]

\* The idle window slides only with accepted requests: at the time a request
\* was checked, its session had been opened, or a request accepted on it had
\* arrived, no longer than IdleLifetime ago.
IdleWindow ==
  \A r \in Requests : Admitted(r) =>
    \E t \in activity[req[r].session] : req[r].seen - t <= IdleLifetime

\* A session that has ended (logout, force-logout, expiry) does not come back,
\* whatever requests were under way on it, and nothing moves its absolute
\* expiry or its owner.
SessionsEndForGood ==
  [][\A s \in issued :
       /\ sessions[s] = NoSession => sessions'[s] = NoSession
       /\ sessions[s] # NoSession /\ sessions'[s] # NoSession =>
            /\ sessions'[s].expires_at = sessions[s].expires_at
            /\ sessions'[s].operator = sessions[s].operator]_vars

\* Concurrent logins of one operator, and a clock that is set back, never move
\* last_login_at back or rewrite which provider was seen first; the provider
\* seen first has its identity recorded.
LoginRecordsKeep ==
  [][\A o \in Operators :
       /\ operators'[o].last_login >= operators[o].last_login
       /\ operators[o].first_seen # "none" =>
            operators'[o].first_seen = operators[o].first_seen
       /\ operators'[o].first_seen # "none" =>
            operators'[o].first_seen \in operators'[o].known]_vars

\* A disabled operator has no session left, but for one a login under way
\* opened too late, one whose force-logout failed, or one whose force-logout
\* is the next thing its request does.
DisabledAreLoggedOut ==
  \A s \in Sessions :
    /\ sessions[s] # NoSession
    /\ operators[sessions[s].operator].status = "disabled"
    => \/ s \in late \cup spared
       \/ \E r \in Requests : /\ req[r].at = "forcelogout"
                              /\ req[r].target = sessions[s].operator
=============================================================================
