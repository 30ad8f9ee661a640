------------------------ MODULE OperatorAccessProofs ------------------------
(***************************************************************************)
(* Operators, sessions and the admin middleware, for every finite set of   *)
(* operators and every set of sessions, requests and logins.               *)
(***************************************************************************)
EXTENDS OperatorAccess, FiniteSetTheorems, TLAPS

\* A request that has found its session knows the operator of it, and the
\* operator has a row: the foreign key of sessions, and operators are never
\* deleted.
OwnersExist ==
  /\ \A s \in Sessions : sessions[s] # NoSession =>
       operators[sessions[s].operator].status # "absent"
  /\ \A r \in Requests : req[r].at \notin {"new", "done"} =>
       /\ req[r].row # NoSession
       /\ operators[req[r].row.operator].status # "absent"
  /\ \A l \in Logins : login[l].at \notin {"new", "done"} =>
       operators[login[l].operator].status # "absent"

AccessInv == TypeOK /\ OwnersExist /\ AtLeastOneAdmin

USE AccessConstants

-----------------------------------------------------------------------------
(* Rows stay rows. *)
LEMMA AnyTyped ==
  AnyOperator \in Operators /\ AnySession \in Sessions /\ AnyProvider \in Providers
BY DEF AnyOperator, AnySession, AnyProvider

LEMMA NoSessionIsNoRow == NoSession \notin Session
BY DEF NoSession, Session

LEMMA RequestMoves ==
  ASSUME NEW x \in Request,
         NEW point \in {"lifetime", "operator", "handler", "forcelogout", "touch"}
  PROVE  [x EXCEPT !.at = point] \in Request
BY DEF Request

LEMMA LoginMoves ==
  ASSUME NEW x \in Login, NEW point \in {"create", "lastlogin", "provider"}
  PROVE  [x EXCEPT !.at = point] \in Login
BY DEF Login

\* What a request that has been answered and a callback that is over leave.
LEMMA EndsTyped == Answered \in Request /\ [NewLogin EXCEPT !.at = "done"] \in Login
BY AnyTyped DEF Answered, NewRequest, Request, Kinds, NewLogin, Login

LEMMA AnswerMoves ==
  ASSUME TypeOK, NEW r \in Requests, Answer(r)
  PROVE  /\ req' \in [Requests -> Request]
         /\ req'[r].at = "done" /\ req'[r].row = NoSession
         /\ \A x \in Requests : x # r => req'[x] = req[x]
<1>1. Answered.at = "done" /\ Answered.row = NoSession
  BY DEF Answered, NewRequest
<1> QED BY <1>1, EndsTyped DEF TypeOK, Answer

LEMMA LoginEndsMoves ==
  ASSUME TypeOK, NEW l \in Logins, LoginEnds(l)
  PROVE  /\ login' \in [Logins -> Login]
         /\ login'[l].at = "done"
         /\ \A x \in Logins : x # l => login'[x] = login[x]
<1>1. [NewLogin EXCEPT !.at = "done"].at = "done"
  BY DEF NewLogin
<1> QED BY <1>1, EndsTyped DEF TypeOK, LoginEnds

LEMMA OperatorPatches ==
  ASSUME NEW x \in Operator, NEW role \in Roles, NEW status \in {"absent", "active", "disabled"}
  PROVE  [x EXCEPT !.role = role, !.status = status] \in Operator
BY DEF Operator

LEMMA WitnessType ==
  ASSUME witnessed \in [Requests -> SUBSET Facts], Witness
  PROVE  witnessed' \in [Requests -> SUBSET Facts]
<1>1. ASSUME NEW r \in Requests PROVE FactsOf(r)' \subseteq Facts
  BY DEF FactsOf
<1> QED BY <1>1 DEF Witness

LEMMA InitType == Init => TypeOK
<1> SUFFICES ASSUME Init PROVE TypeOK
  OBVIOUS
<1>1. now \in Nat
  BY DEF Init, Times
<1>2. operators \in [Operators -> Operator]
  <2>1. ASSUME NEW x \in [role : Roles, status : {"absent", "active", "disabled"},
                          last_login : {0}, first_seen : {"none"}, known : {{}}]
        PROVE  x \in Operator
    BY DEF Operator
  <2> QED BY <2>1 DEF Init
<1>3. sessions \in [Sessions -> Session \cup {NoSession}]
  <2>1. ASSUME NEW x \in [operator : {o \in Operators : operators[o].status # "absent"},
                          last_seen : {now}, expires_at : now .. now + AbsoluteLifetime]
        PROVE  x \in Session
    BY <1>1 DEF Session
  <2> QED BY <2>1 DEF Init
<1>4. NewRequest \in Request /\ NewLogin \in Login
  BY AnyTyped DEF NewRequest, Request, Kinds, NewLogin, Login
<1>5. activity \in [Sessions -> SUBSET Nat]
  BY <1>1 DEF Init
<1> QED BY <1>1, <1>2, <1>3, <1>4, <1>5 DEF Init, TypeOK

-----------------------------------------------------------------------------
(* Type correctness, one lemma for each kind of step. *)
LEMMA LoginType ==
  ASSUME TypeOK, NEW l \in Logins, LoginStep(l)
  PROVE  TypeOK'
<1> USE DEF TypeOK
<1> DEFINE x == login[l]
<1>0. x \in Login /\ x.operator \in Operators /\ x.provider \in Providers /\ x.created \in Nat
  BY DEF Login
<1>w. Witness => witnessed' \in [Requests -> SUBSET Facts]
  BY WitnessType
<1>1. ASSUME NEW o \in Operators, NEW p \in Providers, LookupOperator(l, o, p)
      PROVE  TypeOK'
  <2> HIDE DEF x
  <2>1. [x EXCEPT !.at = "create", !.operator = o, !.provider = p] \in Login
    BY <1>0 DEF Login
  <2>2. login' \in [Logins -> Login]
    BY <1>1, <2>1 DEF LookupOperator, x
  <2> QED BY <1>1, <1>w, <2>2 DEF LookupOperator, tables
<1>2. ASSUME NEW s \in Sessions, CreateSession(l, s) PROVE TypeOK'
  <2>1. [operator |-> x.operator, last_seen |-> now,
         expires_at |-> now + AbsoluteLifetime] \in Session
    BY <1>0 DEF Session
  <2>2. sessions' \in [Sessions -> Session \cup {NoSession}]
    BY <1>2, <2>1 DEF CreateSession
  <2>3. login' \in [Logins -> Login]
    <3> HIDE DEF x
    <3>1. [x EXCEPT !.at = "lastlogin", !.created = now] \in Login
      BY <1>0 DEF Login
    <3> QED BY <1>2, <3>1 DEF CreateSession, x
  <2> QED BY <1>2, <1>w, <2>2, <2>3 DEF CreateSession
<1>3. ASSUME UpdateLastLogin(l) PROVE TypeOK'
  <2> DEFINE y == operators[x.operator]
             t == x.created
  <2>1. y \in Operator /\ t \in Nat
    BY <1>0
  <2>2. operators' \in [Operators -> Operator]
    <3> HIDE DEF y, t
    <3>1. [y EXCEPT !.last_login = t] \in Operator
      BY <2>1 DEF Operator
    <3> QED BY <1>3, <3>1 DEF UpdateLastLogin, y, t
  <2>3. login' \in [Logins -> Login]
    BY <1>0, <1>3, LoginMoves DEF UpdateLastLogin, LoginAt
  <2> QED BY <1>3, <1>w, <2>2, <2>3 DEF UpdateLastLogin
<1>4. ASSUME UpdateLoginProvider(l) PROVE TypeOK'
  <2> DEFINE y == operators[x.operator]
             p == x.provider
             kn == y.known \cup {p}
             fs == IF y.first_seen = "none" THEN p ELSE y.first_seen
  <2>1. y \in Operator /\ kn \in SUBSET Providers /\ fs \in Providers \cup {"none"}
    BY <1>0 DEF Operator
  <2>2. operators' \in [Operators -> Operator]
    <3>2. UNCHANGED operators \/
          operators' = [operators EXCEPT ![x.operator] =
                          [y EXCEPT !.known = kn, !.first_seen = fs]]
      BY <1>4 DEF UpdateLoginProvider
    <3> HIDE DEF y, p, kn, fs
    <3>1. [y EXCEPT !.known = kn, !.first_seen = fs] \in Operator
      BY <2>1 DEF Operator
    <3> QED BY <3>1, <3>2
  <2>3. login' \in [Logins -> Login]
    BY <1>4, LoginEndsMoves DEF UpdateLoginProvider
  <2> QED BY <1>4, <1>w, <2>2, <2>3 DEF UpdateLoginProvider
<1>5. ASSUME LoginFails(l) PROVE TypeOK'
  <2>1. login' \in [Logins -> Login]
    BY <1>5, LoginEndsMoves DEF LoginFails
  <2> QED BY <1>5, <1>w, <2>1 DEF LoginFails, tables
<1> QED BY <1>1, <1>2, <1>3, <1>4, <1>5 DEF LoginStep

\* The middleware.
MiddlewareStep(r) ==
  \/ \E s \in Sessions, kind \in Kinds : GetSession(r, s, kind)
  \/ CheckLifetime(r)
  \/ GetOperator(r)
  \/ Touch(r)

LEMMA MiddlewareType ==
  ASSUME TypeOK, NEW r \in Requests, MiddlewareStep(r)
  PROVE  TypeOK'
<1> USE DEF TypeOK
<1> DEFINE x == req[r]
<1>0. x \in Request /\ x.session \in Sessions /\ x.seen \in Nat
  BY DEF Request
<1>w. Witness => witnessed' \in [Requests -> SUBSET Facts]
  BY WitnessType
<1>d. DeleteSession(x.session) => sessions' \in [Sessions -> Session \cup {NoSession}]
  BY <1>0 DEF DeleteSession
<1>1. ASSUME NEW s \in Sessions, NEW kind \in Kinds, GetSession(r, s, kind)
      PROVE  TypeOK'
  <2> DEFINE row == sessions[s]
  <2>1. row \in Session \cup {NoSession}
    OBVIOUS
  <2>2. \/ Answer(r)
        \/ req' = [req EXCEPT ![r] = [x EXCEPT !.at = "lifetime", !.kind = kind,
                                               !.session = s, !.row = row]]
    BY <1>1 DEF GetSession
  <2> HIDE DEF x, row
  <2>3. [x EXCEPT !.at = "lifetime", !.kind = kind, !.session = s, !.row = row] \in Request
    BY <1>0, <2>1 DEF Request
  <2>4. req' \in [Requests -> Request]
    BY <2>2, <2>3, AnswerMoves
  <2> QED BY <1>1, <1>w, <2>4 DEF GetSession, tables
<1>2. ASSUME CheckLifetime(r) PROVE TypeOK'
  <2>1. req' \in [Requests -> Request]
    <3>1. \/ Answer(r)
          \/ req' = [req EXCEPT ![r] = [x EXCEPT !.at = "operator", !.seen = now]]
      BY <1>2 DEF CheckLifetime
    <3> HIDE DEF x
    <3>2. [x EXCEPT !.at = "operator", !.seen = now] \in Request
      BY <1>0 DEF Request
    <3> QED BY <3>1, <3>2, AnswerMoves
  <2> QED BY <1>2, <1>d, <1>w, <2>1 DEF CheckLifetime
<1>3. ASSUME GetOperator(r) PROVE TypeOK'
  <2>1. Answer(r) \/ RequestAt(r, "handler")
    BY <1>3 DEF GetOperator
  <2>2. req' \in [Requests -> Request]
    BY <1>0, <2>1, AnswerMoves, RequestMoves DEF RequestAt
  <2> QED BY <1>3, <1>d, <1>w, <2>2 DEF GetOperator
<1>4. ASSUME Touch(r) PROVE TypeOK'
  <2> DEFINE y == sessions[x.session]
             t == x.seen
  <2>1. UNCHANGED sessions \/ (y # NoSession /\
          sessions' = [sessions EXCEPT ![x.session] = [y EXCEPT !.last_seen = t]])
    BY <1>4 DEF Touch, TouchSession
  <2>2. sessions' \in [Sessions -> Session \cup {NoSession}]
    <3>1. y # NoSession => y \in Session
      BY <1>0
    <3>2. t \in Nat
      BY <1>0
    <3> HIDE DEF y, t
    <3>3. y # NoSession => [y EXCEPT !.last_seen = t] \in Session
      BY <3>1, <3>2 DEF Session
    <3> QED BY <2>1, <3>3
  <2>3. req' \in [Requests -> Request]
    BY <1>4, AnswerMoves DEF Touch
  <2> QED BY <1>4, <1>w, <2>2, <2>3 DEF Touch
<1> QED BY <1>1, <1>2, <1>3, <1>4 DEF MiddlewareStep

LEMMA HandlerType ==
  ASSUME TypeOK, NEW r \in Requests, RequestStep(r), ~MiddlewareStep(r)
  PROVE  TypeOK'
<1> USE DEF TypeOK
<1> DEFINE x == req[r]
<1>0. x \in Request /\ x.session \in Sessions /\ x.seen \in Nat /\ x.target \in Operators
  BY DEF Request
<1>w. Witness => witnessed' \in [Requests -> SUBSET Facts]
  BY WitnessType
<1>a. Accepted(r) => activity' \in [Sessions -> SUBSET Nat]
  BY <1>0 DEF Accepted
<1>1. ASSUME Serve(r) PROVE TypeOK'
  <2>1. req' \in [Requests -> Request]
    BY <1>0, <1>1, RequestMoves DEF Serve, RequestAt
  <2> QED BY <1>1, <1>a, <1>w, <2>1 DEF Serve, tables
<1>2. ASSUME NEW o \in Operators, NEW role \in Roles, CreateOperator(r, o, role)
      PROVE  TypeOK'
  <2>1. [operators[o] EXCEPT !.role = role, !.status = "active"] \in Operator
    BY OperatorPatches
  <2>2. req' \in [Requests -> Request]
    BY <1>0, <1>2, RequestMoves DEF CreateOperator, RequestAt
  <2> QED BY <1>2, <1>a, <1>w, <2>1, <2>2 DEF CreateOperator
<1>3. ASSUME NEW o \in Operators, NEW nr \in Roles \cup {"keep"},
             NEW ns \in {"active", "disabled", "keep"}, UpdateOperator(r, o, nr, ns)
      PROVE  TypeOK'
  <2>1. operators' \in [Operators -> Operator]
    <3>1. operators[o].role \in Roles /\ operators[o].status \in {"absent", "active", "disabled"}
      BY DEF Operator
    <3>2. /\ After(operators[o].role, nr) \in Roles
          /\ After(operators[o].status, ns) \in {"absent", "active", "disabled"}
      BY <3>1 DEF After
    <3>3. Patched(o, nr, ns) \in Operator
      BY <3>2, OperatorPatches DEF Patched
    <3> QED BY <1>3, <3>3 DEF UpdateOperator, UpdateOperatorAtomically
  <2>2. req' \in [Requests -> Request]
    <3>1. \E point \in {"forcelogout", "touch"} :
            req' = [req EXCEPT ![r] = [x EXCEPT !.at = point, !.target = o]]
      BY <1>3 DEF UpdateOperator
    <3> HIDE DEF x
    <3>2. ASSUME NEW point \in {"forcelogout", "touch"}
          PROVE  [x EXCEPT !.at = point, !.target = o] \in Request
      BY <1>0 DEF Request
    <3> QED BY <3>1, <3>2
  <2> QED BY <1>3, <1>a, <1>w, <2>1, <2>2 DEF UpdateOperator
<1>4. ASSUME ForceLogout(r) PROVE TypeOK'
  <2>1. sessions' \in [Sessions -> Session \cup {NoSession}]
    BY <1>4 DEF ForceLogout, DeleteOperatorSessions
  <2>2. spared' \in SUBSET Sessions
    BY <1>4 DEF ForceLogout, SessionsOf
  <2>3. req' \in [Requests -> Request]
    BY <1>0, <1>4, RequestMoves DEF ForceLogout, RequestAt
  <2> QED BY <1>4, <1>w, <2>1, <2>2, <2>3 DEF ForceLogout
<1>5. ASSUME Logout(r) PROVE TypeOK'
  <2>1. sessions' \in [Sessions -> Session \cup {NoSession}]
    BY <1>0, <1>5 DEF Logout, DeleteSession
  <2>2. req' \in [Requests -> Request]
    BY <1>0, <1>5, RequestMoves DEF Logout, RequestAt
  <2> QED BY <1>5, <1>a, <1>w, <2>1, <2>2 DEF Logout
<1>6. ASSUME Abort(r) PROVE TypeOK'
  <2>1. req' \in [Requests -> Request]
    BY <1>6, AnswerMoves DEF Abort
  <2>2. spared' \in SUBSET Sessions
    BY <1>6 DEF Abort, SessionsOf
  <2> QED BY <1>6, <1>w, <2>1, <2>2 DEF Abort, tables
<1> QED BY <1>1, <1>2, <1>3, <1>4, <1>5, <1>6 DEF RequestStep, MiddlewareStep

LEMMA TypeStep == ASSUME TypeOK, [Next]_vars PROVE TypeOK'
<1>1. ASSUME NEW o \in Operators, BootstrapOperatorFromEnv(o) PROVE TypeOK'
  <2>1. [operators[o] EXCEPT !.role = "admin", !.status = "active"] \in Operator
    BY OperatorPatches DEF TypeOK, Roles
  <2>2. witnessed' \in [Requests -> SUBSET Facts]
    BY <1>1, WitnessType DEF BootstrapOperatorFromEnv, TypeOK
  <2> QED BY <1>1, <2>1, <2>2 DEF BootstrapOperatorFromEnv, TypeOK
<1>2. ASSUME ClockMoves PROVE TypeOK'
  <2>1. witnessed' \in [Requests -> SUBSET Facts]
    BY <1>2, WitnessType DEF ClockMoves, TypeOK
  <2>2. now' \in Nat
    BY <1>2 DEF ClockMoves, Times
  <2> QED BY <1>2, <2>1, <2>2 DEF ClockMoves, TypeOK, tables
<1>3. CASE UNCHANGED vars
  BY <1>3 DEF vars, TypeOK
<1> QED BY <1>1, <1>2, <1>3, LoginType, MiddlewareType, HandlerType DEF Next

-----------------------------------------------------------------------------
(* How a step changes the operators. *)
Bootstraps(o) ==
  /\ \A x \in Operators : operators[x].status = "absent"
  /\ operators' = [operators EXCEPT ![o] = [@ EXCEPT !.role = "admin",
                                                     !.status = "active"]]

\* An insert on behalf of an operator who has a row.
Allowlists(o, role) ==
  /\ \E x \in Operators : operators[x].status # "absent"
  /\ operators[o].status = "absent"
  /\ operators' = [operators EXCEPT ![o] = [@ EXCEPT !.role = role,
                                                     !.status = "active"]]

Standing(o) == <<operators[o].role, operators[o].status>>

OperatorsChange ==
  \/ \A x \in Operators : Standing(x)' = Standing(x)
  \/ \E o \in Operators : Bootstraps(o)
  \/ \E o \in Operators, role \in Roles : Allowlists(o, role)
  \/ \E o \in Operators, nr \in Roles \cup {"keep"}, ns \in {"active", "disabled", "keep"} :
       UpdateOperatorAtomically(o, nr, ns)

\* A callback writes nothing but the records of the login.
LEMMA LoginKeepsStanding ==
  ASSUME TypeOK, NEW l \in Logins, LoginStep(l)
  PROVE  \A x \in Operators : Standing(x)' = Standing(x)
<1> DEFINE o == login[l].operator
           G == \A x \in Operators : Standing(x)' = Standing(x)
<1>0. o \in Operators
  BY DEF TypeOK, Login
<1>1. ASSUME UNCHANGED operators PROVE G
  BY <1>1 DEF Standing
<1>2. ASSUME NEW y, operators' = [operators EXCEPT ![o] = y],
             y.role = operators[o].role, y.status = operators[o].status
      PROVE  G
  BY <1>0, <1>2 DEF TypeOK, Standing
<1>3. ASSUME UpdateLastLogin(l) PROVE G
  <2> DEFINE t == login[l].created
             y == [operators[o] EXCEPT !.last_login = t]
  <2>1. UNCHANGED operators \/ operators' = [operators EXCEPT ![o] = y]
    BY <1>3 DEF UpdateLastLogin
  <2>2. y.role = operators[o].role /\ y.status = operators[o].status
    BY <1>0 DEF TypeOK, Operator
  <2> HIDE DEF y
  <2> QED BY <1>1, <1>2, <2>1, <2>2
<1>4. ASSUME UpdateLoginProvider(l) PROVE G
  <2> DEFINE p == login[l].provider
             kn == operators[o].known \cup {p}
             fs == IF operators[o].first_seen = "none" THEN p ELSE operators[o].first_seen
             y == [operators[o] EXCEPT !.known = kn, !.first_seen = fs]
  <2>1. UNCHANGED operators \/ operators' = [operators EXCEPT ![o] = y]
    BY <1>4 DEF UpdateLoginProvider
  <2> HIDE DEF kn, fs
  <2>2. y.role = operators[o].role /\ y.status = operators[o].status
    BY <1>0 DEF TypeOK, Operator
  <2> HIDE DEF y
  <2> QED BY <1>1, <1>2, <2>1, <2>2
<1> QED BY <1>1, <1>3, <1>4
        DEF LoginStep, LookupOperator, CreateSession, LoginFails, tables

LEMMA OperatorsStep ==
  ASSUME TypeOK, OwnersExist, [Next]_vars
  PROVE  OperatorsChange
<1>0. ASSUME UNCHANGED operators PROVE OperatorsChange
  BY <1>0 DEF OperatorsChange, Standing
<1>1. ASSUME NEW o \in Operators, BootstrapOperatorFromEnv(o) PROVE OperatorsChange
  BY <1>1 DEF BootstrapOperatorFromEnv, OperatorsChange, Bootstraps
<1>2. ASSUME NEW l \in Logins, LoginStep(l) PROVE OperatorsChange
  BY <1>2, LoginKeepsStanding DEF OperatorsChange
<1>3. ASSUME NEW r \in Requests, NEW o \in Operators, NEW role \in Roles,
             CreateOperator(r, o, role)
      PROVE  OperatorsChange
  <2>1. req[r].row # NoSession /\ operators[req[r].row.operator].status # "absent"
    BY <1>3 DEF CreateOperator, Handling, OwnersExist
  <2>2. req[r].row.operator \in Operators
    BY <2>1 DEF TypeOK, Request, Session
  <2> QED BY <1>3, <2>1, <2>2 DEF CreateOperator, OperatorsChange, Allowlists
<1>4. ASSUME NEW r \in Requests, NEW o \in Operators, NEW nr \in Roles \cup {"keep"},
             NEW ns \in {"active", "disabled", "keep"}, UpdateOperator(r, o, nr, ns)
      PROVE  OperatorsChange
  BY <1>4 DEF UpdateOperator, OperatorsChange
<1>5. ASSUME NEW r \in Requests, RequestStep(r) PROVE OperatorsChange
  BY <1>0, <1>3, <1>4, <1>5
     DEF RequestStep, GetSession, CheckLifetime, GetOperator, Touch, Serve,
         ForceLogout, Logout, Abort, tables
<1> QED BY <1>0, <1>1, <1>2, <1>5 DEF Next, ClockMoves, vars, tables

\* Operators are never deleted.
LEMMA OperatorsStay ==
  ASSUME TypeOK, OperatorsChange, NEW x \in Operators, operators[x].status # "absent"
  PROVE  operators'[x].status # "absent"
<1>1. CASE \A y \in Operators : Standing(y)' = Standing(y)
  BY <1>1 DEF Standing
<1>2. ASSUME NEW o \in Operators, Bootstraps(o) PROVE operators'[x].status # "absent"
  BY <1>2 DEF Bootstraps
<1>3. ASSUME NEW o \in Operators, NEW role \in Roles, Allowlists(o, role)
      PROVE  operators'[x].status # "absent"
  BY <1>3 DEF Allowlists, TypeOK
<1>4. ASSUME NEW o \in Operators, NEW nr \in Roles \cup {"keep"},
             NEW ns \in {"active", "disabled", "keep"}, UpdateOperatorAtomically(o, nr, ns)
      PROVE  operators'[x].status # "absent"
  <2>1. CASE x # o
    BY <1>4, <2>1 DEF UpdateOperatorAtomically, TypeOK
  <2>2. CASE x = o
    <3>1. operators'[x] = Patched(o, nr, ns)
      BY <1>4, <2>2 DEF UpdateOperatorAtomically, TypeOK
    <3>2. operators[o] \in Operator
      BY DEF TypeOK
    <3>3. Patched(o, nr, ns).status = After(operators[o].status, ns)
      BY <3>2 DEF Patched, Operator
    <3> QED BY <2>2, <3>1, <3>3 DEF After
  <2> QED BY <2>1, <2>2
<1> QED BY <1>1, <1>2, <1>3, <1>4 DEF OperatorsChange

\* The guard of UpdateOperatorAtomically leaves an active admin in place.
LEMMA AdminStep ==
  ASSUME TypeOK, AtLeastOneAdmin, OperatorsChange
  PROVE  AtLeastOneAdmin'
<1> SUFFICES ASSUME \E o \in Operators : operators'[o].status # "absent"
             PROVE  \E a \in Operators : a \in ActiveAdmins'
  BY DEF AtLeastOneAdmin
\* An active admin the step does not touch is still one.
<1>1. ASSUME NEW a \in ActiveAdmins, operators'[a] = operators[a] PROVE a \in ActiveAdmins'
  BY <1>1 DEF ActiveAdmins
<1>2. CASE \A x \in Operators : Standing(x)' = Standing(x)
  <2>1. ActiveAdmins' = ActiveAdmins
    BY <1>2 DEF ActiveAdmins, Standing
  <2>2. \E x \in Operators : operators[x].status # "absent"
    BY <1>2 DEF Standing
  <2> QED BY <2>1, <2>2 DEF AtLeastOneAdmin, ActiveAdmins
<1>3. ASSUME NEW o \in Operators, Bootstraps(o) PROVE o \in ActiveAdmins'
  <2>1. operators[o] \in Operator
    BY DEF TypeOK
  <2>2. operators'[o] = [operators[o] EXCEPT !.role = "admin", !.status = "active"]
    BY <1>3 DEF Bootstraps, TypeOK
  <2> QED BY <2>1, <2>2 DEF ActiveAdmins, Operator
<1>4. ASSUME NEW o \in Operators, NEW role \in Roles, Allowlists(o, role)
      PROVE  \E a \in Operators : a \in ActiveAdmins'
  <2>1. PICK a \in ActiveAdmins : TRUE
    BY <1>4 DEF Allowlists, AtLeastOneAdmin
  <2>2. a \in Operators /\ a # o
    BY <1>4, <2>1 DEF Allowlists, ActiveAdmins
  <2>3. operators'[a] = operators[a]
    BY <1>4, <2>2 DEF Allowlists, TypeOK
  <2> QED BY <1>1, <2>2, <2>3
<1>5. ASSUME NEW o \in Operators, NEW nr \in Roles \cup {"keep"},
             NEW ns \in {"active", "disabled", "keep"}, UpdateOperatorAtomically(o, nr, ns)
      PROVE  \E a \in Operators : a \in ActiveAdmins'
  <2>1. /\ operators'[o] = Patched(o, nr, ns)
        /\ \A a \in Operators : a # o => operators'[a] = operators[a]
    BY <1>5 DEF UpdateOperatorAtomically, TypeOK
  <2>2. ActiveAdmins # {} /\ ActiveAdmins \subseteq Operators
    BY <1>5 DEF AtLeastOneAdmin, UpdateOperatorAtomically, UpdateAllowed, ActiveAdmins
  <2>3. ASSUME NEW a \in ActiveAdmins, a # o PROVE \E b \in Operators : b \in ActiveAdmins'
    BY <1>1, <2>1, <2>2, <2>3
  <2>4. CASE o \notin ActiveAdmins
    BY <2>2, <2>3, <2>4
  <2>5. CASE IsActiveAdmin(Patched(o, nr, ns))
    BY <2>1, <2>5 DEF IsActiveAdmin, ActiveAdmins
  <2>6. CASE o \in ActiveAdmins /\ ~IsActiveAdmin(Patched(o, nr, ns))
    <3>1. Cardinality(ActiveAdmins) > 1
      BY <1>5, <2>6
         DEF UpdateOperatorAtomically, UpdateAllowed, IsActiveAdmin, ActiveAdmins
    <3>2. Cardinality({o}) = 1
      BY FS_Singleton
    <3>3. ActiveAdmins # {o}
      BY <3>1, <3>2
    <3>4. \E a \in ActiveAdmins : a # o
      BY <2>6, <3>3
    <3> QED BY <2>3, <3>4
  <2> QED BY <2>4, <2>5, <2>6
<1> QED BY <1>2, <1>3, <1>4, <1>5 DEF OperatorsChange, ActiveAdmins

-----------------------------------------------------------------------------
(* How a step changes a session. *)
SessionChange(s) ==
  \/ sessions'[s] = sessions[s]
  \/ sessions'[s] = NoSession
  \/ /\ sessions[s] # NoSession
     /\ sessions'[s] # NoSession
     /\ sessions'[s].operator = sessions[s].operator
     /\ sessions'[s].expires_at = sessions[s].expires_at
  \/ /\ s \notin issued
     /\ \E l \in Logins : /\ login[l].at = "create"
                          /\ sessions'[s].operator = login[l].operator

LEMMA SessionStep ==
  ASSUME TypeOK, [Next]_vars, NEW s \in Sessions
  PROVE  SessionChange(s)
<1>0. ASSUME UNCHANGED sessions PROVE SessionChange(s)
  BY <1>0 DEF SessionChange
<1>1. ASSUME NEW x \in Sessions, DeleteSession(x) PROVE SessionChange(s)
  BY <1>1 DEF DeleteSession, SessionChange, TypeOK
<1>2. ASSUME NEW o, DeleteOperatorSessions(o) PROVE SessionChange(s)
  BY <1>2 DEF DeleteOperatorSessions, SessionChange
<1>3. ASSUME NEW l \in Logins, NEW x \in Sessions, CreateSession(l, x)
      PROVE  SessionChange(s)
  BY <1>3 DEF CreateSession, SessionChange, TypeOK
<1>4. ASSUME NEW x \in Sessions, NEW t \in Nat, TouchSession(x, t) PROVE SessionChange(s)
  <2>1. CASE x = s /\ sessions[s] # NoSession /\ sessions[s].last_seen < t
    <3> DEFINE y == sessions[s]
    <3>1. y \in Session
      BY <2>1 DEF TypeOK
    <3>2. sessions'[s] = [y EXCEPT !.last_seen = t]
      BY <1>4, <2>1 DEF TouchSession, TypeOK
    <3>3. [y EXCEPT !.last_seen = t] \in Session
      BY <3>1 DEF Session
    <3>4. /\ sessions'[s].operator = y.operator
          /\ sessions'[s].expires_at = y.expires_at
      BY <3>1, <3>2 DEF Session
    <3> QED BY <2>1, <3>2, <3>3, <3>4, NoSessionIsNoRow DEF SessionChange
  <2>2. CASE ~(x = s /\ sessions[s] # NoSession /\ sessions[s].last_seen < t)
    BY <1>4, <2>2 DEF TouchSession, SessionChange, TypeOK
  <2> QED BY <2>1, <2>2
<1>5. ASSUME NEW r \in Requests, RequestStep(r) PROVE SessionChange(s)
  <2>1. req[r].session \in Sessions /\ req[r].seen \in Nat
    BY DEF TypeOK, Request
  <2> QED BY <1>0, <1>1, <1>2, <1>4, <1>5, <2>1
          DEF RequestStep, GetSession, CheckLifetime, GetOperator, Touch, Serve,
              CreateOperator, UpdateOperator, ForceLogout, Logout, Abort, tables
<1>6. ASSUME NEW l \in Logins, LoginStep(l) PROVE SessionChange(s)
  BY <1>0, <1>3, <1>6
     DEF LoginStep, LookupOperator, UpdateLastLogin, UpdateLoginProvider, LoginFails, tables
<1> QED BY <1>0, <1>5, <1>6 DEF Next, BootstrapOperatorFromEnv, ClockMoves, vars, tables

-----------------------------------------------------------------------------
(* How a step changes a request, and what it witnesses. *)

\* A request that is under way keeps its session row, its session and kind; a
\* request gets under way with the row of a session that exists.
RequestChange(r) ==
  \/ req'[r] = req[r]
  \/ req'[r].at = "done"
  \/ /\ req[r].at = "new" /\ req'[r].at = "lifetime"
     /\ \E s \in Sessions : /\ sessions[s] # NoSession
                            /\ req'[r].session = s /\ req'[r].row = sessions[s]
                            /\ sessions' = sessions
  \/ /\ req[r].at \notin {"new", "done"} /\ req'[r].at # "new"
     /\ req'[r].row = req[r].row /\ req'[r].kind = req[r].kind
     /\ Admitted(r)' => \/ Admitted(r)
                        \/ /\ operators' = operators
                           /\ operators[req[r].row.operator].status = "active"
                           /\ req[r].kind \in {"read", "logout"} \/
                              operators[req[r].row.operator].role = "admin"

LEMMA RequestStepChange ==
  ASSUME TypeOK, OwnersExist, [Next]_vars, NEW r \in Requests
  PROVE  RequestChange(r)
<1> DEFINE x == req[r]
<1>0. x \in Request
  BY DEF TypeOK
<1>1. ASSUME req'[r] = req[r] PROVE RequestChange(r)
  BY <1>1 DEF RequestChange
<1>2. ASSUME Answer(r) PROVE RequestChange(r)
  BY <1>2, AnswerMoves DEF RequestChange
<1>3. ASSUME NEW s \in Sessions, NEW kind \in Kinds, GetSession(r, s, kind)
      PROVE  RequestChange(r)
  <2>1. CASE sessions[s] = NoSession
    BY <1>2, <1>3, <2>1 DEF GetSession
  <2>2. CASE sessions[s] # NoSession
    <3>1. req'[r] = [x EXCEPT !.at = "lifetime", !.kind = kind, !.session = s,
                              !.row = sessions[s]]
      BY <1>3, <2>2 DEF GetSession, TypeOK
    <3>2. req'[r].at = "lifetime" /\ req'[r].session = s /\ req'[r].row = sessions[s]
      BY <1>0, <3>1 DEF Request
    <3> QED BY <1>3, <2>2, <3>2 DEF GetSession, RequestChange, tables
  <2> QED BY <2>1, <2>2
<1>4. ASSUME CheckLifetime(r) PROVE RequestChange(r)
  <2>1. CASE req' = [req EXCEPT ![r] = [@ EXCEPT !.at = "operator", !.seen = now]]
    <3>1. req'[r] = [x EXCEPT !.at = "operator", !.seen = now]
      BY <2>1 DEF TypeOK
    <3>2. req'[r].at = "operator" /\ req'[r].row = x.row /\ req'[r].kind = x.kind
      BY <1>0, <3>1 DEF Request
    <3> QED BY <1>4, <3>2 DEF CheckLifetime, RequestChange, Admitted
  <2> QED BY <1>2, <1>4, <2>1 DEF CheckLifetime
<1>5. ASSUME GetOperator(r) PROVE RequestChange(r)
  <2> DEFINE y == operators[x.row.operator]
  <2>1. CASE RequestAt(r, "handler") /\ y.status = "active" /\
             ~(y.role = "readonly" /\ x.kind \notin {"read", "logout"})
    <3>1. req'[r].at = "handler" /\ req'[r].row = x.row /\ req'[r].kind = x.kind
      BY <1>0, <2>1 DEF RequestAt, TypeOK, Request
    <3>2. x.row # NoSession
      BY <1>5 DEF GetOperator, OwnersExist
    <3>3. y.role \in Roles
      BY <1>0, <3>2 DEF TypeOK, Request, Session, Operator
    <3> QED BY <1>5, <2>1, <3>1, <3>3 DEF GetOperator, RoleDenied, RequestChange, Roles
  <2> QED BY <1>2, <1>5, <2>1 DEF GetOperator, RoleDenied
\* The steps of a request that has been admitted.
<1>6. ASSUME Admitted(r), req'[r].at # "new", req'[r].row = x.row, req'[r].kind = x.kind
      PROVE  RequestChange(r)
  BY <1>6 DEF Admitted, RequestChange
<1>7. ASSUME RequestAt(r, "touch"), Admitted(r) PROVE RequestChange(r)
  <2>1. req'[r].at = "touch" /\ req'[r].row = x.row /\ req'[r].kind = x.kind
    BY <1>0, <1>7 DEF RequestAt, TypeOK, Request
  <2> QED BY <1>6, <1>7, <2>1
<1>8. ASSUME NEW o \in Operators, NEW nr \in Roles \cup {"keep"},
             NEW ns \in {"active", "disabled", "keep"}, UpdateOperator(r, o, nr, ns)
      PROVE  RequestChange(r)
  <2>1. PICK point \in {"forcelogout", "touch"} :
          req' = [req EXCEPT ![r] = [x EXCEPT !.at = point, !.target = o]]
    BY <1>8 DEF UpdateOperator
  <2>2. req'[r].at = point /\ req'[r].row = x.row /\ req'[r].kind = x.kind
    BY <1>0, <2>1 DEF TypeOK, Request
  <2>3. Admitted(r)
    BY <1>8 DEF UpdateOperator, Handling, Admitted
  <2> QED BY <1>6, <2>2, <2>3
<1>9. ASSUME Logout(r) PROVE RequestChange(r)
  BY <1>7, <1>9 DEF Logout, Handling, Admitted
<1>10. ASSUME RequestStep(r) PROVE RequestChange(r)
  BY <1>2, <1>3, <1>4, <1>5, <1>7, <1>8, <1>9, <1>10
     DEF RequestStep, Touch, Serve, CreateOperator, Handling, ForceLogout, Abort, Admitted
<1>11. ASSUME NEW q \in Requests, RequestStep(q), q # r PROVE req'[r] = req[r]
  BY <1>11
     DEF RequestStep, GetSession, CheckLifetime, GetOperator, Touch, Serve,
         CreateOperator, UpdateOperator, ForceLogout, Logout, Abort, RequestAt,
         Answer, TypeOK
<1>12. ASSUME UNCHANGED req PROVE RequestChange(r)
  BY <1>1, <1>12
<1>13. ASSUME NEW l \in Logins, LoginStep(l) PROVE UNCHANGED req
  BY <1>13 DEF LoginStep, LookupOperator, CreateSession, UpdateLastLogin,
              UpdateLoginProvider, LoginFails
<1> QED BY <1>1, <1>10, <1>11, <1>12, <1>13
        DEF Next, BootstrapOperatorFromEnv, ClockMoves, vars

\* A callback under way is for an operator who had a row when it was looked up.
LEMMA LoginChange ==
  ASSUME TypeOK, [Next]_vars, NEW l \in Logins
  PROVE  \/ login'[l] = login[l]
         \/ login'[l].at = "done"
         \/ operators[login'[l].operator].status # "absent"
         \/ login[l].at \notin {"new", "done"} /\ login'[l].operator = login[l].operator
<1> DEFINE x == login[l]
           G == \/ login'[l] = login[l]
                \/ login'[l].at = "done"
                \/ operators[login'[l].operator].status # "absent"
                \/ login[l].at \notin {"new", "done"} /\ login'[l].operator = x.operator
<1>0. x \in Login
  BY DEF TypeOK
<1>1. ASSUME NEW o \in Operators, NEW p \in Providers, LookupOperator(l, o, p) PROVE G
  <2>1. login'[l] = [x EXCEPT !.at = "create", !.operator = o, !.provider = p]
    BY <1>1 DEF LookupOperator, TypeOK
  <2>2. login'[l].operator = o
    BY <1>0, <2>1 DEF Login
  <2> QED BY <1>1, <2>2 DEF LookupOperator
<1>2. ASSUME NEW s \in Sessions, CreateSession(l, s) PROVE G
  <2>1. login'[l] = [x EXCEPT !.at = "lastlogin", !.created = now]
    BY <1>2 DEF CreateSession, TypeOK
  <2>2. login'[l].operator = x.operator
    BY <1>0, <2>1 DEF Login
  <2> QED BY <1>2, <2>2 DEF CreateSession
<1>3. ASSUME UpdateLastLogin(l) PROVE G
  <2>1. login'[l] = [x EXCEPT !.at = "provider"]
    BY <1>3 DEF UpdateLastLogin, LoginAt, TypeOK
  <2>2. login'[l].operator = x.operator
    BY <1>0, <2>1 DEF Login
  <2> QED BY <1>3, <2>2 DEF UpdateLastLogin
<1>4. ASSUME LoginEnds(l) PROVE G
  BY <1>4, LoginEndsMoves
<1>5. ASSUME LoginStep(l) PROVE G
  BY <1>1, <1>2, <1>3, <1>4, <1>5 DEF LoginStep, UpdateLoginProvider, LoginFails
<1>6. ASSUME NEW k \in Logins, LoginStep(k), k # l PROVE login'[l] = login[l]
  BY <1>6 DEF LoginStep, LookupOperator, CreateSession, UpdateLastLogin,
             UpdateLoginProvider, LoginFails, LoginAt, LoginEnds, TypeOK
<1>7. ASSUME NEW r \in Requests, RequestStep(r) PROVE UNCHANGED login
  BY <1>7 DEF RequestStep, GetSession, CheckLifetime, GetOperator, Touch, Serve,
             CreateOperator, UpdateOperator, ForceLogout, Logout, Abort
<1> QED BY <1>5, <1>6, <1>7 DEF Next, BootstrapOperatorFromEnv, ClockMoves, vars

-----------------------------------------------------------------------------
(* The inductive step. *)
LEMMA OwnersStep ==
  ASSUME TypeOK, OwnersExist, [Next]_vars
  PROVE  OwnersExist'
<1>0. /\ OperatorsChange
      /\ \A s \in Sessions : SessionChange(s)
      /\ \A r \in Requests : RequestChange(r)
  BY OperatorsStep, SessionStep, RequestStepChange
<1>t. TypeOK'
  BY TypeStep
<1>k. ASSUME NEW x \in Operators, operators[x].status # "absent"
      PROVE  operators'[x].status # "absent"
  BY <1>0, <1>k, OperatorsStay
<1>1. ASSUME NEW s \in Sessions, sessions'[s] # NoSession
      PROVE  operators'[sessions'[s].operator].status # "absent"
  <2>1. sessions[s] # NoSession => sessions[s].operator \in Operators
    BY DEF TypeOK, Session
  <2>2. \A l \in Logins : login[l].operator \in Operators
    BY DEF TypeOK, Login
  <2>3. SessionChange(s)
    BY <1>0
  <2> QED BY <1>1, <1>k, <2>1, <2>2, <2>3 DEF SessionChange, OwnersExist
<1>2. ASSUME NEW r \in Requests, req'[r].at \notin {"new", "done"}
      PROVE  /\ req'[r].row # NoSession
             /\ operators'[req'[r].row.operator].status # "absent"
  <2>1. \A s \in Sessions : sessions[s] # NoSession => sessions[s].operator \in Operators
    BY DEF TypeOK, Session
  <2>2. req[r].row # NoSession => req[r].row.operator \in Operators
    BY DEF TypeOK, Request, Session
  <2>3. RequestChange(r)
    BY <1>0
  <2> QED BY <1>2, <1>k, <2>1, <2>2, <2>3 DEF RequestChange, OwnersExist
<1>3. ASSUME NEW l \in Logins, login'[l].at \notin {"new", "done"}
      PROVE  operators'[login'[l].operator].status # "absent"
  <2>1. login[l].operator \in Operators /\ login'[l].operator \in Operators
    BY <1>t DEF TypeOK, Login
  <2> QED BY <1>3, <1>k, <2>1, LoginChange DEF OwnersExist
<1> QED BY <1>1, <1>2, <1>3 DEF OwnersExist

LEMMA AccessInit == Init => AccessInv
<1> SUFFICES ASSUME Init PROVE AccessInv
  OBVIOUS
<1>1. TypeOK
  BY InitType
<1>2. OwnersExist
  <2>1. ASSUME NEW s \in Sessions, sessions[s] # NoSession
        PROVE  operators[sessions[s].operator].status # "absent"
    BY <2>1 DEF Init
  <2> QED BY <2>1 DEF Init, OwnersExist, NewRequest, NewLogin
<1>3. AtLeastOneAdmin
  BY DEF Init, AtLeastOneAdmin
<1> QED BY <1>1, <1>2, <1>3 DEF AccessInv

LEMMA AccessStep == AccessInv /\ [Next]_vars => AccessInv'
BY TypeStep, OwnersStep, OperatorsStep, AdminStep DEF AccessInv

LEMMA AccessInvariant == Spec => []AccessInv
BY AccessInit, AccessStep, PTL DEF Spec

-----------------------------------------------------------------------------
(* Admission. *)

\* A request past the session lookup has seen its session exist.
SessionSeen ==
  \A r \in Requests : req[r].at \notin {"new", "done"} => "session" \in witnessed[r]

LEMMA WitnessStep == ASSUME Next PROVE Witness
BY DEF Next, BootstrapOperatorFromEnv, LoginStep, LookupOperator, CreateSession,
       UpdateLastLogin, UpdateLoginProvider, LoginFails, RequestStep, GetSession,
       CheckLifetime, GetOperator, Touch, Serve, CreateOperator, UpdateOperator,
       ForceLogout, Logout, Abort, ClockMoves

LEMMA AdmissionStep ==
  ASSUME AccessInv, SessionSeen, AdmittedForCause, [Next]_vars
  PROVE  SessionSeen' /\ AdmittedForCause'
<1>u. CASE UNCHANGED vars
  BY <1>u DEF vars, SessionSeen, AdmittedForCause, Admitted
<1>n. CASE Next
  <2>1. Witness
    BY <1>n, WitnessStep
  <2> SUFFICES ASSUME NEW r \in Requests
               PROVE  /\ (req[r].at \notin {"new", "done"} => "session" \in witnessed[r])'
                      /\ (Admitted(r) =>
                            /\ {"session", "active"} \subseteq witnessed[r]
                            /\ req[r].kind \notin {"read", "logout"} =>
                                 "admin" \in witnessed[r])'
    BY DEF SessionSeen, AdmittedForCause
  <2>6. CASE req'[r].at = "done"
    BY <2>6 DEF Admitted
  <2>s. SUFFICES ASSUME req'[r].at # "done"
                 PROVE  /\ (req[r].at \notin {"new", "done"} => "session" \in witnessed[r])'
                        /\ (Admitted(r) =>
                              /\ {"session", "active"} \subseteq witnessed[r]
                              /\ req[r].kind \notin {"read", "logout"} =>
                                   "admin" \in witnessed[r])'
    BY <2>6
  <2>2. witnessed[r] \subseteq witnessed'[r]
    BY <2>1, <2>s DEF Witness
  <2>3. FactsOf(r)' \subseteq witnessed'[r]
    BY <2>1, <2>s DEF Witness
  <2>4. RequestChange(r)
    BY RequestStepChange DEF AccessInv
  <2>5. CASE req'[r] = req[r]
    BY <2>2, <2>5 DEF SessionSeen, AdmittedForCause, Admitted
  <2>7. ASSUME req[r].at = "new", req'[r].at = "lifetime", NEW s \in Sessions,
               sessions[s] # NoSession, req'[r].session = s, req'[r].row = sessions[s],
               sessions' = sessions
        PROVE  "session" \in witnessed'[r]
    <3>1. "session" \in FactsOf(r)'
      BY <2>7 DEF FactsOf, Facts
    <3> QED BY <2>3, <2>7, <3>1
  <2>8. ASSUME req[r].at \notin {"new", "done"}, req'[r].row = req[r].row,
               operators' = operators,
               operators[req[r].row.operator].status = "active"
        PROVE  /\ "active" \in witnessed'[r]
               /\ operators[req[r].row.operator].role = "admin" => "admin" \in witnessed'[r]
    <3>1. req[r].row # NoSession
      BY <2>8 DEF AccessInv, OwnersExist
    <3>2. req[r].row.operator \in Operators
      BY <3>1 DEF AccessInv, TypeOK, Request, Session
    <3>3. "active" \in FactsOf(r)'
      BY <2>8, <3>1 DEF FactsOf, Facts
    <3>4. operators[req[r].row.operator].role = "admin" => "admin" \in FactsOf(r)'
      BY <2>8, <3>1, <3>2 DEF FactsOf, Facts, ActiveAdmins
    <3> QED BY <2>3, <2>8, <3>3, <3>4
  <2>9. CASE /\ req[r].at \notin {"new", "done"}
             /\ req'[r].row = req[r].row /\ req'[r].kind = req[r].kind
             /\ Admitted(r)' => \/ Admitted(r)
                                \/ /\ operators' = operators
                                   /\ operators[req[r].row.operator].status = "active"
                                   /\ req[r].kind \in {"read", "logout"} \/
                                      operators[req[r].row.operator].role = "admin"
    <3>1. "session" \in witnessed'[r]
      BY <2>2, <2>9 DEF SessionSeen
    <3>2. CASE ~Admitted(r)'
      BY <3>1, <3>2
    <3>3. CASE Admitted(r)
      BY <2>2, <2>9, <3>1, <3>3 DEF AdmittedForCause
    <3>4. CASE /\ operators' = operators
               /\ operators[req[r].row.operator].status = "active"
               /\ req[r].kind \in {"read", "logout"} \/
                  operators[req[r].row.operator].role = "admin"
      BY <2>8, <2>9, <3>1, <3>4
    <3> QED BY <2>9, <3>2, <3>3, <3>4
  <2> QED BY <2>4, <2>5, <2>6, <2>7, <2>9 DEF RequestChange, Admitted
<1> QED BY <1>u, <1>n

-----------------------------------------------------------------------------
(* The records of a login. *)

\* UpdateLoginProvider writes the identity of the provider and
\* first_seen_provider in one statement.
FirstSeenKnown ==
  \A o \in Operators : operators[o].first_seen # "none" =>
    operators[o].first_seen \in operators[o].known

\* What a row keeps of the logins recorded in it.
RecordsKept(old, new) ==
  /\ new.last_login >= old.last_login
  /\ old.first_seen # "none" => new.first_seen = old.first_seen
  /\ new.first_seen # "none" => new.first_seen \in new.known

\* The statements that change the standing of an operator leave the records
\* of its logins alone.
LEMMA StandingKeepsRecords ==
  ASSUME NEW x \in Operator, NEW role, NEW status,
         x.first_seen # "none" => x.first_seen \in x.known
  PROVE  RecordsKept(x, [x EXCEPT !.role = role, !.status = status])
BY DEF Operator, RecordsKept

LEMMA RowKeepsRecords ==
  ASSUME TypeOK, FirstSeenKnown, NEW o \in Operators, NEW y,
         RecordsKept(operators[o], y),
         operators' = [operators EXCEPT ![o] = y]
  PROVE  \A x \in Operators : RecordsKept(operators[x], operators'[x])
<1> SUFFICES ASSUME NEW x \in Operators PROVE RecordsKept(operators[x], operators'[x])
  OBVIOUS
<1>1. CASE x = o
  BY <1>1 DEF TypeOK
<1>2. CASE x # o
  <2>1. operators'[x] = operators[x] /\ operators[x].last_login \in Nat
    BY <1>2 DEF TypeOK, Operator
  <2> QED BY <2>1 DEF RecordsKept, FirstSeenKnown
<1> QED BY <1>1, <1>2

LEMMA RecordsStep ==
  ASSUME TypeOK, FirstSeenKnown, [Next]_vars, NEW o \in Operators
  PROVE  RecordsKept(operators[o], operators'[o])
<1> DEFINE G == \A x \in Operators : RecordsKept(operators[x], operators'[x])
<1>r. ASSUME NEW x \in Operators
      PROVE  /\ operators[x] \in Operator /\ operators[x].last_login \in Nat
             /\ operators[x].first_seen # "none" => operators[x].first_seen \in operators[x].known
  BY DEF TypeOK, Operator, FirstSeenKnown
<1>u. ASSUME UNCHANGED operators PROVE G
  BY <1>r, <1>u DEF RecordsKept
\* Inserts and PATCHes.
<1>s. ASSUME NEW x \in Operators, NEW role, NEW status,
             operators' = [operators EXCEPT ![x] = [@ EXCEPT !.role = role, !.status = status]]
      PROVE  G
  <2> DEFINE y == [operators[x] EXCEPT !.role = role, !.status = status]
  <2>1. RecordsKept(operators[x], y)
    BY <1>r, StandingKeepsRecords
  <2>2. operators' = [operators EXCEPT ![x] = y]
    BY <1>s
  <2> HIDE DEF y
  <2> QED BY <2>1, <2>2, RowKeepsRecords
<1>1. ASSUME NEW x \in Operators, BootstrapOperatorFromEnv(x) PROVE G
  BY <1>1, <1>s DEF BootstrapOperatorFromEnv
<1>2. ASSUME NEW r \in Requests, NEW x \in Operators, NEW role \in Roles,
             CreateOperator(r, x, role)
      PROVE  G
  BY <1>2, <1>s DEF CreateOperator
<1>3. ASSUME NEW r \in Requests, NEW x \in Operators, NEW nr \in Roles \cup {"keep"},
             NEW ns \in {"active", "disabled", "keep"}, UpdateOperator(r, x, nr, ns)
      PROVE  G
  BY <1>3, <1>s DEF UpdateOperator, UpdateOperatorAtomically, Patched
<1>4. ASSUME NEW r \in Requests, RequestStep(r) PROVE G
  <2>1. UNCHANGED operators \/ G
    BY <1>2, <1>3, <1>4
       DEF RequestStep, GetSession, CheckLifetime, GetOperator, Touch, Serve,
           ForceLogout, Logout, Abort, tables
  <2> QED BY <1>u, <2>1
\* The two records of a login.
<1>5. ASSUME NEW l \in Logins, UpdateLastLogin(l) PROVE G
  <2> DEFINE x == login[l].operator
             t == login[l].created
             y == [operators[x] EXCEPT !.last_login = t]
  <2>1. x \in Operators /\ t \in Nat
    BY DEF TypeOK, Login
  <2>2. \/ UNCHANGED operators
        \/ operators[x].last_login < t /\ operators' = [operators EXCEPT ![x] = y]
    BY <1>5 DEF UpdateLastLogin
  <2>3. operators[x].last_login < t => RecordsKept(operators[x], y)
    <3> HIDE DEF x, t
    <3> QED BY <1>r, <2>1 DEF RecordsKept, Operator
  <2> HIDE DEF y
  <2> QED BY <1>u, <2>1, <2>2, <2>3, RowKeepsRecords
<1>6. ASSUME NEW l \in Logins, UpdateLoginProvider(l) PROVE G
  <2> DEFINE x == login[l].operator
             p == login[l].provider
             kn == operators[x].known \cup {p}
             fs == IF operators[x].first_seen = "none" THEN p ELSE operators[x].first_seen
             y == [operators[x] EXCEPT !.known = kn, !.first_seen = fs]
  <2>1. x \in Operators
    BY DEF TypeOK, Login
  <2>2. UNCHANGED operators \/ operators' = [operators EXCEPT ![x] = y]
    BY <1>6 DEF UpdateLoginProvider
  <2>3. RecordsKept(operators[x], y)
    <3>1. fs # "none" => fs \in kn
      BY <1>r, <2>1
    <3>2. operators[x].first_seen # "none" => fs = operators[x].first_seen
      OBVIOUS
    <3> HIDE DEF x, kn, fs
    <3> QED BY <1>r, <2>1, <3>1, <3>2 DEF RecordsKept, Operator
  <2> HIDE DEF y
  <2> QED BY <1>u, <2>1, <2>2, <2>3, RowKeepsRecords
<1>7. ASSUME NEW l \in Logins, LoginStep(l) PROVE G
  <2>1. UNCHANGED operators \/ G
    BY <1>5, <1>6, <1>7 DEF LoginStep, LookupOperator, CreateSession, LoginFails, tables
  <2> QED BY <1>u, <2>1
<1> QED BY <1>u, <1>1, <1>4, <1>7 DEF Next, ClockMoves, vars, tables

LEMMA FirstSeenInvariant == Spec => []FirstSeenKnown
<1>1. Init => FirstSeenKnown
  BY DEF Init, FirstSeenKnown
<1>2. AccessInv /\ FirstSeenKnown /\ [Next]_vars => FirstSeenKnown'
  BY RecordsStep DEF AccessInv, RecordsKept, FirstSeenKnown
<1> QED BY <1>1, <1>2, AccessInvariant, PTL DEF Spec

-----------------------------------------------------------------------------
(* The force-logout of a disabled operator. *)
LogoutPending(o) ==
  \E r \in Requests : req[r].at = "forcelogout" /\ req[r].target = o

\* The request that disables an operator goes on to the force-logout.
LEMMA DisablingStep ==
  ASSUME TypeOK, [Next]_vars, NEW o \in Operators,
         operators[o].status # "disabled", operators'[o].status = "disabled"
  PROVE  LogoutPending(o)'
<1>s. ASSUME NEW x \in Operators, NEW y, y.status # "disabled",
             operators' = [operators EXCEPT ![x] = y]
      PROVE  FALSE
  BY <1>s DEF TypeOK
<1>a. ASSUME NEW x \in Operators, NEW role,
             operators' = [operators EXCEPT ![x] = [@ EXCEPT !.role = role, !.status = "active"]]
      PROVE  FALSE
  <2> DEFINE y == [operators[x] EXCEPT !.role = role, !.status = "active"]
  <2>1. y.status = "active"
    BY DEF TypeOK, Operator
  <2>2. operators' = [operators EXCEPT ![x] = y]
    BY <1>a
  <2> HIDE DEF y
  <2> QED BY <1>s, <2>1, <2>2
<1>1. ASSUME NEW x \in Operators, BootstrapOperatorFromEnv(x) PROVE FALSE
  BY <1>1, <1>a DEF BootstrapOperatorFromEnv
<1>2. ASSUME NEW r \in Requests, NEW x \in Operators, NEW role \in Roles,
             CreateOperator(r, x, role)
      PROVE  FALSE
  BY <1>2, <1>a DEF CreateOperator
<1>3. ASSUME NEW r \in Requests, NEW x \in Operators, NEW nr \in Roles \cup {"keep"},
             NEW ns \in {"active", "disabled", "keep"}, UpdateOperator(r, x, nr, ns)
      PROVE  LogoutPending(o)'
  <2>1. x = o /\ operators'[o] = Patched(o, nr, ns)
    BY <1>3 DEF UpdateOperator, UpdateOperatorAtomically, TypeOK
  <2>2. operators[o].status = "active"
    BY <1>3, <2>1 DEF UpdateOperator, UpdateOperatorAtomically, UpdateAllowed, TypeOK, Operator
  <2>3. req' = [req EXCEPT ![r] = [@ EXCEPT !.at = "forcelogout", !.target = o]]
    BY <1>3, <2>1, <2>2 DEF UpdateOperator
  <2>4. req'[r].at = "forcelogout" /\ req'[r].target = o
    BY <2>3 DEF TypeOK, Request
  <2> QED BY <2>4 DEF LogoutPending
<1>4. ASSUME NEW r \in Requests, RequestStep(r) PROVE LogoutPending(o)'
  BY <1>2, <1>3, <1>4
     DEF RequestStep, GetSession, CheckLifetime, GetOperator, Touch, Serve,
         ForceLogout, Logout, Abort, tables
<1>5. ASSUME NEW l \in Logins, LoginStep(l) PROVE FALSE
  BY <1>5, LoginKeepsStanding DEF Standing
<1> QED BY <1>1, <1>4, <1>5 DEF Next, ClockMoves, vars, tables

\* A force-logout that is due stays due until it has deleted the sessions of
\* its target or is recorded as failed.
LEMMA PendingStep ==
  ASSUME TypeOK, [Next]_vars, NEW r \in Requests, req[r].at = "forcelogout"
  PROVE  \/ req'[r] = req[r]
         \/ \A s \in SessionsOf(req[r].target) : sessions'[s] = NoSession \/ s \in spared'
<1> DEFINE G == \A s \in SessionsOf(req[r].target) : sessions'[s] = NoSession \/ s \in spared'
<1>1. CASE ForceLogout(r)
  BY <1>1 DEF ForceLogout, DeleteOperatorSessions, SessionsOf
<1>2. CASE Abort(r)
  BY <1>2 DEF Abort
<1>3. CASE RequestStep(r)
  BY <1>1, <1>2, <1>3 DEF RequestStep, GetSession, CheckLifetime, GetOperator, Touch, Serve,
             CreateOperator, UpdateOperator, Logout, Handling
<1>4. ASSUME NEW q \in Requests, RequestStep(q), q # r PROVE req'[r] = req[r]
  BY <1>4
     DEF RequestStep, GetSession, CheckLifetime, GetOperator, Touch, Serve,
         CreateOperator, UpdateOperator, ForceLogout, Logout, Abort, RequestAt,
         Answer, TypeOK
<1>5. ASSUME NEW l \in Logins, LoginStep(l) PROVE UNCHANGED req
  BY <1>5 DEF LoginStep, LookupOperator, CreateSession, UpdateLastLogin,
              UpdateLoginProvider, LoginFails
<1> QED BY <1>3, <1>4, <1>5 DEF Next, BootstrapOperatorFromEnv, ClockMoves, vars

LEMMA ExcusesStay == ASSUME [Next]_vars PROVE late \subseteq late' /\ spared \subseteq spared'
BY DEF Next, BootstrapOperatorFromEnv, LoginStep, LookupOperator, CreateSession,
       UpdateLastLogin, UpdateLoginProvider, LoginFails, RequestStep, GetSession,
       CheckLifetime, GetOperator, Touch, Serve, CreateOperator, UpdateOperator,
       ForceLogout, Logout, Abort, ClockMoves, vars

\* A session that is there after a step was there before it, with the same
\* operator, or a login has just opened it.
LEMMA SessionOrigin ==
  ASSUME TypeOK, [Next]_vars, NEW s \in Sessions, sessions'[s] # NoSession
  PROVE  \/ sessions[s] # NoSession /\ sessions'[s].operator = sessions[s].operator
         \/ \E l \in Logins : CreateSession(l, s)
<1> DEFINE G == \/ sessions[s] # NoSession /\ sessions'[s].operator = sessions[s].operator
                \/ \E l \in Logins : CreateSession(l, s)
<1>1. CASE sessions'[s] = sessions[s]
  BY <1>1
<1>2. ASSUME NEW l \in Logins, NEW x \in Sessions, CreateSession(l, x) PROVE G
  <2>1. CASE x = s
    BY <1>2, <2>1
  <2>2. CASE x # s
    BY <1>1, <1>2, <2>2 DEF CreateSession, TypeOK
  <2> QED BY <2>1, <2>2
<1>3. ASSUME NEW l \in Logins, LoginStep(l) PROVE G
  BY <1>1, <1>2, <1>3
     DEF LoginStep, LookupOperator, UpdateLastLogin, UpdateLoginProvider, LoginFails, tables
<1>4. ASSUME NEW r \in Requests, RequestStep(r) PROVE G
  <2>1. ASSUME NEW x, TouchSession(x, req[r].seen), x \in Sessions PROVE G
    <3>1. CASE sessions' = sessions
      BY <1>1, <3>1
    <3>2. CASE sessions' = [sessions EXCEPT ![x] = [@ EXCEPT !.last_seen = req[r].seen]]
               /\ sessions[x] # NoSession
      <4>1. CASE x # s
        BY <1>1, <3>2, <4>1 DEF TypeOK
      <4>2. CASE x = s
        <5>1. sessions[s] \in Session
          BY <3>2, <4>2 DEF TypeOK
        <5>2. sessions'[s] = [sessions[s] EXCEPT !.last_seen = req[r].seen]
          BY <3>2, <4>2 DEF TypeOK
        <5> QED BY <3>2, <4>2, <5>1, <5>2 DEF Session
      <4> QED BY <4>1, <4>2
    <3> QED BY <2>1, <3>1, <3>2 DEF TouchSession
  <2>2. req[r].session \in Sessions
    BY DEF TypeOK, Request
  <2>3. \/ UNCHANGED sessions
        \/ DeleteSession(req[r].session)
        \/ DeleteOperatorSessions(req[r].target)
        \/ TouchSession(req[r].session, req[r].seen)
    BY <1>4 DEF RequestStep, GetSession, CheckLifetime, GetOperator, Touch, Serve,
              CreateOperator, UpdateOperator, ForceLogout, Logout, Abort, tables
  <2>4. DeleteSession(req[r].session) \/ DeleteOperatorSessions(req[r].target)
          => sessions'[s] = sessions[s]
    BY <2>2 DEF DeleteSession, DeleteOperatorSessions, TypeOK
  <2> QED BY <1>1, <2>1, <2>2, <2>3, <2>4
<1> QED BY <1>1, <1>3, <1>4 DEF Next, BootstrapOperatorFromEnv, ClockMoves, vars, tables

LEMMA LogoutStep ==
  ASSUME TypeOK, DisabledAreLoggedOut, [Next]_vars
  PROVE  DisabledAreLoggedOut'
<1> DEFINE DueFor(x) == \E r \in Requests : req'[r].at = "forcelogout" /\ req'[r].target = x
<1> SUFFICES ASSUME NEW s \in Sessions, sessions'[s] # NoSession,
                    operators'[sessions'[s].operator].status = "disabled"
             PROVE  s \in late' \cup spared' \/ DueFor(sessions'[s].operator)
  BY DEF DisabledAreLoggedOut
<1> DEFINE o == sessions'[s].operator
<1>1. ASSUME NEW l \in Logins, CreateSession(l, s) PROVE s \in late'
  <2>1. o = login[l].operator
    BY <1>1 DEF CreateSession, TypeOK
  <2> QED BY <1>1, <2>1 DEF CreateSession
<1>2. CASE sessions[s] # NoSession /\ o = sessions[s].operator
  <2>1. o \in Operators
    BY <1>2 DEF TypeOK, Session
  <2>2. CASE operators[o].status # "disabled"
    BY <2>1, <2>2, DisablingStep DEF LogoutPending
  <2>3. CASE operators[o].status = "disabled"
    <3>1. s \in late \cup spared \/ LogoutPending(o)
      BY <1>2, <2>3 DEF DisabledAreLoggedOut, LogoutPending
    <3>2. CASE s \in late \cup spared
      BY <3>2, ExcusesStay
    <3>3. CASE LogoutPending(o)
      <4>1. PICK r \in Requests : req[r].at = "forcelogout" /\ req[r].target = o
        BY <3>3 DEF LogoutPending
      <4>2. s \in SessionsOf(req[r].target)
        BY <1>2, <4>1 DEF SessionsOf
      <4>3. CASE req'[r] = req[r]
        BY <4>1, <4>3
      <4> QED BY <4>1, <4>2, <4>3, PendingStep
    <3> QED BY <3>1, <3>2, <3>3
  <2> QED BY <2>2, <2>3
<1> QED BY <1>1, <1>2, SessionOrigin

-----------------------------------------------------------------------------
(* The idle window. *)

\* The last_seen_at of a session, in the table and in the row a request has
\* read, is the time of something that counts as activity; past CheckLifetime
\* it was recent enough when the clock was read; and the time a request is to
\* touch its session with counts as activity once the handler has answered.
RowActive(s) ==
  sessions[s] # NoSession => s \in issued /\ sessions[s].last_seen \in activity[s]

RequestActive(r) ==
  req[r].at \notin {"new", "done"} =>
    /\ req[r].session \in issued
    /\ req[r].row.last_seen \in activity[req[r].session]
    /\ req[r].at # "lifetime" => req[r].seen - req[r].row.last_seen <= IdleLifetime
    /\ req[r].at \in {"forcelogout", "touch"} => req[r].seen \in activity[req[r].session]

IdleInv ==
  /\ \A s \in Sessions : RowActive(s)
  /\ \A r \in Requests : RequestActive(r)

\* Session ids are given out once, so the history of one only grows.
LEMMA ActivityGrows ==
  ASSUME TypeOK, [Next]_vars
  PROVE  /\ issued \subseteq issued'
         /\ \A s \in issued : activity[s] \subseteq activity'[s]
<1> DEFINE G == /\ issued \subseteq issued'
                /\ \A s \in issued : activity[s] \subseteq activity'[s]
<1>1. ASSUME UNCHANGED <<issued, activity>> PROVE G
  BY <1>1
<1>2. ASSUME NEW r \in Requests, Accepted(r), UNCHANGED issued PROVE G
  <2>1. req[r].session \in Sessions
    BY DEF TypeOK, Request
  <2> QED BY <1>2, <2>1 DEF Accepted, TypeOK
<1>3. ASSUME NEW l \in Logins, NEW x \in Sessions, CreateSession(l, x) PROVE G
  BY <1>3 DEF CreateSession, TypeOK
<1>4. ASSUME NEW l \in Logins, LoginStep(l) PROVE G
  BY <1>1, <1>3, <1>4
     DEF LoginStep, LookupOperator, UpdateLastLogin, UpdateLoginProvider, LoginFails
<1>5. ASSUME NEW r \in Requests, RequestStep(r) PROVE G
  BY <1>1, <1>2, <1>5
     DEF RequestStep, GetSession, CheckLifetime, GetOperator, Touch, Serve,
         CreateOperator, UpdateOperator, ForceLogout, Logout, Abort
<1> QED BY <1>1, <1>4, <1>5 DEF Next, BootstrapOperatorFromEnv, ClockMoves, vars

\* The last_seen_at of a session moves only by the touch of a request.
LEMMA LastSeenStep ==
  ASSUME TypeOK, [Next]_vars, NEW s \in Sessions, sessions'[s] # NoSession
  PROVE  \/ sessions'[s] = sessions[s]
         \/ /\ sessions[s] # NoSession
            /\ \E r \in Requests : /\ req[r].at = "touch" /\ req[r].session = s
                                   /\ sessions'[s].last_seen = req[r].seen
         \/ s \in issued' /\ sessions'[s].last_seen \in activity'[s]
<1> DEFINE G == \/ sessions'[s] = sessions[s]
                \/ /\ sessions[s] # NoSession
                   /\ \E r \in Requests : /\ req[r].at = "touch" /\ req[r].session = s
                                          /\ sessions'[s].last_seen = req[r].seen
                \/ s \in issued' /\ sessions'[s].last_seen \in activity'[s]
<1>1. ASSUME NEW l \in Logins, NEW x \in Sessions, CreateSession(l, x) PROVE G
  BY <1>1 DEF CreateSession, TypeOK
<1>2. ASSUME NEW l \in Logins, LoginStep(l) PROVE G
  BY <1>1, <1>2
     DEF LoginStep, LookupOperator, UpdateLastLogin, UpdateLoginProvider, LoginFails, tables
<1>3. ASSUME NEW r \in Requests, Touch(r) PROVE G
  <2> DEFINE x == req[r].session
             t == req[r].seen
  <2>1. x \in Sessions
    BY DEF TypeOK, Request
  <2>2. CASE sessions' = sessions
    BY <2>2
  <2>3. CASE sessions[x] # NoSession /\
             sessions' = [sessions EXCEPT ![x] = [@ EXCEPT !.last_seen = t]]
    <3>1. CASE x # s
      BY <2>1, <2>3, <3>1 DEF TypeOK
    <3>2. CASE x = s
      <4>1. sessions[s] \in Session
        BY <2>3, <3>2 DEF TypeOK
      <4>2. sessions'[s] = [sessions[s] EXCEPT !.last_seen = t]
        BY <2>3, <3>2 DEF TypeOK
      <4>3. sessions'[s].last_seen = t
        BY <4>1, <4>2 DEF Session
      <4> QED BY <1>3, <2>3, <3>2, <4>3 DEF Touch
    <3> QED BY <3>1, <3>2
  <2> QED BY <1>3, <2>2, <2>3 DEF Touch, TouchSession
<1>4. ASSUME NEW r \in Requests, RequestStep(r), ~Touch(r) PROVE G
  <2>1. req[r].session \in Sessions
    BY DEF TypeOK, Request
  <2>2. \/ UNCHANGED sessions
        \/ DeleteSession(req[r].session)
        \/ DeleteOperatorSessions(req[r].target)
    BY <1>4 DEF RequestStep, GetSession, CheckLifetime, GetOperator, Serve,
              CreateOperator, UpdateOperator, ForceLogout, Logout, Abort, tables
  <2> QED BY <2>1, <2>2 DEF DeleteSession, DeleteOperatorSessions, TypeOK
<1> QED BY <1>2, <1>3, <1>4
        DEF Next, BootstrapOperatorFromEnv, ClockMoves, vars, tables

\* A request that moves on keeps its session, row and, past CheckLifetime, the
\* time it was checked at.
Onward(r, from, to) ==
  /\ req[r].at = from /\ req'[r].at = to
  /\ req'[r].session = req[r].session /\ req'[r].row = req[r].row
  /\ from # "lifetime" => req'[r].seen = req[r].seen

RequestPath(r) ==
  \/ req'[r] = req[r]
  \/ req'[r].at = "done"
  \/ /\ req'[r].at = "lifetime"
     /\ \E s \in Sessions : /\ sessions[s] # NoSession
                            /\ req'[r].session = s /\ req'[r].row = sessions[s]
  \/ /\ Onward(r, "lifetime", "operator")
     /\ req'[r].seen = now /\ ~Expired(req[r].row, now)
  \/ Onward(r, "operator", "handler")
  \/ /\ Onward(r, "handler", "forcelogout") \/ Onward(r, "handler", "touch")
     /\ Accepted(r)
  \/ Onward(r, "forcelogout", "touch")

LEMMA RequestPathStep ==
  ASSUME TypeOK, OwnersExist, [Next]_vars, NEW r \in Requests
  PROVE  RequestPath(r)
<1> DEFINE x == req[r]
<1>0. x \in Request
  BY DEF TypeOK
<1>1. ASSUME NEW point \in {"lifetime", "operator", "handler", "forcelogout", "touch"},
             RequestAt(r, point)
      PROVE  /\ req'[r].at = point /\ req'[r].session = x.session
             /\ req'[r].row = x.row /\ req'[r].seen = x.seen
  BY <1>0, <1>1 DEF RequestAt, TypeOK, Request
<1>2. ASSUME Answer(r) PROVE RequestPath(r)
  BY <1>2, AnswerMoves DEF RequestPath
<1>3. ASSUME NEW s \in Sessions, NEW kind \in Kinds, GetSession(r, s, kind)
      PROVE  RequestPath(r)
  BY <1>3, RequestStepChange DEF RequestChange, RequestPath, GetSession
<1>4. ASSUME CheckLifetime(r) PROVE RequestPath(r)
  <2>1. CASE /\ req' = [req EXCEPT ![r] = [@ EXCEPT !.at = "operator", !.seen = now]]
             /\ ~Expired(req[r].row, now)
    <3>1. req'[r] = [x EXCEPT !.at = "operator", !.seen = now]
      BY <2>1 DEF TypeOK
    <3>2. /\ req'[r].at = "operator" /\ req'[r].session = x.session
          /\ req'[r].row = x.row /\ req'[r].seen = now
      BY <1>0, <3>1 DEF Request
    <3> QED BY <1>4, <2>1, <3>2 DEF CheckLifetime, RequestPath, Onward
  <2> QED BY <1>2, <1>4, <2>1 DEF CheckLifetime
<1>5. ASSUME GetOperator(r) PROVE RequestPath(r)
  <2>1. CASE RequestAt(r, "handler")
    BY <1>1, <1>5, <2>1 DEF GetOperator, RequestPath, Onward
  <2>2. RequestAt(r, "handler") \/ Answer(r)
    BY <1>5 DEF GetOperator
  <2> QED BY <1>2, <2>1, <2>2
<1>6. ASSUME x.at = "handler", RequestAt(r, "touch"), Accepted(r) PROVE RequestPath(r)
  BY <1>1, <1>6 DEF RequestPath, Onward
<1>7. ASSUME NEW o \in Operators, NEW nr \in Roles \cup {"keep"},
             NEW ns \in {"active", "disabled", "keep"}, UpdateOperator(r, o, nr, ns)
      PROVE  RequestPath(r)
  <2>1. PICK point \in {"forcelogout", "touch"} :
          req' = [req EXCEPT ![r] = [x EXCEPT !.at = point, !.target = o]]
    BY <1>7 DEF UpdateOperator
  <2>2. /\ req'[r].at = point /\ req'[r].session = x.session
        /\ req'[r].row = x.row /\ req'[r].seen = x.seen
    BY <1>0, <2>1 DEF TypeOK, Request
  <2>3. x.at = "handler" /\ Accepted(r)
    BY <1>7 DEF UpdateOperator, Handling
  <2> QED BY <2>2, <2>3 DEF RequestPath, Onward
<1>8. ASSUME ForceLogout(r) PROVE RequestPath(r)
  <2>1. x.at = "forcelogout" /\ RequestAt(r, "touch")
    BY <1>8 DEF ForceLogout
  <2> QED BY <1>1, <2>1 DEF RequestPath, Onward
<1>9. ASSUME RequestStep(r) PROVE RequestPath(r)
  BY <1>2, <1>3, <1>4, <1>5, <1>6, <1>7, <1>8, <1>9
     DEF RequestStep, Touch, Serve, CreateOperator, Handling, Logout, Abort
<1>10. ASSUME NEW q \in Requests, RequestStep(q), q # r PROVE req'[r] = req[r]
  BY <1>10
     DEF RequestStep, GetSession, CheckLifetime, GetOperator, Touch, Serve,
         CreateOperator, UpdateOperator, ForceLogout, Logout, Abort, RequestAt,
         Answer, TypeOK
<1>11. ASSUME req'[r] = req[r] PROVE RequestPath(r)
  BY <1>11 DEF RequestPath
<1>12. ASSUME NEW l \in Logins, LoginStep(l) PROVE req'[r] = req[r]
  BY <1>12 DEF LoginStep, LookupOperator, CreateSession, UpdateLastLogin,
               UpdateLoginProvider, LoginFails
<1> QED BY <1>9, <1>10, <1>11, <1>12
        DEF Next, BootstrapOperatorFromEnv, ClockMoves, vars

LEMMA IdleStep ==
  ASSUME TypeOK, OwnersExist, IdleInv, [Next]_vars
  PROVE  IdleInv'
<1>g. /\ issued \subseteq issued'
      /\ \A s \in issued : activity[s] \subseteq activity'[s]
  BY ActivityGrows
<1>1. ASSUME NEW s \in Sessions PROVE RowActive(s)'
  <2> SUFFICES ASSUME sessions'[s] # NoSession
               PROVE  s \in issued' /\ sessions'[s].last_seen \in activity'[s]
    BY DEF RowActive
  <2>1. CASE sessions'[s] = sessions[s]
    BY <1>g, <2>1 DEF IdleInv, RowActive
  <2>2. ASSUME NEW r \in Requests, req[r].at = "touch", req[r].session = s,
               sessions'[s].last_seen = req[r].seen
        PROVE  s \in issued' /\ sessions'[s].last_seen \in activity'[s]
    BY <1>g, <2>2 DEF IdleInv, RequestActive
  <2> QED BY <2>1, <2>2, LastSeenStep
<1>2. ASSUME NEW r \in Requests PROVE RequestActive(r)'
  <2>0. RequestPath(r) /\ RequestActive(r)
    BY RequestPathStep DEF IdleInv
  <2>1. CASE req'[r] = req[r]
    BY <1>g, <2>0, <2>1 DEF RequestActive
  <2>2. CASE req'[r].at = "done"
    BY <2>2 DEF RequestActive
  <2>3. ASSUME req'[r].at = "lifetime", NEW s \in Sessions, sessions[s] # NoSession,
               req'[r].session = s, req'[r].row = sessions[s]
        PROVE  RequestActive(r)'
    BY <1>g, <2>3 DEF RequestActive, IdleInv, RowActive
  <2>4. CASE Onward(r, "lifetime", "operator") /\ req'[r].seen = now /\ ~Expired(req[r].row, now)
    <3>1. now - req[r].row.last_seen <= IdleLifetime
      <4>1. req[r].row # NoSession
        BY <2>4 DEF Onward, OwnersExist
      <4>2. req[r].row.last_seen \in Nat /\ now \in Nat
        BY <4>1 DEF TypeOK, Request, Session
      <4> QED BY <2>4, <4>2 DEF Expired
    <3> QED BY <1>g, <2>0, <2>4, <3>1 DEF RequestActive, Onward
  <2>5. CASE Onward(r, "operator", "handler") \/ Onward(r, "forcelogout", "touch")
    BY <1>g, <2>0, <2>5 DEF RequestActive, Onward
  <2>6. CASE /\ Onward(r, "handler", "forcelogout") \/ Onward(r, "handler", "touch")
             /\ Accepted(r)
    <3>1. req[r].session \in Sessions
      BY DEF TypeOK, Request
    <3>2. req[r].seen \in activity'[req[r].session]
      BY <2>6, <3>1 DEF Accepted, TypeOK
    <3> QED BY <1>g, <2>0, <2>6, <3>2 DEF RequestActive, Onward
  <2> QED BY <2>0, <2>1, <2>2, <2>3, <2>4, <2>5, <2>6 DEF RequestPath
<1> QED BY <1>1, <1>2 DEF IdleInv

-----------------------------------------------------------------------------
(* The absolute lifetime. *)

\* A request that the middleware let through was checked before its session's
\* absolute expiry and against the operator the session belongs to, as the
\* table has them now, not only as they were in the row it read.
WithinLifetime ==
  \A r \in Requests : Admitted(r) =>
    LET s == sessions[req[r].session] IN
    s # NoSession => req[r].seen <= s.expires_at /\ req[r].row.operator = s.operator

\* The row a request has read agrees with the table on what never changes.
RowCurrent(r) ==
  req[r].at \notin {"new", "done"} =>
    /\ sessions[req[r].session] # NoSession =>
         /\ sessions[req[r].session].expires_at = req[r].row.expires_at
         /\ sessions[req[r].session].operator = req[r].row.operator
    /\ req[r].at # "lifetime" => req[r].seen <= req[r].row.expires_at

LEMMA RowCurrentStep ==
  ASSUME TypeOK, OwnersExist, IdleInv, [Next]_vars, NEW r \in Requests, RowCurrent(r)
  PROVE  RowCurrent(r)'
<1>p. RequestPath(r) /\ RequestActive(r)
  BY RequestPathStep DEF IdleInv
<1>s. ASSUME NEW s \in issued, sessions'[s] # NoSession
      PROVE  /\ sessions[s] # NoSession
             /\ sessions'[s].expires_at = sessions[s].expires_at
             /\ sessions'[s].operator = sessions[s].operator
  <2>1. s \in Sessions
    BY DEF TypeOK
  <2> QED BY <1>s, <2>1, SessionStep DEF SessionChange
<1>1. CASE req'[r] = req[r]
  BY <1>p, <1>s, <1>1 DEF RowCurrent, RequestActive
<1>2. CASE req'[r].at = "done"
  BY <1>2 DEF RowCurrent
<1>3. ASSUME req'[r].at = "lifetime", NEW s \in Sessions, sessions[s] # NoSession,
             req'[r].session = s, req'[r].row = sessions[s]
      PROVE  RowCurrent(r)'
  <2>1. s \in issued
    BY <1>3 DEF IdleInv, RowActive
  <2> QED BY <1>s, <1>3, <2>1 DEF RowCurrent
<1>4. CASE Onward(r, "lifetime", "operator") /\ req'[r].seen = now /\ ~Expired(req[r].row, now)
  <2>1. now <= req[r].row.expires_at
    <3>1. req[r].row # NoSession
      BY <1>4 DEF Onward, OwnersExist
    <3>2. req[r].row.expires_at \in Nat /\ now \in Nat
      BY <3>1 DEF TypeOK, Request, Session
    <3> QED BY <1>4, <3>2 DEF Expired
  <2> QED BY <1>p, <1>s, <1>4, <2>1 DEF RowCurrent, RequestActive, Onward
<1>5. CASE \/ Onward(r, "operator", "handler")
           \/ Onward(r, "handler", "forcelogout") \/ Onward(r, "handler", "touch")
           \/ Onward(r, "forcelogout", "touch")
  BY <1>p, <1>s, <1>5 DEF RowCurrent, RequestActive, Onward
<1> QED BY <1>p, <1>1, <1>2, <1>3, <1>4, <1>5 DEF RequestPath

-----------------------------------------------------------------------------
(* The theorems. *)

\* Operators, sessions, requests and callbacks keep their types.
THEOREM AccessTypeCorrect == Spec => []TypeOK
BY AccessInvariant, PTL DEF AccessInv

\* The guard of UpdateOperatorAtomically, with BootstrapOperatorFromEnv and
\* the role gate before every insert, keeps an active admin, for any number of
\* operators and of racing requests.
THEOREM NoLockout == Spec => []AtLeastOneAdmin
BY AccessInvariant, PTL DEF AccessInv

\* RequireSession and RequireRole let nothing through without cause.
THEOREM AdmissionSound == Spec => []AdmittedForCause
<1>1. Init => SessionSeen /\ AdmittedForCause
  BY DEF Init, NewRequest, SessionSeen, AdmittedForCause, Admitted
<1>2. AccessInv /\ SessionSeen /\ AdmittedForCause /\ [Next]_vars
        => SessionSeen' /\ AdmittedForCause'
  BY AdmissionStep
<1> QED BY <1>1, <1>2, AccessInvariant, PTL DEF Spec

\* DeleteSession and DeleteOperatorSessions are final: no TouchSession and no
\* CreateSession brings a session id back.
THEOREM SessionsEnd == Spec => SessionsEndForGood
<1>1. AccessInv /\ [Next]_vars =>
        [\A s \in issued :
           /\ sessions[s] = NoSession => sessions'[s] = NoSession
           /\ sessions[s] # NoSession /\ sessions'[s] # NoSession =>
                /\ sessions'[s].expires_at = sessions[s].expires_at
                /\ sessions'[s].operator = sessions[s].operator]_vars
  <2> SUFFICES ASSUME AccessInv, [Next]_vars, NEW s \in issued
               PROVE  /\ sessions[s] = NoSession => sessions'[s] = NoSession
                      /\ sessions[s] # NoSession /\ sessions'[s] # NoSession =>
                           /\ sessions'[s].expires_at = sessions[s].expires_at
                           /\ sessions'[s].operator = sessions[s].operator
    OBVIOUS
  <2>1. s \in Sessions
    BY DEF AccessInv, TypeOK
  <2>2. SessionChange(s)
    BY <2>1, SessionStep DEF AccessInv
  <2> QED BY <2>2 DEF SessionChange
<1> QED BY <1>1, AccessInvariant, PTL DEF Spec, SessionsEndForGood

\* UpdateOperatorLastLogin and UpdateOperatorLoginProvider: logins that race,
\* PATCHes and a clock that is set back keep what is recorded of a login.
THEOREM LoginRecords == Spec => LoginRecordsKeep
<1>1. AccessInv /\ FirstSeenKnown /\ [Next]_vars =>
        [\A o \in Operators :
           /\ operators'[o].last_login >= operators[o].last_login
           /\ operators[o].first_seen # "none" =>
                operators'[o].first_seen = operators[o].first_seen
           /\ operators'[o].first_seen # "none" =>
                operators'[o].first_seen \in operators'[o].known]_vars
  BY RecordsStep DEF AccessInv, RecordsKept
<1> QED BY <1>1, AccessInvariant, FirstSeenInvariant, PTL DEF Spec, LoginRecordsKeep

\* UpdateOperator, its force-logout, the logins and the middleware: a disabled
\* operator keeps no session but the ones the code accounts for.
THEOREM DisabledLoggedOut == Spec => []DisabledAreLoggedOut
<1>1. Init => DisabledAreLoggedOut
  BY DEF Init, DisabledAreLoggedOut
<1>2. AccessInv /\ DisabledAreLoggedOut /\ [Next]_vars => DisabledAreLoggedOut'
  BY LogoutStep DEF AccessInv
<1> QED BY <1>1, <1>2, AccessInvariant, PTL DEF Spec

LEMMA IdleInvariant == Spec => []IdleInv
<1>1. Init => IdleInv
  <2> SUFFICES ASSUME Init PROVE IdleInv
    OBVIOUS
  <2>1. ASSUME NEW s \in Sessions PROVE RowActive(s)
    BY DEF Init, RowActive
  <2> QED BY <2>1 DEF Init, IdleInv, RequestActive, NewRequest
<1>2. AccessInv /\ IdleInv /\ [Next]_vars => IdleInv'
  BY IdleStep DEF AccessInv
<1> QED BY <1>1, <1>2, AccessInvariant, PTL DEF Spec

\* RequireSession and TouchSession: the idle window of a session slides only
\* with the requests accepted on it, for every lifetime, any number of
\* requests under way and a clock that may be set back.
THEOREM IdleWindowHolds == Spec => []IdleWindow
<1>1. IdleInv => IdleWindow
  BY DEF IdleInv, RequestActive, IdleWindow, Admitted
<1> QED BY <1>1, IdleInvariant, PTL

\* RequireSession: no request is served past the absolute expiry of its
\* session, or as another operator than the session's, though the row it
\* checks may be older than the checks.
THEOREM LifetimeHolds == Spec => []WithinLifetime
<1> DEFINE Current == \A r \in Requests : RowCurrent(r)
<1>1. Init => Current
  BY DEF Init, RowCurrent, NewRequest
<1>2. AccessInv /\ IdleInv /\ Current /\ [Next]_vars => Current'
  BY RowCurrentStep DEF AccessInv
<1>3. Current => WithinLifetime
  BY DEF RowCurrent, WithinLifetime, Admitted
<1> HIDE DEF Current
<1> QED BY <1>1, <1>2, <1>3, AccessInvariant, IdleInvariant, PTL DEF Spec
=============================================================================
