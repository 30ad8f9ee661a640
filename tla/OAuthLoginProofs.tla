-------------------------- MODULE OAuthLoginProofs --------------------------
(***************************************************************************)
(* Logins from the redirect to the session, for every finite set of        *)
(* operators and any number of flows, callbacks and requests.              *)
(***************************************************************************)
EXTENDS OAuthLogin, OperatorAccessProofs

\* The flow of a callback has been started and its entry is gone, and the
\* callback came with the flow's own state and code, from the flow's provider.
FlowSpent(l) ==
  LET c == callback[l] IN
  c.flow # "none" =>
    /\ c.flow \in Flows /\ entries[c.flow] = NoEntry
    /\ c.query = c.flow /\ c.provider = started[c.flow]

\* What a callback has established, by how far it is: its flow, the email, the
\* membership.  A login goes on only when its callback is over, with what the
\* callback established.
Vouched(l) ==
  /\ callback[l].at \notin {"new", "done"} => callback[l].flow # "none"
  /\ callback[l].at # "done" => login[l].at = "new"
  /\ callback[l].at \in {"user", "membership", "lookup"} =>
       callback[l].email \in Operators /\ attested[l].email = callback[l].email
  /\ callback[l].at = "lookup" => attested[l].member = TRUE
  /\ login[l].at \in {"create", "lastlogin", "provider"} =>
       /\ attested[l].email = login[l].operator /\ attested[l].member = TRUE
       /\ callback[l].flow # "none" /\ login[l].provider = callback[l].provider

\* An entry tells the provider its flow was started at.
EntriesTrue == \A h \in Handles : entries[h] # NoEntry => started[h] = entries[h].provider

FlowInv ==
  /\ EntriesTrue
  /\ \A l \in Logins : FlowSpent(l)
  /\ FlowExchangedOnce

OAuthInv == TypeOK /\ OAuthTypeOK /\ FlowInv /\ \A l \in Logins : Vouched(l)

USE OAuthConstants

-----------------------------------------------------------------------------
(* Types. *)
LEMMA NewCallbackType ==
  /\ NewCallback \in Callbacks
  /\ NewCallback.at = "new" /\ NewCallback.flow = "none"
BY AnyTyped DEF NewCallback, Callbacks, Person

LEMMA OverIs ==
  ASSUME OAuthTypeOK, NEW l \in Logins
  PROVE  /\ Over(l) \in Callbacks
         /\ Over(l).at = "done" /\ Over(l).flow = callback[l].flow
         /\ Over(l).query = callback[l].query /\ Over(l).provider = callback[l].provider
<1> DEFINE x == callback[l]
<1>1. x \in Callbacks
  BY DEF OAuthTypeOK
<1> HIDE DEF x
<1>2. LET y == [x EXCEPT !.at = "done", !.email = "none"] IN
        /\ y \in Callbacks /\ y.at = "done"
        /\ y.flow = x.flow /\ y.query = x.query /\ y.provider = x.provider
  BY <1>1 DEF Callbacks, Person
<1> QED BY <1>2 DEF Over, x

LEMMA EntryTypes ==
  /\ NoEntry \notin Entry
  /\ \A p \in Providers : [provider |-> p, age |-> 0] \in Entry
  /\ \A e \in Entry : e.provider \in Providers
  /\ "none" \notin Providers
BY DEF NoEntry, Entry

LEMMA OAuthInitSound == OAuthInit => OAuthInv
<1> SUFFICES ASSUME OAuthInit PROVE OAuthInv
  OBVIOUS
<1>1. TypeOK
  BY InitType DEF OAuthInit
<1>2. OAuthTypeOK
  BY NewCallbackType DEF OAuthInit, OAuthTypeOK, Attestation, Person
<1>3. FlowInv
  BY NewCallbackType DEF OAuthInit, FlowInv, EntriesTrue, FlowSpent, FlowExchangedOnce
<1>4. ASSUME NEW l \in Logins PROVE Vouched(l)
  <2>1. login[l].at = "new"
    BY DEF OAuthInit, Init, NewLogin
  <2> QED BY <2>1, NewCallbackType DEF OAuthInit, Vouched
<1> QED BY <1>1, <1>2, <1>3, <1>4 DEF OAuthInv

-----------------------------------------------------------------------------
(* What a step of the rest of the callback does to the logins. *)
LEMMA LoginGoesOn ==
  ASSUME TypeOK, NEW k \in Logins, LoginStep(k), login[k].at # "new"
  PROVE  /\ \A l \in Logins : l # k => login'[l] = login[l]
         /\ login'[k].at # "new"
         /\ login'[k].at \in {"create", "lastlogin", "provider"} =>
              /\ login[k].at \in {"create", "lastlogin", "provider"}
              /\ login'[k].operator = login[k].operator
              /\ login'[k].provider = login[k].provider
<1> DEFINE x == login[k]
           Going == {"create", "lastlogin", "provider"}
           G == /\ login'[k].at # "new"
                /\ login'[k].at \in Going =>
                     /\ x.at \in Going
                     /\ login'[k].operator = x.operator /\ login'[k].provider = x.provider
<1>0. x \in Login
  BY DEF TypeOK
<1>1. \A l \in Logins : l # k => login'[l] = login[l]
  BY DEF LoginStep, LookupOperator, CreateSession, UpdateLastLogin, UpdateLoginProvider,
     LoginFails, LoginAt, LoginEnds, TypeOK
<1>2. ASSUME NEW s \in Sessions, CreateSession(k, s) PROVE G
  <2>1. login'[k] = [x EXCEPT !.at = "lastlogin", !.created = now]
    BY <1>2 DEF CreateSession, TypeOK
  <2> QED BY <1>0, <1>2, <2>1 DEF Login, CreateSession
<1>3. ASSUME UpdateLastLogin(k) PROVE G
  <2>1. login'[k] = [x EXCEPT !.at = "provider"]
    BY <1>3 DEF UpdateLastLogin, LoginAt, TypeOK
  <2>2. x.at = "lastlogin"
    BY <1>3 DEF UpdateLastLogin
  <2> QED BY <1>0, <2>1, <2>2 DEF Login
<1>4. ASSUME LoginEnds(k) PROVE G
  BY <1>4, LoginEndsMoves
<1>5. G
  BY <1>2, <1>3, <1>4 DEF LoginStep, LookupOperator, UpdateLoginProvider, LoginFails
<1> QED BY <1>1, <1>5

LEMMA RestKeepsLogins ==
  ASSUME TypeOK, RestOfAccess
  PROVE  UNCHANGED login
BY DEF RestOfAccess, BootstrapOperatorFromEnv, ClockMoves, RequestStep, GetSession,
   CheckLifetime, GetOperator, Touch, Serve, CreateOperator, UpdateOperator, ForceLogout,
   Logout, Abort

-----------------------------------------------------------------------------
(* Every step is a step of OperatorAccess, or none. *)
LEMMA StepImplements ==
  ASSUME OAuthInv, [OAuthNext]_allVars
  PROVE  [Next]_vars
<1>1. ASSUME NEW l \in Logins, CallbackStep(l) PROVE [Next]_vars
  <2>1. CASE CallbackLookup(l)
    <3>1. callback[l].email \in Operators
      BY <2>1 DEF CallbackLookup, OAuthInv, Vouched
    <3>2. callback[l].provider \in Providers
      BY DEF OAuthInv, OAuthTypeOK, Callbacks
    <3>3. LoginStep(l)
      BY <2>1, <3>1, <3>2 DEF CallbackLookup, LoginStep
    <3> QED BY <3>3 DEF Next
  <2>2. ASSUME FailCallback(l) PROVE [Next]_vars
    BY <2>2 DEF FailCallback, LoginStep, Next
  <2>3. CASE FinishLogin(l)
    BY <2>3 DEF FinishLogin, Next
  <2> QED BY <1>1, <2>1, <2>2, <2>3 DEF CallbackStep, CallbackAccepted, CallbackRefused,
             CallbackIncomplete, ExchangeToken, FetchPrimaryVerifiedEmail, FetchUser,
             RequireOrgMembership, MicrosoftExchange, CallbackFails
<1>2. CASE RestOfAccess
  BY <1>2 DEF RestOfAccess, Next
<1>3. CASE UNCHANGED allVars
  BY <1>3 DEF allVars
<1> QED BY <1>1, <1>2, <1>3 DEF OAuthNext, StartLogin, Reap, EntriesAge, Restart

-----------------------------------------------------------------------------
(* The callback of l moves on: the others keep what they have. *)
LEMMA CallbackMoves ==
  ASSUME OAuthInv, TypeOK', NEW l \in Logins, NEW nc \in Callbacks, NEW na \in Attestation,
         callback' = [callback EXCEPT ![l] = nc],
         attested' = [attested EXCEPT ![l] = na],
         \A m \in Logins : m # l => login'[m] = login[m],
         UNCHANGED started,
         entries' \in [Handles -> Entry \cup {NoEntry}],
         \A h \in Handles : entries'[h] \in {entries[h], NoEntry},
         nc.flow # "none" => /\ nc.flow \in Flows /\ entries'[nc.flow] = NoEntry
                             /\ nc.query = nc.flow /\ nc.provider = started[nc.flow]
                             /\ nc.flow = callback[l].flow \/ entries[nc.flow] # NoEntry,
         Vouched(l)'
  PROVE  OAuthInv'
<1>1. OAuthTypeOK'
  BY DEF OAuthInv, OAuthTypeOK
<1>c. /\ callback'[l] = nc
      /\ \A m \in Logins : m # l => callback'[m] = callback[m] /\ attested'[m] = attested[m]
  BY DEF OAuthInv, OAuthTypeOK
<1>f. \A m \in Logins : callback[m].flow \in Handles \cup {"none"}
  BY DEF OAuthInv, OAuthTypeOK, Callbacks
<1>2. ASSUME NEW m \in Logins PROVE FlowSpent(m)'
  BY <1>c, <1>f DEF OAuthInv, FlowInv, FlowSpent, Flows
<1>3. FlowExchangedOnce'
  BY <1>c, <1>f DEF OAuthInv, FlowInv, FlowSpent, FlowExchangedOnce
<1>4. EntriesTrue'
  BY DEF OAuthInv, FlowInv, EntriesTrue
<1>5. ASSUME NEW m \in Logins PROVE Vouched(m)'
  BY <1>c DEF OAuthInv, Vouched
<1> QED BY <1>1, <1>2, <1>3, <1>4, <1>5 DEF OAuthInv, FlowInv

\* The flows change and no callback does.
LEMMA FlowsMove ==
  ASSUME OAuthInv, TypeOK', UNCHANGED <<login, callback, attested>>,
         entries' \in [Handles -> Entry \cup {NoEntry}],
         started' \in [Handles -> Providers \cup {"none"}],
         \A h \in Flows : started'[h] = started[h],
         EntriesTrue',
         \A h \in Flows : entries[h] = NoEntry => entries'[h] = NoEntry
  PROVE  OAuthInv'
<1>1. OAuthTypeOK'
  BY DEF OAuthInv, OAuthTypeOK
<1>2. FlowInv'
  BY DEF OAuthInv, FlowInv, FlowSpent, FlowExchangedOnce, Flows
<1>3. ASSUME NEW m \in Logins PROVE Vouched(m)'
  BY DEF OAuthInv, Vouched
<1> QED BY <1>1, <1>2, <1>3 DEF OAuthInv

-----------------------------------------------------------------------------
(* The inductive step. *)
LEMMA FlowsStep ==
  ASSUME OAuthInv, TypeOK',
         \/ \E h \in Handles, p \in Providers : StartLogin(h, p)
         \/ Reap \/ EntriesAge \/ Restart
  PROVE  OAuthInv'
<1>t. /\ entries \in [Handles -> Entry \cup {NoEntry}]
      /\ started \in [Handles -> Providers \cup {"none"}]
  BY DEF OAuthInv, OAuthTypeOK
<1>s. EntriesTrue
  BY DEF OAuthInv, FlowInv
<1>1. ASSUME NEW h \in Handles, NEW p \in Providers, StartLogin(h, p) PROVE OAuthInv'
  <2>1. /\ UNCHANGED <<login, callback, attested>>
        /\ entries' \in [Handles -> Entry \cup {NoEntry}]
        /\ started' \in [Handles -> Providers \cup {"none"}]
    BY <1>1, <1>t, EntryTypes DEF StartLogin, vars
  <2>2. \A g \in Handles : g # h => entries'[g] = entries[g] /\ started'[g] = started[g]
    BY <1>1, <1>t DEF StartLogin
  <2>3. started'[h] = p /\ entries'[h].provider = p /\ h \notin Flows
    BY <1>1, <1>t DEF StartLogin
  <2>4. EntriesTrue'
    BY <1>s, <2>2, <2>3 DEF EntriesTrue
  <2>5. \A g \in Flows : g \in Handles /\ g # h
    BY <2>3 DEF Flows
  <2> QED BY <2>1, <2>2, <2>4, <2>5, FlowsMove
<1>2. ASSUME Reap \/ Restart PROVE OAuthInv'
  <2>1. /\ UNCHANGED <<login, callback, attested, started>>
        /\ entries' \in [Handles -> Entry \cup {NoEntry}]
        /\ \A g \in Handles : entries'[g] \in {entries[g], NoEntry}
    BY <1>2, <1>t DEF Reap, Restart, vars
  <2> QED BY <1>t, <1>s, <2>1, FlowsMove DEF EntriesTrue, Flows
<1>3. ASSUME EntriesAge PROVE OAuthInv'
  <2>1. /\ UNCHANGED <<login, callback, attested, started>>
        /\ \A g \in Handles : entries[g] = NoEntry => entries'[g] = NoEntry
    BY <1>3, <1>t DEF EntriesAge, Live, vars
  <2>2. ASSUME NEW g \in Handles, Live(g)
        PROVE  LET e == [entries[g] EXCEPT !.age = entries[g].age + 1] IN
               e \in Entry /\ e.provider = entries[g].provider
    BY <2>2, <1>t DEF Live, Entry
  <2>3. entries' \in [Handles -> Entry \cup {NoEntry}]
    BY <1>3, <1>t, <2>2 DEF EntriesAge
  <2>4. EntriesTrue'
    BY <1>3, <1>t, <1>s, <2>1, <2>2 DEF EntriesAge, EntriesTrue
  <2> QED BY <1>t, <2>1, <2>3, <2>4, FlowsMove DEF Flows
<1> QED BY <1>1, <1>2, <1>3

\* The callback of l has ended, and its login, if it had begun, with it.
LEMMA CallbackOver ==
  ASSUME OAuthInv, TypeOK', NEW l \in Logins, FailCallback(l), callback[l].at # "done",
         UNCHANGED <<started, attested>>,
         entries' \in [Handles -> Entry \cup {NoEntry}],
         \A h \in Handles : entries'[h] \in {entries[h], NoEntry}
  PROVE  OAuthInv'
<1> DEFINE over == Over(l)
<1>t. callback[l] \in Callbacks /\ attested[l] \in Attestation /\ login[l] \in Login
  BY DEF OAuthInv, OAuthTypeOK, TypeOK
<1>a. attested' = [attested EXCEPT ![l] = attested[l]]
  BY DEF OAuthInv, OAuthTypeOK
<1>o. /\ over \in Callbacks /\ over.at = "done" /\ over.flow = callback[l].flow
      /\ over.query = callback[l].query /\ over.provider = callback[l].provider
  BY OverIs DEF OAuthInv
<1>l. /\ login'[l].at = "done"
      /\ \A m \in Logins : m # l => login'[m] = login[m]
  BY LoginEndsMoves DEF FailCallback, LoginFails, OAuthInv
<1>c. callback' = [callback EXCEPT ![l] = over] /\ callback'[l] = over
  BY DEF FailCallback, OAuthInv, OAuthTypeOK
<1>v. Vouched(l)'
  BY <1>c, <1>o, <1>l DEF Vouched
<1>f. over.flow # "none" =>
        /\ over.flow \in Flows /\ entries'[over.flow] = NoEntry
        /\ over.query = over.flow /\ over.provider = started[over.flow]
  BY <1>t, <1>o DEF OAuthInv, FlowInv, FlowSpent, Callbacks
<1> HIDE DEF over
<1> QED BY <1>t, <1>a, <1>o, <1>l, <1>c, <1>v, <1>f, CallbackMoves

\* The callback of l goes on talking to its provider.
LEMMA CallbackTalks ==
  ASSUME OAuthInv, TypeOK', NEW l \in Logins, NEW nc \in Callbacks, NEW na \in Attestation,
         callback' = [callback EXCEPT ![l] = nc],
         attested' = [attested EXCEPT ![l] = na],
         UNCHANGED <<login, flows>>,
         callback[l].at \notin {"new", "done"}, nc.flow = callback[l].flow,
         nc.query = callback[l].query, nc.provider = callback[l].provider,
         nc.at \in {"emails", "user", "membership", "lookup"},
         nc.at # "emails" => nc.email \in Operators /\ na.email = nc.email,
         nc.at = "lookup" => na.member = TRUE
  PROVE  OAuthInv'
<1>t. callback[l] \in Callbacks
  BY DEF OAuthInv, OAuthTypeOK
<1>1. callback'[l] = nc /\ attested'[l] = na
  BY DEF OAuthInv, OAuthTypeOK
<1>2. callback[l].flow # "none" /\ login[l].at = "new"
  BY DEF OAuthInv, Vouched
<1>3. Vouched(l)'
  BY <1>1, <1>2 DEF Vouched, flows
<1>4. /\ nc.flow \in Flows /\ entries'[nc.flow] = NoEntry
      /\ nc.query = nc.flow /\ nc.provider = started[nc.flow]
  BY <1>t, <1>2 DEF OAuthInv, FlowInv, FlowSpent, flows
<1>5. entries' \in [Handles -> Entry \cup {NoEntry}]
  BY DEF OAuthInv, OAuthTypeOK, flows
<1> QED BY <1>3, <1>4, <1>5, CallbackMoves DEF flows

LEMMA TalkingStep ==
  ASSUME OAuthInv, TypeOK', NEW l \in Logins,
         \/ ExchangeToken(l)
         \/ \E answer \in PrimaryEmail : FetchPrimaryVerifiedEmail(l, answer)
         \/ FetchUser(l)
         \/ \E answer \in Membership : RequireOrgMembership(l, answer)
         \/ \E c \in IdTokenClaims : MicrosoftExchange(l, c)
  PROVE  OAuthInv'
<1> DEFINE x == callback[l]
           y == attested[l]
<1>t. x \in Callbacks /\ y \in Attestation
  BY DEF OAuthInv, OAuthTypeOK
<1>v. Vouched(l)
  BY DEF OAuthInv
<1>y. attested = [attested EXCEPT ![l] = y]
  BY DEF OAuthInv, OAuthTypeOK
<1>c. callback = [callback EXCEPT ![l] = x]
  BY DEF OAuthInv, OAuthTypeOK
<1>1. ASSUME ExchangeToken(l) PROVE OAuthInv'
  <2> DEFINE nc == [x EXCEPT !.at = "emails"]
  <2>1. /\ nc \in Callbacks /\ nc.flow = x.flow /\ nc.at = "emails" /\ nc.query = x.query
        /\ nc.provider = x.provider
    BY <1>t DEF Callbacks
  <2>2. callback' = [callback EXCEPT ![l] = nc]
    BY <1>1 DEF ExchangeToken, CallbackAt
  <2>3. x.at = "token" /\ UNCHANGED <<login, flows, attested>>
    BY <1>1 DEF ExchangeToken, Talking, vars
  <2> HIDE DEF nc
  <2> QED BY <1>t, <1>y, <2>1, <2>2, <2>3, CallbackTalks
<1>2. ASSUME NEW answer \in PrimaryEmail, FetchPrimaryVerifiedEmail(l, answer)
      PROVE  OAuthInv'
  <2> DEFINE nc == [x EXCEPT !.at = "user", !.email = answer.email]
             na == [y EXCEPT !.email = answer.email]
  <2>0. answer.email \in Operators /\ answer.verified
    BY <1>2 DEF FetchPrimaryVerifiedEmail, PrimaryEmail, Person
  <2>1. /\ nc \in Callbacks /\ nc.flow = x.flow /\ nc.at = "user" /\ nc.query = x.query
        /\ nc.provider = x.provider
        /\ nc.email = answer.email
    BY <1>t, <2>0 DEF Callbacks, Person
  <2>2. na \in Attestation /\ na.email = answer.email
    BY <1>t, <2>0 DEF Attestation, Person
  <2>3. callback' = [callback EXCEPT ![l] = nc] /\ attested' = [attested EXCEPT ![l] = na]
    BY <1>2, <2>0 DEF FetchPrimaryVerifiedEmail
  <2>4. x.at = "emails" /\ UNCHANGED <<login, flows>>
    BY <1>2 DEF FetchPrimaryVerifiedEmail, Talking, vars
  <2> HIDE DEF nc, na
  <2> QED BY <2>0, <2>1, <2>2, <2>3, <2>4, CallbackTalks
<1>3. ASSUME FetchUser(l) PROVE OAuthInv'
  <2> DEFINE nc == [x EXCEPT !.at = "membership"]
  <2>1. /\ nc \in Callbacks /\ nc.flow = x.flow /\ nc.at = "membership" /\ nc.query = x.query
        /\ nc.provider = x.provider
        /\ nc.email = x.email
    BY <1>t DEF Callbacks
  <2>2. callback' = [callback EXCEPT ![l] = nc]
    BY <1>3 DEF FetchUser, CallbackAt
  <2>3. x.at = "user" /\ UNCHANGED <<login, flows, attested>>
    BY <1>3 DEF FetchUser, Talking, vars
  <2>4. x.email \in Operators /\ y.email = x.email
    BY <1>v, <2>3 DEF Vouched
  <2>5. attested' = [attested EXCEPT ![l] = y]
    BY <1>y, <2>3
  <2>6. x.at \notin {"new", "done"} /\ UNCHANGED <<login, flows>>
    BY <2>3
  <2> HIDE DEF nc
  <2> QED BY <1>t, <2>1, <2>2, <2>4, <2>5, <2>6, CallbackTalks
<1>4. ASSUME NEW answer \in Membership, RequireOrgMembership(l, answer) PROVE OAuthInv'
  <2> DEFINE nc == [x EXCEPT !.at = "lookup"]
             na == [y EXCEPT !.member = TRUE]
  <2>1. /\ nc \in Callbacks /\ nc.flow = x.flow /\ nc.at = "lookup" /\ nc.query = x.query
        /\ nc.provider = x.provider
        /\ nc.email = x.email
    BY <1>t DEF Callbacks
  <2>2. na \in Attestation /\ na.email = y.email /\ na.member = TRUE
    BY <1>t DEF Attestation
  <2>3. callback' = [callback EXCEPT ![l] = nc] /\ attested' = [attested EXCEPT ![l] = na]
    BY <1>4 DEF RequireOrgMembership, CallbackAt
  <2>4. x.at = "membership" /\ UNCHANGED <<login, flows>>
    BY <1>4 DEF RequireOrgMembership, Talking, vars
  <2>5. x.email \in Operators /\ y.email = x.email
    BY <1>v, <2>4 DEF Vouched
  <2> HIDE DEF nc, na
  <2> QED BY <2>1, <2>2, <2>3, <2>4, <2>5, CallbackTalks
<1>5. ASSUME NEW c \in IdTokenClaims, MicrosoftExchange(l, c) PROVE OAuthInv'
  <2> DEFINE e == ClaimedEmail(c)
             nc == [x EXCEPT !.at = "lookup", !.email = e]
             na == [email |-> e, member |-> TRUE]
  <2>0. e \in Operators
    BY <1>5 DEF MicrosoftExchange, ClaimedEmail, IdTokenClaims, Person
  <2>6. c.tid = "ours" /\ c.aud = "ours" /\ c.email_verified # "false"
    BY <1>5 DEF MicrosoftExchange, ValidateClaims
  <2>3. callback' = [callback EXCEPT ![l] = nc] /\ attested' = [attested EXCEPT ![l] = na]
    BY <1>5, <2>6 DEF MicrosoftExchange
  <2> HIDE DEF e
  <2>1. /\ nc \in Callbacks /\ nc.flow = x.flow /\ nc.at = "lookup" /\ nc.query = x.query
        /\ nc.provider = x.provider
        /\ nc.email = e
    BY <1>t, <2>0 DEF Callbacks, Person
  <2>2. na \in Attestation /\ na.email = e /\ na.member = TRUE
    BY <2>0 DEF Attestation, Person
  <2>4. x.at = "token" /\ UNCHANGED <<login, flows>>
    BY <1>5 DEF MicrosoftExchange, Talking, vars
  <2> HIDE DEF nc, na
  <2> QED BY <2>0, <2>1, <2>2, <2>3, <2>4, CallbackTalks
<1> QED BY <1>1, <1>2, <1>3, <1>4, <1>5

LEMMA CallbackEnds ==
  ASSUME OAuthInv, TypeOK', NEW l \in Logins,
         \/ \E p \in Providers \cup {"unknown"}, cookie, query \in Flows :
              CallbackRefused(l, p, cookie, query)
         \/ CallbackIncomplete(l)
         \/ CallbackFails(l)
  PROVE  OAuthInv'
<1>t. entries \in [Handles -> Entry \cup {NoEntry}]
  BY DEF OAuthInv, OAuthTypeOK
<1>1. FailCallback(l) /\ callback[l].at # "done" /\ UNCHANGED <<started, attested>>
  BY DEF CallbackRefused, CallbackIncomplete, CallbackFails, flows
<1>2. /\ entries' \in [Handles -> Entry \cup {NoEntry}]
      /\ \A h \in Handles : entries'[h] \in {entries[h], NoEntry}
  BY <1>t DEF CallbackRefused, CallbackIncomplete, CallbackFails, flows, Consume
<1> QED BY <1>1, <1>2, CallbackOver

LEMMA CallbackBegins ==
  ASSUME OAuthInv, TypeOK', NEW l \in Logins, NEW p \in Providers,
         NEW cookie \in Flows, NEW query \in Flows, CallbackAccepted(l, p, cookie, query)
  PROVE  OAuthInv'
<1> DEFINE x == callback[l]
           nc == [x EXCEPT !.at = "token", !.flow = cookie, !.query = query, !.provider = p]
<1>t. /\ x \in Callbacks /\ attested[l] \in Attestation
      /\ entries \in [Handles -> Entry \cup {NoEntry}]
      /\ cookie \in Handles /\ query \in Handles
  BY DEF OAuthInv, OAuthTypeOK, Flows
<1>1. /\ nc \in Callbacks /\ nc.at = "token"
      /\ nc.flow = cookie /\ nc.query = query /\ nc.provider = p
  BY <1>t DEF Callbacks
<1>2. callback' = [callback EXCEPT ![l] = nc] /\ callback'[l] = nc
  BY DEF CallbackAccepted, OAuthInv, OAuthTypeOK
<1>3. /\ login[l].at = "new" /\ UNCHANGED <<login, started, attested>>
      /\ entries[cookie] # NoEntry /\ query = cookie /\ entries[cookie].provider = p
  BY DEF CallbackAccepted, Accepts, Live, vars
<1>s. started[cookie] = p
  BY <1>t, <1>3 DEF OAuthInv, FlowInv, EntriesTrue
<1>4. attested' = [attested EXCEPT ![l] = attested[l]]
  BY <1>3 DEF OAuthInv, OAuthTypeOK
<1>5. /\ entries' \in [Handles -> Entry \cup {NoEntry}] /\ entries'[cookie] = NoEntry
      /\ \A h \in Handles : entries'[h] \in {entries[h], NoEntry}
  BY <1>t DEF CallbackAccepted, Consume
<1>6. cookie # "none"
  BY <1>t
<1> HIDE DEF nc
<1>7. Vouched(l)'
  BY <1>1, <1>2, <1>3, <1>6 DEF Vouched
<1> QED BY <1>t, <1>1, <1>2, <1>3, <1>s, <1>4, <1>5, <1>7, CallbackMoves

LEMMA LoginBegins ==
  ASSUME OAuthInv, TypeOK', NEW l \in Logins, CallbackLookup(l)
  PROVE  OAuthInv'
<1> DEFINE x == callback[l]
           over == Over(l)
<1>t. /\ x \in Callbacks /\ attested[l] \in Attestation /\ login[l] \in Login
      /\ entries \in [Handles -> Entry \cup {NoEntry}]
  BY DEF OAuthInv, OAuthTypeOK, TypeOK
<1>1. /\ over \in Callbacks /\ over.at = "done" /\ over.flow = x.flow
      /\ over.query = x.query /\ over.provider = x.provider
  BY OverIs DEF OAuthInv
<1>2. callback' = [callback EXCEPT ![l] = over] /\ callback'[l] = over
  BY DEF CallbackLookup, OAuthInv, OAuthTypeOK
<1>3. UNCHANGED <<entries, started, attested>>
  BY DEF CallbackLookup, flows
<1>4. attested' = [attested EXCEPT ![l] = attested[l]]
  BY <1>3 DEF OAuthInv, OAuthTypeOK
<1>5. /\ login'[l] = [login[l] EXCEPT !.at = "create", !.operator = x.email,
                                      !.provider = x.provider]
      /\ \A m \in Logins : m # l => login'[m] = login[m]
  BY DEF CallbackLookup, LookupOperator, OAuthInv, TypeOK
<1>6. /\ login'[l].at = "create" /\ login'[l].operator = x.email
      /\ login'[l].provider = x.provider
  BY <1>t, <1>5 DEF Login
<1>7. attested[l].email = x.email /\ attested[l].member = TRUE /\ x.flow # "none"
  BY DEF CallbackLookup, OAuthInv, Vouched
<1>8. Vouched(l)'
  BY <1>1, <1>2, <1>3, <1>6, <1>7 DEF Vouched
<1>9. /\ over.flow \in Flows /\ entries'[over.flow] = NoEntry
      /\ over.query = over.flow /\ over.provider = started[over.flow]
      /\ over.flow = callback[l].flow
  BY <1>1, <1>3, <1>7 DEF OAuthInv, FlowInv, FlowSpent
<1>10. /\ entries' \in [Handles -> Entry \cup {NoEntry}]
       /\ \A h \in Handles : entries'[h] \in {entries[h], NoEntry}
  BY <1>t, <1>3
<1> HIDE DEF over, x
<1> QED BY <1>t, <1>1, <1>2, <1>3, <1>4, <1>5, <1>8, <1>9, <1>10, CallbackMoves

LEMMA LoginFinishes ==
  ASSUME OAuthInv, TypeOK', NEW l \in Logins, FinishLogin(l)
  PROVE  OAuthInv'
<1>t. /\ callback[l] \in Callbacks /\ attested[l] \in Attestation
      /\ entries \in [Handles -> Entry \cup {NoEntry}]
  BY DEF OAuthInv, OAuthTypeOK
<1>1. UNCHANGED <<entries, started, callback, attested>>
  BY DEF FinishLogin, oauthVars
<1>2. /\ callback' = [callback EXCEPT ![l] = callback[l]]
      /\ attested' = [attested EXCEPT ![l] = attested[l]]
  BY <1>1 DEF OAuthInv, OAuthTypeOK
<1>3. /\ \A m \in Logins : m # l => login'[m] = login[m]
      /\ login'[l].at # "new"
      /\ login'[l].at \in {"create", "lastlogin", "provider"} =>
           /\ login[l].at \in {"create", "lastlogin", "provider"}
           /\ login'[l].operator = login[l].operator
           /\ login'[l].provider = login[l].provider
  BY LoginGoesOn DEF FinishLogin, OAuthInv
<1>4. login[l].at # "new"
  BY DEF FinishLogin
<1>5. Vouched(l)'
  BY <1>1, <1>3, <1>4 DEF OAuthInv, Vouched
<1>6. callback[l].flow # "none" =>
        /\ callback[l].flow \in Flows /\ entries'[callback[l].flow] = NoEntry
        /\ callback[l].query = callback[l].flow
        /\ callback[l].provider = started[callback[l].flow]
  BY <1>1 DEF OAuthInv, FlowInv, FlowSpent
<1> QED BY <1>t, <1>1, <1>2, <1>3, <1>5, <1>6, CallbackMoves

LEMMA OAuthStep == OAuthInv /\ [OAuthNext]_allVars => OAuthInv'
<1> SUFFICES ASSUME OAuthInv, [OAuthNext]_allVars PROVE OAuthInv'
  OBVIOUS
<1>0. TypeOK'
  BY StepImplements, TypeStep DEF OAuthInv
<1>1. ASSUME NEW l \in Logins, CallbackStep(l) PROVE OAuthInv'
  BY <1>0, <1>1, CallbackBegins, CallbackEnds, TalkingStep, LoginBegins, LoginFinishes
     DEF CallbackStep
<1>2. ASSUME UNCHANGED <<login, oauthVars>> PROVE OAuthInv'
  <2>1. UNCHANGED <<login, callback, attested, entries, started>>
    BY <1>2 DEF oauthVars
  <2> QED BY <1>0, <2>1, FlowsMove DEF OAuthInv, OAuthTypeOK, FlowInv, EntriesTrue, Flows
<1>3. CASE RestOfAccess
  BY <1>2, <1>3, RestKeepsLogins DEF OAuthInv, RestOfAccess
<1>4. CASE UNCHANGED allVars
  BY <1>2, <1>4 DEF allVars, vars
<1> QED BY <1>0, <1>1, <1>3, <1>4, FlowsStep DEF OAuthNext

LEMMA OAuthInvariant == OAuthSpec => []OAuthInv
BY OAuthInitSound, OAuthStep, PTL DEF OAuthSpec

-----------------------------------------------------------------------------
(***************************************************************************)
(* The theorems                                                            *)
(***************************************************************************)

\* The state store, the flows and the callbacks keep their types.
THEOREM OAuthTypeCorrect == OAuthSpec => []OAuthTypeOK
<1>1. OAuthInv => OAuthTypeOK
  BY DEF OAuthInv
<1> QED BY <1>1, OAuthInvariant, PTL

\* However many callbacks carry the cookie of a flow, at most one of them gets
\* past Consume.
THEOREM FlowsExchangedOnce == OAuthSpec => []FlowExchangedOnce
<1>1. OAuthInv => FlowExchangedOnce
  BY DEF OAuthInv, FlowInv
<1> QED BY <1>1, OAuthInvariant, PTL

\* A callback past the comparison of state and provider, and the login it
\* ends in, belongs to one flow: the one its browser started, whose redirect
\* it came from, at the provider the browser was sent to.
THEOREM FlowsNotMixed == OAuthSpec => []OneFlowPerLogin
<1>1. OAuthInv => OneFlowPerLogin
  BY DEF OAuthInv, FlowInv, FlowSpent, Vouched, OneFlowPerLogin
<1> QED BY <1>1, OAuthInvariant, PTL

\* A login goes on only for the operator whose verified email and membership
\* the provider vouched for during that callback.
THEOREM LoginSound == OAuthSpec => []LoggedInForCause
<1>1. ASSUME OAuthInv PROVE LoggedInForCause
  <2> SUFFICES ASSUME NEW l \in Logins, login[l].at \in {"create", "lastlogin", "provider"}
               PROVE  attested[l] = [email |-> login[l].operator, member |-> TRUE]
    BY DEF LoggedInForCause
  <2>1. attested[l] \in Attestation
    BY <1>1 DEF OAuthInv, OAuthTypeOK
  <2>2. attested[l].email = login[l].operator /\ attested[l].member = TRUE
    BY <1>1 DEF OAuthInv, Vouched
  <2> QED BY <2>1, <2>2 DEF Attestation
<1> QED BY <1>1, OAuthInvariant, PTL

\* The callbacks of handler/auth.go with the state store and the providers in
\* front of them implement OperatorAccess: what is proved of that
\* specification holds of them.
THEOREM LoginRefinement == OAuthSpec => ImplementsOperatorAccess
<1>1. OAuthInit => Init
  BY DEF OAuthInit
<1>2. OAuthInv /\ [OAuthNext]_allVars => [Next]_vars
  BY StepImplements
<1> QED BY <1>1, <1>2, OAuthInvariant, PTL DEF OAuthSpec, ImplementsOperatorAccess, Spec

\* With the logins of handler/auth.go in place of the abstract ones: an active
\* admin remains, the middleware admits for cause and within both lifetimes, a
\* disabled operator keeps no session but the ones accounted for, sessions end
\* for good, and logins keep what they record.
THEOREM AccessSafeWithLogins ==
  OAuthSpec => /\ []AtLeastOneAdmin
               /\ []AdmittedForCause
               /\ []IdleWindow
               /\ []WithinLifetime
               /\ []DisabledAreLoggedOut
               /\ SessionsEndForGood
               /\ LoginRecordsKeep
<1>1. OAuthSpec => Spec
  BY LoginRefinement DEF ImplementsOperatorAccess
<1> QED BY <1>1, NoLockout, AdmissionSound, IdleWindowHolds, LifetimeHolds,
           DisabledLoggedOut, SessionsEnd, LoginRecords, PTL
=============================================================================
