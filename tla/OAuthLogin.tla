----------------------------- MODULE OAuthLogin -----------------------------
(***************************************************************************)
(* How a login comes to the operator lookup that OperatorAccess starts     *)
(* from: the store of started flows (auth/internal/auth/state.go), the     *)
(* Login and Callback handlers (auth/internal/handler/auth.go) and the two *)
(* provider clients (auth/internal/auth/github, /microsoft).  It extends   *)
(* OperatorAccess: a callback that has an identity goes on with the        *)
(* actions of that module.                                                 *)
(*                                                                         *)
(* The state value of a flow is random, like its handle, and goes by the   *)
(* name of the handle; so does the code a provider sends back with it,     *)
(* which stands for the person who authorised that flow.  That a provider  *)
(* redeems a code for the PKCE verifier of its own flow only is no part of *)
(* the model: nothing here relies on it.  The clock of the state store is  *)
(* the monotonic one, so entries have an age of their own, whatever        *)
(* happens to `now`.                                                       *)
(***************************************************************************)
EXTENDS OperatorAccess

CONSTANTS
  Handles,           \* handles of flows, generated at random and never reused
  StateTTL

ASSUME OAuthConstants ==
  /\ "none" \notin Handles \cup Operators
  /\ "unknown" \notin Providers
  /\ Providers \subseteq {"github", "microsoft"}
  /\ StateTTL \in Nat

VARIABLES
  entries,           \* the state store: handle -> entry, NoEntry without one
  started,           \* the provider the browser of each flow was sent to,
                     \* "none" while the handle has not been given out
  callback,          \* the state of every callback up to the operator lookup
  attested           \* history: what the provider has told a callback

flows == <<entries, started>>
oauthVars == <<entries, started, callback, attested>>

NoEntry == [provider |-> "none"]
Entry   == [provider : Providers, age : 0 .. StateTTL + 1]

Flows == {h \in Handles : started[h] # "none"}

Person == Operators \cup {"none"}

\* What GitHub may answer about the person: the primary email with its
\* verified flag, and the membership of the allowed organisation.  Both may
\* change between two calls, so every call has an answer of its own.
PrimaryEmail == [email : Person, verified : BOOLEAN]
Membership   == {"active", "pending", "none"}

\* `flow` is the flow whose entry the callback consumed and accepted, the one
\* of its browser; `query` the flow its state and its code are from.
Callbacks == [at : {"new", "token", "emails", "user", "membership", "lookup", "done"},
              flow : Handles \cup {"none"}, query : Handles \cup {"none"},
              provider : Providers, email : Person]

NewCallback == [at |-> "new", flow |-> "none", query |-> "none",
                provider |-> AnyProvider, email |-> "none"]

Attestation == [email : Person, member : BOOLEAN]

OAuthTypeOK ==
  /\ entries \in [Handles -> Entry \cup {NoEntry}]
  /\ started \in [Handles -> Providers \cup {"none"}]
  /\ callback \in [Logins -> Callbacks]
  /\ attested \in [Logins -> Attestation]

OAuthInit ==
  /\ Init
  /\ entries = [h \in Handles |-> NoEntry]
  /\ started = [h \in Handles |-> "none"]
  /\ callback = [l \in Logins |-> NewCallback]
  /\ attested = [l \in Logins |-> [email |-> "none", member |-> FALSE]]

-----------------------------------------------------------------------------
(***************************************************************************)
(* auth/state.go                                                           *)
(***************************************************************************)

\* Wrong variant: an entry stays until the reaper finds it.
ConsumeKeeps(h) == UNCHANGED entries

\* Consume removes the entry, whether or not it then finds it too old.
Consume(h) == entries' = [entries EXCEPT ![h] = NoEntry]

\* Consume's answer, and what the reaper leaves alone.
Live(h) == entries[h] # NoEntry /\ entries[h].age <= StateTTL

\* Wrong variant: the cutoff is one tick out of reach.
ReapTooLate ==
  /\ \E h \in Handles : entries[h] # NoEntry /\ entries[h].age > StateTTL + 1
  /\ entries' = [h \in Handles |-> NoEntry]
  /\ UNCHANGED <<vars, started, callback, attested>>

\* A tick of the reaper.
Reap ==
  /\ \E h \in Handles : entries[h] # NoEntry /\ ~Live(h)
  /\ entries' = [h \in Handles |-> IF Live(h) THEN entries[h] ELSE NoEntry]
  /\ UNCHANGED <<vars, started, callback, attested>>

\* Time goes on.  Past StateTTL one age is like another.
EntriesAge ==
  /\ \E h \in Handles : Live(h)
  /\ entries' = [h \in Handles |->
       IF Live(h) THEN [entries[h] EXCEPT !.age = entries[h].age + 1] ELSE entries[h]]
  /\ UNCHANGED <<vars, started, callback, attested>>

-----------------------------------------------------------------------------
(***************************************************************************)
(* handler/auth.go Login, and Callback up to the exchange                  *)
(***************************************************************************)
\* Wrong variant: Put does not stamp the entry, which is born too old.
StartLoginUnstamped(h, p) ==
  /\ h \notin Flows
  /\ entries' = [entries EXCEPT ![h] = [provider |-> p, age |-> StateTTL + 2]]
  /\ started' = [started EXCEPT ![h] = p]
  /\ UNCHANGED <<vars, callback, attested>>

StartLogin(h, p) ==
  /\ h \notin Flows
  /\ entries' = [entries EXCEPT ![h] = [provider |-> p, age |-> 0]]
  /\ started' = [started EXCEPT ![h] = p]
  /\ UNCHANGED <<vars, callback, attested>>

CallbackAt(l, point) == callback' = [callback EXCEPT ![l] = [@ EXCEPT !.at = point]]

\* The callback as such has ended; its login may go on.
Over(l) == [callback[l] EXCEPT !.at = "done", !.email = "none"]

\* failCallback, or the process stops.
FailCallback(l) ==
  /\ LoginFails(l)
  /\ callback' = [callback EXCEPT ![l] = Over(l)]

\* Wrong variant: the state of the query is not compared with the entry's.
AcceptsAnyState(p, cookie, query) ==
  /\ Live(cookie)
  /\ entries[cookie].provider = p

\* Consume finds the entry, and the state of the query and the provider of the
\* path match it.
Accepts(p, cookie, query) ==
  /\ Live(cookie)
  /\ query = cookie
  /\ entries[cookie].provider = p

\* A callback arrives: on the path of any provider, with the cookie of any flow
\* (the browser has one cookie for all its flows, and follows whatever link it
\* is given), and with the state and the code of any flow.  It goes on to the
\* exchange,
CallbackAccepted(l, p, cookie, query) ==
  /\ callback[l].at = "new" /\ login[l].at = "new"
  /\ Accepts(p, cookie, query)
  /\ Consume(cookie)
  /\ callback' = [callback EXCEPT ![l] = [@ EXCEPT !.at = "token", !.flow = cookie,
                                                   !.query = query, !.provider = p]]
  /\ UNCHANGED <<vars, started, attested>>

\* or it is refused, but its cookie's entry is consumed all the same,
CallbackRefused(l, p, cookie, query) ==
  /\ callback[l].at = "new" /\ login[l].at = "new"
  /\ ~Accepts(p, cookie, query)
  /\ Consume(cookie)
  /\ FailCallback(l)
  /\ UNCHANGED <<started, attested>>

\* or a query parameter or the cookie is missing.
CallbackIncomplete(l) ==
  /\ callback[l].at = "new" /\ login[l].at = "new"
  /\ FailCallback(l)
  /\ UNCHANGED <<flows, attested>>

-----------------------------------------------------------------------------
(***************************************************************************)
(* github/provider.go Exchange                                             *)
(***************************************************************************)
Talking(l, p, point) == callback[l].at = point /\ callback[l].provider = p

\* The code and the verifier are exchanged for a token.
ExchangeToken(l) ==
  /\ Talking(l, "github", "token")
  /\ CallbackAt(l, "emails")
  /\ UNCHANGED <<vars, flows, attested>>

\* Wrong variant: the primary email need not be verified.
FetchPrimaryEmail(l, answer) ==
  /\ Talking(l, "github", "emails")
  /\ answer.email # "none"
  /\ callback' = [callback EXCEPT ![l] = [@ EXCEPT !.at = "user", !.email = answer.email]]
  /\ attested' = [attested EXCEPT ![l] =
       [@ EXCEPT !.email = IF answer.verified THEN answer.email ELSE "none"]]
  /\ UNCHANGED <<vars, flows>>

FetchPrimaryVerifiedEmail(l, answer) ==
  /\ Talking(l, "github", "emails")
  /\ answer.email # "none" /\ answer.verified
  /\ callback' = [callback EXCEPT ![l] = [@ EXCEPT !.at = "user", !.email = answer.email]]
  /\ attested' = [attested EXCEPT ![l] =
       [@ EXCEPT !.email = IF answer.verified THEN answer.email ELSE "none"]]
  /\ UNCHANGED <<vars, flows>>

\* fetchUser asks for the login name, which only ends up in the record of the
\* login.
FetchUser(l) ==
  /\ Talking(l, "github", "user")
  /\ CallbackAt(l, "membership")
  /\ UNCHANGED <<vars, flows, attested>>

\* An invitation that is pending is not a membership.
RequireOrgMembership(l, answer) ==
  /\ Talking(l, "github", "membership")
  /\ answer = "active"
  /\ CallbackAt(l, "lookup")
  /\ attested' = [attested EXCEPT ![l] = [@ EXCEPT !.member = (answer = "active")]]
  /\ UNCHANGED <<vars, flows>>

-----------------------------------------------------------------------------
(***************************************************************************)
(* microsoft/provider.go Exchange                                          *)
(***************************************************************************)

\* The claims of an id_token; a time that is absent is 0.
IdTokenClaims == [tid : {"ours", "other", "none"}, aud : {"ours", "other"},
                  iss : {"ours", "other"}, exp : -1 .. MaxTime, nbf : -1 .. MaxTime,
                  email : Person, preferred_username : Person,
                  email_verified : {"absent", "true", "false"}]

\* validateClaims; which check fails shows in the log only.
ValidateClaims(c) ==
  /\ c.tid = "ours" /\ c.aud = "ours" /\ c.iss = "ours"
  /\ c.exp > 0 /\ now <= c.exp
  /\ c.nbf >= 0 /\ (c.nbf > 0 => now >= c.nbf)

ClaimedEmail(c) == IF c.email # "none" THEN c.email ELSE c.preferred_username

\* One answer of the authority carries everything: the checks are local.
MicrosoftExchange(l, c) ==
  /\ Talking(l, "microsoft", "token")
  /\ ValidateClaims(c)
  /\ ClaimedEmail(c) # "none" /\ c.email_verified # "false"
  /\ callback' = [callback EXCEPT ![l] = [@ EXCEPT !.at = "lookup",
                                                   !.email = ClaimedEmail(c)]]
  /\ attested' = [attested EXCEPT ![l] =
       [email |-> IF c.email_verified = "false" THEN "none" ELSE ClaimedEmail(c),
        member |-> c.tid = "ours" /\ c.aud = "ours"]]
  /\ UNCHANGED <<vars, flows>>

-----------------------------------------------------------------------------
\* Wrong variant: an operator who is not active is let in.
LookupAnyStatus(l) ==
  LET o == callback[l].email IN
  /\ callback[l].at = "lookup"
  /\ operators[o].status # "absent"
  /\ login' = [login EXCEPT ![l] = [@ EXCEPT !.at = "create", !.operator = o,
                                             !.provider = callback[l].provider]]
  /\ UNCHANGED <<tables, req, now, issued, activity, late, spared>>
  /\ Witness
  /\ callback' = [callback EXCEPT ![l] = Over(l)]
  /\ UNCHANGED <<flows, attested>>

\* GetOperatorByEmail with the email the provider vouched for.
CallbackLookup(l) ==
  /\ callback[l].at = "lookup"
  /\ LookupOperator(l, callback[l].email, callback[l].provider)
  /\ callback' = [callback EXCEPT ![l] = Over(l)]
  /\ UNCHANGED <<flows, attested>>

\* The provider or the lookup refuses, a call fails or runs into the client's
\* timeout, or the browser goes away.
CallbackFails(l) ==
  /\ callback[l].at \notin {"new", "done"}
  /\ FailCallback(l)
  /\ UNCHANGED <<flows, attested>>

\* The rest of the callback is OperatorAccess's.
FinishLogin(l) ==
  /\ login[l].at # "new"
  /\ LoginStep(l)
  /\ UNCHANGED oauthVars

\* The state store lives in the memory of the process.  Callbacks under way
\* end with it, before this step.
Restart ==
  /\ \A l \in Logins : callback[l].at \in {"new", "done"} /\ login[l].at \in {"new", "done"}
  /\ \E h \in Handles : entries[h] # NoEntry
  /\ entries' = [h \in Handles |-> NoEntry]
  /\ UNCHANGED <<vars, started, callback, attested>>

RestOfAccess ==
  /\ \/ \E o \in Operators : BootstrapOperatorFromEnv(o)
     \/ \E r \in Requests : RequestStep(r)
     \/ ClockMoves
  /\ UNCHANGED oauthVars

CallbackStep(l) ==
  \/ \E p \in Providers, cookie, query \in Flows : CallbackAccepted(l, p, cookie, query)
  \/ \E p \in Providers \cup {"unknown"}, cookie, query \in Flows :
       CallbackRefused(l, p, cookie, query)
  \/ CallbackIncomplete(l)
  \/ ExchangeToken(l)
  \/ \E answer \in PrimaryEmail : FetchPrimaryVerifiedEmail(l, answer)
  \/ FetchUser(l)
  \/ \E answer \in Membership : RequireOrgMembership(l, answer)
  \/ /\ Talking(l, "microsoft", "token")
     /\ \E c \in IdTokenClaims : MicrosoftExchange(l, c)
  \/ CallbackLookup(l)
  \/ CallbackFails(l)
  \/ FinishLogin(l)

OAuthNext ==
  \/ \E h \in Handles, p \in Providers : StartLogin(h, p)
  \/ \E l \in Logins : CallbackStep(l)
  \/ Reap
  \/ EntriesAge
  \/ Restart
  \/ RestOfAccess

allVars == <<vars, oauthVars>>

OAuthSpec == OAuthInit /\ [][OAuthNext]_allVars

\* Time does not stop, and the reaper's ticker fires every five minutes for as
\* long as the service runs.
OAuthFairness == WF_allVars(EntriesAge) /\ WF_allVars(Reap)

OAuthFairSpec == OAuthSpec /\ OAuthFairness

-----------------------------------------------------------------------------
(***************************************************************************)
(* Properties                                                              *)
(***************************************************************************)

\* A started flow is good for one exchange: of all callbacks that carry its
\* cookie, reloads and duplicates included, at most one gets past Consume,
\* whatever the reaper and restarts do in between.
FlowExchangedOnce ==
  \A l, m \in Logins :
    l # m /\ callback[l].flow # "none" => callback[l].flow # callback[m].flow

\* Whoever is logged in authorised the very flow that this browser started,
\* at the provider it was sent to: the redirect of one flow never ends in a
\* session for the browser of another, and the code of one provider is never
\* taken to another.  This is what the comparison of state and provider with
\* the consumed entry is for; callbacks come with any mixture of path, cookie
\* and query, and flows are reaped and started in between.
OneFlowPerLogin ==
  \A l \in Logins :
    callback[l].at \notin {"new", "done"} \/ login[l].at \in {"create", "lastlogin", "provider"} =>
      /\ callback[l].flow \in Flows
      /\ callback[l].query = callback[l].flow
      /\ started[callback[l].flow] =
           IF login[l].at = "new" THEN callback[l].provider ELSE login[l].provider

\* An operator is logged in for cause: during the callback the provider vouched
\* for the operator's own email as verified and for the membership.  At GitHub
\* these are answers of different calls.
LoggedInForCause ==
  \A l \in Logins : login[l].at \in {"create", "lastlogin", "provider"} =>
    attested[l] = [email |-> login[l].operator, member |-> TRUE]

\* With the flows and the providers in front of it, access is still what
\* OperatorAccess says: the handlers add conditions and no step of their own.
ImplementsOperatorAccess == Spec

\* Nothing stays in the state store for good: an abandoned flow goes, and so
\* does one whose callback failed before it came to Consume.
EntriesGo ==
  \A h \in Handles : entries[h] # NoEntry ~> entries[h] = NoEntry
=============================================================================
