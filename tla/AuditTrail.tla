----------------------------- MODULE AuditTrail -----------------------------
(***************************************************************************)
(* The audit log as the handlers of the subscriber tables fill it          *)
(* (auth/internal/audit, auth/internal/store/audit.go): once a request has *)
(* committed its write, and before it answers, it inserts a row that names *)
(* what it did.  The insert is fire and forget.  It runs on the context of *)
(* the request, so it fails when the client has gone, as well as when the  *)
(* store is in trouble, and a process that stops between the two never     *)
(* comes to it.                                                            *)
(*                                                                         *)
(* This extends SubscriberApi: its steps are taken together with what they *)
(* mean for the log.                                                       *)
(***************************************************************************)
EXTENDS SubscriberApi

VARIABLES
  audit,        \* the row of every request, and what has become of it
  reopened,     \* history: accounts a PATCH took back out of "deleted"
  unrecorded    \* history: keys revoked before the service started, or by
                \* components.Delete, which writes no row

auditVars == <<audit, reopened, unrecorded>>
trailVars == <<vars, auditVars>>

Actions == {"account.create", "account.update", "account.suspend",
            "account.reactivate", "account.delete", "key.issue", "key.revoke"}

\* A row is owed after the commit; then it is in the log or lost.  One that is
\* "none" carries the name the pre-flight has chosen.
AuditRow == [is : {"none", "owed", "written", "lost"},
             action : Actions, target : Accounts \cup Keys]

AuditTypeOK ==
  /\ TypeOK
  /\ audit \in [Requests -> AuditRow]
  /\ reopened \in SUBSET Accounts
  /\ unrecorded \in SUBSET Keys

AuditInit ==
  /\ Init
  /\ audit = [q \in Requests |-> [is |-> "none", action |-> "account.update",
                                  target |-> AnyAccount]]
  /\ reopened = {}
  /\ unrecorded = {k \in Keys : keys[k] # NoKey /\ ~keys[k].active}

-----------------------------------------------------------------------------
(***************************************************************************)
(* The name of the row                                                     *)
(***************************************************************************)

\* accounts.Update compares the status asked for with the one it has read.
NameOf(from, to) ==
  CASE from = "active" /\ to = "suspended" -> "account.suspend"
    [] from = "suspended" /\ to = "active" -> "account.reactivate"
    [] OTHER -> "account.update"

Owes(q, action, target) ==
  audit' = [audit EXCEPT ![q] = [is |-> "owed", action |-> action, target |-> target]]

-----------------------------------------------------------------------------
(***************************************************************************)
(* The handlers, with their rows                                           *)
(***************************************************************************)
AuditCreateAccount(q, a) ==
  /\ CreateAccountRequest(q, a)
  /\ Owes(q, "account.create", a)
  /\ UNCHANGED <<reopened, unrecorded>>

AuditPreflight(q, a, status) ==
  /\ PreflightUpdate(q, a, status)
  /\ audit' = [audit EXCEPT ![q] = [is |-> "none", action |-> NameOf(accounts[a], status),
                                    target |-> a]]
  /\ UNCHANGED <<reopened, unrecorded>>

AuditPatch(q) ==
  LET a == req[q].account IN
  /\ PatchAccount(q)
  /\ \/ /\ UpdateAccountAllowed(a, req[q].status)
        /\ Owes(q, audit[q].action, a)
     \/ /\ ~UpdateAccountAllowed(a, req[q].status)
        /\ UNCHANGED audit
  /\ reopened' = reopened \cup
       {b \in Accounts : accounts[b] = "deleted" /\ accounts'[b] # "deleted"}
  /\ UNCHANGED unrecorded

\* Wrong variant: a DELETE that came second is recorded like the first.
AuditDeleteAnyway(q) ==
  /\ DeleteAccount(q)
  /\ Owes(q, "account.delete", req[q].account)
  /\ UNCHANGED <<reopened, unrecorded>>

AuditDelete(q) ==
  LET a == req[q].account IN
  /\ DeleteAccount(q)
  /\ IF DeleteAccountAllowed(a) THEN Owes(q, "account.delete", a) ELSE UNCHANGED audit
  /\ UNCHANGED <<reopened, unrecorded>>

AuditIssue(q, k, expiry) ==
  /\ IssueInsert(q, k, expiry)
  /\ Owes(q, "key.issue", k)
  /\ UNCHANGED <<reopened, unrecorded>>

\* Wrong variant: only the deletion of an account is worth a row.
AuditRevokeNot(q, k) ==
  /\ RevokeKeyRequest(q, k)
  /\ UNCHANGED auditVars

\* A second revoke of a key is recorded too: the UPDATE matches its row.
AuditRevoke(q, k) ==
  /\ RevokeKeyRequest(q, k)
  /\ Owes(q, "key.revoke", k)
  /\ UNCHANGED <<reopened, unrecorded>>

\* components.go writes no rows.
AuditComponents(q) ==
  /\ ComponentStep(q)
  /\ unrecorded' = unrecorded \cup
       {k \in Keys : keys[k] # NoKey /\ keys[k].active /\ ~keys'[k].active}
  /\ UNCHANGED <<audit, reopened>>

AuditOther(q) ==
  /\ \/ \E a \in Accounts : PreflightDelete(q, a)
     \/ \E handler \in {"accounts.IssueKey", "keys.Create"}, a \in Accounts,
            n \in Components : IssueCheckAccount(q, handler, a, n)
     \/ IssueCheckComponent(q)
     \/ Abort(q)
  /\ UNCHANGED auditVars

-----------------------------------------------------------------------------
(***************************************************************************)
(* WriteFromRequest and SQLiteStore.Write                                  *)
(***************************************************************************)
Becomes(q, is) == audit' = [audit EXCEPT ![q] = [@ EXCEPT !.is = is]]

WriteFromRequest(q) ==
  /\ audit[q].is = "owed"
  /\ Becomes(q, "written") \/ Becomes(q, "lost")
  /\ UNCHANGED <<vars, reopened, unrecorded>>

AuditStep(q) ==
  \/ \E a \in Accounts : AuditCreateAccount(q, a)
  \/ \E a \in Accounts, status \in Patch :
        AuditPreflight(q, a, status)
  \/ AuditPatch(q)
  \/ AuditDelete(q)
  \/ \E k \in Keys, expiry \in Expiries : AuditIssue(q, k, expiry)
  \/ \E k \in Keys : AuditRevoke(q, k)
  \/ AuditComponents(q)
  \/ AuditOther(q)
  \/ WriteFromRequest(q)

AuditNext ==
  \/ \E q \in Requests : AuditStep(q)
  \/ /\ \/ \E p \in Pulls : PullStep(p)
        \/ \E n \in Components : CacheStep(n)
        \/ Clock
     /\ UNCHANGED auditVars

AuditSpec == AuditInit /\ [][AuditNext]_trailVars

-----------------------------------------------------------------------------
(***************************************************************************)
(* Properties                                                              *)
(***************************************************************************)
Has(q, action, target) ==
  audit[q].is # "none" /\ audit[q].action = action /\ audit[q].target = target

\* What the log says did happen, and it says so once, whatever came in between
\* the checks and the write it tells of: a key it calls issued is there, an
\* account it calls created is there, one it calls deleted is, unless a PATCH
\* that had overtaken the DELETE took it back, and no second request has a row
\* of the same issue, creation or deletion.  A key it calls revoked is revoked
\* for good, if not by that request (see RevokeRowsHadEffect).
TrailIsTrue ==
  \A q \in Requests : audit[q].is = "written" =>
    \A k \in Keys, a \in Accounts :
      /\ Has(q, "key.revoke", k) => keys[k] # NoKey /\ ~keys[k].active
      /\ Has(q, "key.issue", k) =>
           keys[k] # NoKey /\ ~\E p \in Requests \ {q} : Has(p, "key.issue", k)
      /\ Has(q, "account.create", a) =>
           accounts[a] # "absent" /\ ~\E p \in Requests \ {q} : Has(p, "account.create", a)
      /\ Has(q, "account.delete", a) =>
           \/ a \in reopened
           \/ accounts[a] = "deleted" /\ ~\E p \in Requests \ {q} : Has(p, "account.delete", a)

\* "a `key.revoke` row is written only when this call actually revoked an
\* active key" (handler/keys.go:127-128): a request that comes to owe one has
\* found the key active.
RevokeRowsHadEffect ==
  [][\A q \in Requests, k \in Keys :
       ~Has(q, "key.revoke", k) /\ Has(q, "key.revoke", k)' => keys[k].active]_trailVars

\* A key that is revoked can be accounted for: by a row of the revoke or of
\* the deletion of its account, if only one the log has lost or is yet to get.
\* What the log does not know is the revocation with a component.
RevocationsExplained ==
  \A k \in Keys : keys[k] # NoKey /\ ~keys[k].active =>
    \/ k \in unrecorded
    \/ \E q \in Requests : \/ Has(q, "key.revoke", k)
                           \/ Has(q, "account.delete", keys[k].account)
=============================================================================
