------------------------------ MODULE KeyStore ------------------------------
(***************************************************************************)
(* The subscriber tables of the SQLite store (auth/internal/store): the    *)
(* components, the accounts and the subscription keys, and the statements  *)
(* and transactions the admin API and forward-auth run on them.            *)
(*                                                                         *)
(* The pool has one connection (NewSQLiteStore, SetMaxOpenConns(1)) and    *)
(* every method is one statement or one transaction, so each is one atomic *)
(* step here.  A method whose guard is false reports an error and changes  *)
(* nothing; its caller decides what to do with that.                       *)
(***************************************************************************)
EXTENDS Integers, FiniteSets

CONSTANTS
  Components,   \* component names
  Accounts,     \* account ids
  Legacy,       \* the synthetic account that owns pre-migration keys
  Keys,         \* key values, generated at random and so never reused
  Expiries      \* the expiry an issuer may ask for

ASSUME KeyStoreConstants ==
  /\ Legacy \in Accounts
  /\ Expiries \subseteq {"never", "ahead", "past"}

VARIABLES
  components,   \* visibility of every component, "absent" without a row
  accounts,     \* status of every account, "absent" without a row
  keys          \* the row of every key, NoKey without one

tables == <<components, accounts, keys>>

NoKey == [active |-> FALSE]
Key   == [component : Components, account : Accounts, active : BOOLEAN,
          expires_at : {"never", "ahead", "past"}, usage_count : Nat]

Visibility    == {"public", "private"}
AccountStatus == {"active", "suspended", "deleted"}

\* What a PATCH of an account asks for: a status, the email or the
\* organisation alone ("keep"), or nothing at all.
Patch == {"active", "suspended", "keep", "nothing"}

TablesTypeOK ==
  /\ components \in [Components -> Visibility \cup {"absent"}]
  /\ accounts \in [Accounts -> AccountStatus \cup {"absent"}]
  /\ keys \in [Keys -> Key \cup {NoKey}]

\* NewSQLiteStore over a database an earlier process left behind, or a new
\* one: the legacy account is seeded active, every key has an account row.
\* Uses are counted from here on.
TablesInit ==
  /\ components \in [Components -> Visibility \cup {"absent"}]
  /\ accounts \in {f \in [Accounts -> AccountStatus \cup {"absent"}] :
                    f[Legacy] = "active"}
  /\ keys \in [Keys -> [component : Components,
                        account : {a \in Accounts : accounts[a] # "absent"},
                        active : BOOLEAN, expires_at : Expiries,
                        usage_count : {0}] \cup {NoKey}]

-----------------------------------------------------------------------------
(***************************************************************************)
(* accounts.go                                                             *)
(***************************************************************************)

\* GetAccount hides soft-deleted accounts.
GetAccount(a) == accounts[a] \notin {"absent", "deleted"}

CreateAccount(a) ==
  /\ accounts[a] = "absent"
  /\ accounts' = [accounts EXCEPT ![a] = "active"]
  /\ UNCHANGED <<components, keys>>

\* Wrong variant: the legacy account can be patched like any other.
UpdateAnyAccount(a, status) == accounts[a] # "absent"

\* The legacy account takes neither another email or organisation nor a
\* status other than active; a patch of nothing passes.
UpdateAccountAllowed(a, status) ==
  /\ accounts[a] # "absent"
  /\ a = Legacy => status \in {"active", "nothing"}

\* Wrong variant: a status that is not in the patch is written as it comes.
UpdateWithoutDefault(a, status) ==
  /\ UpdateAccountAllowed(a, status)
  /\ accounts' = [accounts EXCEPT ![a] = status]
  /\ UNCHANGED <<components, keys>>

UpdateAccount(a, status) ==
  /\ UpdateAccountAllowed(a, status)
  /\ accounts' = IF status \in AccountStatus THEN [accounts EXCEPT ![a] = status]
                 ELSE accounts
  /\ UNCHANGED <<components, keys>>

\* One revoke of every row that satisfies the WHERE clause.
RevokeWhere(Cond(_)) ==
  keys' = [k \in Keys |-> IF keys[k].active /\ Cond(keys[k])
                          THEN [keys[k] EXCEPT !.active = FALSE] ELSE keys[k]]

DeleteAccountAllowed(a) == a # Legacy /\ GetAccount(a)

\* Wrong variant: the keys of the account are forgotten.
DeleteAccountOnly(a) ==
  /\ DeleteAccountAllowed(a)
  /\ accounts' = [accounts EXCEPT ![a] = "deleted"]
  /\ UNCHANGED <<components, keys>>

DeleteAccountWithCascade(a) ==
  /\ DeleteAccountAllowed(a)
  /\ RevokeWhere(LAMBDA row : row.account = a)
  /\ accounts' = [accounts EXCEPT ![a] = "deleted"]
  /\ UNCHANGED components

\* Wrong variant: an insert that replaces the row it meets.
ReplaceKey(k, a, n, expiry) ==
  /\ accounts[a] # "absent"
  /\ keys' = [keys EXCEPT ![k] = [component |-> n, account |-> a, active |-> TRUE,
                                  expires_at |-> expiry, usage_count |-> 0]]
  /\ UNCHANGED <<components, accounts>>

\* The foreign key only asks for a row, and a soft-deleted account has one.
CreateKeyForAccount(k, a, n, expiry) ==
  /\ accounts[a] # "absent"
  /\ keys[k] = NoKey
  /\ keys' = [keys EXCEPT ![k] = [component |-> n, account |-> a, active |-> TRUE,
                                  expires_at |-> expiry, usage_count |-> 0]]
  /\ UNCHANGED <<components, accounts>>

-----------------------------------------------------------------------------
(***************************************************************************)
(* sqlite.go                                                               *)
(***************************************************************************)

\* GetByValue: the row of an active key.  It looks at `active` and at nothing
\* else.
GetByValue(k) == keys[k] # NoKey /\ keys[k].active

\* RevokeKey updates the row whether or not it is still active.
RevokeKey(k) ==
  /\ keys[k] # NoKey
  /\ keys' = [keys EXCEPT ![k] = [@ EXCEPT !.active = FALSE]]
  /\ UNCHANGED <<components, accounts>>

IncrementUsage(k) ==
  /\ keys[k] # NoKey
  /\ keys' = [keys EXCEPT ![k] = [@ EXCEPT !.usage_count = keys[k].usage_count + 1]]
  /\ UNCHANGED <<components, accounts>>

CreateComponent(n, visibility) ==
  /\ components[n] = "absent"
  /\ components' = [components EXCEPT ![n] = visibility]
  /\ UNCHANGED <<accounts, keys>>

\* A patch of the RPM lists alone keeps the visibility ("keep").
UpdateComponent(n, visibility) ==
  /\ components[n] # "absent"
  /\ components' = IF visibility = "keep" THEN components
                   ELSE [components EXCEPT ![n] = visibility]
  /\ UNCHANGED <<accounts, keys>>

\* DeleteComponent leaves the keys alone.
DeleteComponent(n) ==
  /\ components[n] # "absent"
  /\ components' = [components EXCEPT ![n] = "absent"]
  /\ UNCHANGED <<accounts, keys>>

DeleteComponentWithRevoke(n) ==
  /\ components[n] # "absent"
  /\ components' = [components EXCEPT ![n] = "absent"]
  /\ RevokeWhere(LAMBDA row : row.component = n)
  /\ UNCHANGED accounts

\* The expiry of a key goes by.  No statement of the store looks at it.
Lapse(k) ==
  /\ keys[k] # NoKey
  /\ keys[k].expires_at = "ahead"
  /\ keys' = [keys EXCEPT ![k] = [@ EXCEPT !.expires_at = "past"]]
  /\ UNCHANGED <<components, accounts>>
=============================================================================
