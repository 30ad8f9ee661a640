----------------------------- MODULE Migration ------------------------------
(***************************************************************************)
(* The start of the service on a database an earlier version may have      *)
(* left behind (auth/internal/store/sqlite.go, NewSQLiteStore): the        *)
(* pragmas, the schema, the legacy account, and the migration that gives   *)
(* every subscription key an account.                                      *)
(*                                                                         *)
(* Every action is one statement.  A statement outside the rebuild commits *)
(* on its own; any statement may fail, and the process may be stopped or   *)
(* the machine lose power between any two: the next start finds what was   *)
(* committed.  SQLite itself (atomic commit, WAL, foreign keys, indexes    *)
(* that follow a renamed table) is external, modelled as the code uses it. *)
(***************************************************************************)
EXTENDS Integers

CONSTANTS
  Keys,              \* ids of subscription keys
  Accounts,          \* ids of accounts, "legacy" among them
  MaxStops           \* bound on failed statements, stops and power losses

ASSUME MigrationConstants ==
  /\ "legacy" \in Accounts
  /\ {"absent", "null"} \cap Accounts = {}
  /\ MaxStops \in Nat

VARIABLES
  db,                \* what is committed
  tx,                \* the transaction of the rebuild, NoTx without one
  at,                \* the next statement of the start
  foreign_keys,      \* the pragma, per connection
  column,            \* the answer of the probe
  past,              \* the commits a power loss may go back to
  stops,             \* history: how often the start was cut short
  owed               \* history: the account every key has to end up with

dbVars == <<db, tx, past>>
vars == <<db, tx, at, foreign_keys, column, past, stops, owed>>

Indexes == {"component", "account_id"}

\* The shape of subscription_key: no table, no account_id column, a column
\* that allows NULL, the current schema.  A row's account is "null" as long
\* as there is no column.  `old` is subscription_key_old while it exists.
Shapes == {"none", "no_column", "nullable", "not_null"}
Rows   == [Keys -> {"absent", "null"} \cup Accounts]
NoRows == [k \in Keys |-> "absent"]
NoTable == [k \in {} |-> "absent"]

Database == [accounts : SUBSET Accounts, shape : Shapes, rows : Rows,
             old : Rows \cup {NoTable}, index : [Indexes -> {"none", "key", "old"}]]

NoTx == [rows |-> NoTable]

Statements == {"down", "accounts", "table", "index", "seed", "probe", "add", "add_index",
               "backfill", "fk_off", "begin", "drop_leftover", "rename", "create", "copy",
               "drop_old", "reindex", "commit", "check", "fk_on", "serving"}

TypeOK ==
  /\ db \in Database
  /\ tx \in Database \cup {NoTx}
  /\ at \in Statements
  /\ foreign_keys \in BOOLEAN
  /\ column \in {"unknown", "no_column", "nullable", "not_null"}
  /\ past \in SUBSET Database
  /\ stops \in 0 .. MaxStops
  /\ owed \in Rows

\* What an earlier version of the service, or a start that was cut short, may
\* have left: the account of a row exists, and rows without one are there only
\* in a shape that allows it.
EarlierVersion(d) ==
  /\ d.old = NoTable
  /\ d.shape = "none" => d.rows = NoRows /\ \A i \in Indexes : d.index[i] = "none"
  /\ d.shape = "no_column" =>
       d.index["account_id"] = "none" /\ \A k \in Keys : d.rows[k] \in {"absent", "null"}
  /\ d.shape = "not_null" => \A k \in Keys : d.rows[k] # "null"
  /\ \A k \in Keys : d.rows[k] \in {"absent", "null"} \cup d.accounts
  /\ \A i \in Indexes : d.index[i] # "old"

Init ==
  /\ db \in {d \in [accounts : SUBSET Accounts, shape : Shapes, rows : Rows,
                    old : {NoTable}, index : [Indexes -> {"none", "key"}]] :
               EarlierVersion(d)}
  /\ tx = NoTx
  /\ at = "down"
  /\ foreign_keys = FALSE
  /\ column = "unknown"
  /\ past = {db}
  /\ stops = 0
  /\ owed = [k \in Keys |-> IF db.rows[k] = "null" THEN "legacy" ELSE db.rows[k]]

-----------------------------------------------------------------------------
(***************************************************************************)
(* SQLite, as the code uses it                                             *)
(***************************************************************************)

\* A statement that commits on its own.
Commit(d) ==
  /\ db' = d
  /\ past' = past \cup {d}
  /\ UNCHANGED tx

\* Wrong variant: the rebuild runs without a transaction.
InTxAutocommit(d) ==
  /\ tx' = d /\ db' = d
  /\ past' = past \cup {d}

\* A statement inside the transaction.
InTx(d) == tx' = d /\ UNCHANGED <<db, past>>

Created(d) == [d EXCEPT !.shape = "not_null", !.rows = NoRows]

\* CREATE INDEX IF NOT EXISTS goes by the name, whatever table has it.
Indexed(d, names) ==
  [d EXCEPT !.index = [i \in Indexes |->
     IF i \in names /\ d.index[i] = "none" THEN "key" ELSE d.index[i]]]

\* An index goes with its table when that is renamed or dropped.
Renamed(d) ==
  [d EXCEPT !.old = d.rows, !.rows = NoRows, !.shape = "none",
            !.index = [i \in Indexes |-> IF d.index[i] = "key" THEN "old" ELSE d.index[i]]]
OldDropped(d) ==
  [d EXCEPT !.old = NoTable,
            !.index = [i \in Indexes |-> IF d.index[i] = "old" THEN "none" ELSE d.index[i]]]

Referenced(d) == \A k \in Keys : d.rows[k] \in {"absent", "null"} \cup d.accounts

Goes(from, to) ==
  /\ at = from
  /\ at' = to
  /\ UNCHANGED <<stops, owed>>

-----------------------------------------------------------------------------
(***************************************************************************)
(* NewSQLiteStore                                                          *)
(***************************************************************************)

\* The pragmas of a new connection; nothing is committed.
Open ==
  /\ Goes("down", "accounts")
  /\ foreign_keys' = TRUE
  /\ column' = "unknown"
  /\ UNCHANGED dbVars

\* The statements of the schema.  Tables the migration does not touch are
\* left out.
CreateAccounts ==
  /\ Goes("accounts", "table")
  /\ Commit(db)
  /\ UNCHANGED <<foreign_keys, column>>

\* Wrong variant: the table is left to the migration.
CreateNoKeyTable ==
  /\ Goes("table", "index")
  /\ Commit(db)
  /\ UNCHANGED <<foreign_keys, column>>

CreateKeyTable ==
  /\ Goes("table", "index")
  /\ Commit(IF db.shape = "none" THEN Created(db) ELSE db)
  /\ UNCHANGED <<foreign_keys, column>>

CreateComponentIndex ==
  /\ Goes("index", "seed")
  /\ Commit(Indexed(db, {"component"}))
  /\ UNCHANGED <<foreign_keys, column>>

\* Wrong variant: the legacy account is seeded into a new database only.
SeedNewOnly ==
  /\ Goes("seed", "probe")
  /\ Commit([db EXCEPT !.accounts = IF db.rows = NoRows THEN @ \cup {"legacy"} ELSE @])
  /\ UNCHANGED <<foreign_keys, column>>

SeedLegacyAccount ==
  /\ Goes("seed", "probe")
  /\ Commit([db EXCEPT !.accounts = @ \cup {"legacy"}])
  /\ UNCHANGED <<foreign_keys, column>>

-----------------------------------------------------------------------------
(***************************************************************************)
(* migrateSubscriptionKeyAccountID                                         *)
(***************************************************************************)

\* subscriptionKeyAccountIDColumn
Probe ==
  /\ Goes("probe", IF db.shape = "no_column" THEN "add" ELSE "add_index")
  /\ column' = db.shape
  /\ UNCHANGED <<dbVars, foreign_keys>>

AddColumn ==
  /\ Goes("add", "add_index")
  /\ Commit([db EXCEPT !.shape = "nullable"])
  /\ UNCHANGED <<foreign_keys, column>>

CreateAccountIndex ==
  /\ Goes("add_index", "backfill")
  /\ Commit(Indexed(db, {"account_id"}))
  /\ UNCHANGED <<foreign_keys, column>>

Backfilled == [k \in Keys |-> IF db.rows[k] = "null" THEN "legacy" ELSE db.rows[k]]

\* Wrong variant: the table is rebuilt only when the column was missing.
RebuildIfAdded == column = "no_column"

\* By the answer of the probe, not by the shape the table has now.
RebuildNeeded == column \in {"no_column", "nullable"}

Backfill ==
  /\ Goes("backfill", IF RebuildNeeded THEN "fk_off" ELSE "serving")
  /\ foreign_keys => Referenced([db EXCEPT !.rows = Backfilled])
  /\ Commit([db EXCEPT !.rows = Backfilled])
  /\ UNCHANGED <<foreign_keys, column>>

-----------------------------------------------------------------------------
(***************************************************************************)
(* rebuildSubscriptionKeyNotNull                                           *)
(***************************************************************************)
ForeignKeysOff ==
  /\ Goes("fk_off", "begin")
  /\ foreign_keys' = FALSE
  /\ UNCHANGED <<dbVars, column>>

Begin ==
  /\ Goes("begin", "drop_leftover")
  /\ InTx(db)
  /\ UNCHANGED <<foreign_keys, column>>

DropLeftover ==
  /\ Goes("drop_leftover", "rename")
  /\ InTx(OldDropped(tx))
  /\ UNCHANGED <<foreign_keys, column>>

Rename ==
  /\ Goes("rename", "create")
  /\ InTx(Renamed(tx))
  /\ UNCHANGED <<foreign_keys, column>>

Create ==
  /\ Goes("create", "copy")
  /\ InTx(Created(tx))
  /\ UNCHANGED <<foreign_keys, column>>

\* The NOT NULL of the new table refuses a row without an account.
Copy ==
  /\ Goes("copy", "drop_old")
  /\ \A k \in Keys : tx.old[k] # "null"
  /\ InTx([tx EXCEPT !.rows = tx.old])
  /\ UNCHANGED <<foreign_keys, column>>

DropOld ==
  /\ Goes("drop_old", "reindex")
  /\ InTx(OldDropped(tx))
  /\ UNCHANGED <<foreign_keys, column>>

\* Wrong variant: the indexes are created before the old table, which still
\* has their names, is dropped.
ReindexEarly ==
  /\ Goes("reindex", "commit")
  /\ InTx(tx)
  /\ UNCHANGED <<foreign_keys, column>>

Reindex ==
  /\ Goes("reindex", "commit")
  /\ InTx(Indexed(tx, Indexes))
  /\ UNCHANGED <<foreign_keys, column>>

CommitRebuild ==
  /\ Goes("commit", "check")
  /\ db' = tx /\ past' = past \cup {tx} /\ tx' = NoTx
  /\ UNCHANGED <<foreign_keys, column>>

ForeignKeyCheck ==
  /\ Goes("check", "fk_on")
  /\ Referenced(db)
  /\ UNCHANGED <<dbVars, foreign_keys, column>>

\* Deferred; on the paths that fail it makes no difference, as the database is
\* closed next.
ForeignKeysOn ==
  /\ Goes("fk_on", "serving")
  /\ foreign_keys' = TRUE
  /\ UNCHANGED <<dbVars, column>>

-----------------------------------------------------------------------------
\* What happens when the process ends: the transaction is gone.
Ends ==
  /\ at # "down" /\ stops < MaxStops
  /\ at' = "down"
  /\ tx' = NoTx
  /\ foreign_keys' = FALSE
  /\ column' = "unknown"
  /\ stops' = stops + 1
  /\ UNCHANGED owed

\* A statement fails and NewSQLiteStore with it, or the process is stopped or
\* killed, while it starts or later.
Stop == Ends /\ UNCHANGED <<db, past>>

\* With synchronous=NORMAL the last commits of the WAL may be lost.
PowerLoss ==
  /\ Ends
  /\ db' \in past
  /\ past' = {db'}

\* A checkpoint syncs the WAL.
Checkpoint ==
  /\ past # {db}
  /\ past' = {db}
  /\ UNCHANGED <<db, tx, at, foreign_keys, column, stops, owed>>

Rebuild ==
  \/ ForeignKeysOff \/ Begin \/ DropLeftover \/ Rename \/ Create \/ Copy
  \/ DropOld \/ Reindex \/ CommitRebuild \/ ForeignKeyCheck \/ ForeignKeysOn

Start ==
  \/ Open \/ CreateAccounts \/ CreateKeyTable \/ CreateComponentIndex
  \/ SeedLegacyAccount \/ Probe \/ AddColumn \/ CreateAccountIndex \/ Backfill
  \/ Rebuild

Next == Start \/ Stop \/ PowerLoss \/ Checkpoint

Spec == Init /\ [][Next]_vars

\* The service is started again whenever it is down (restart: unless-stopped),
\* and a start that nothing cuts short goes on.
FairSpec == Spec /\ WF_vars(Start)

-----------------------------------------------------------------------------
(***************************************************************************)
(* Properties                                                              *)
(***************************************************************************)

\* No key is lost and no key changes hands, whatever statement a start is cut
\* short at and however often: a key that had an account keeps it, one that
\* had none has none or is the legacy account's.  This is about what is
\* committed, so about every state a later start may find.
KeysKept ==
  \A k \in Keys :
    \/ db.rows[k] = owed[k]
    \/ db.rows[k] = "null" /\ owed[k] = "legacy"

\* Once it serves, the service has the schema the rest of the code counts on:
\* the column is NOT NULL, every key has an account that exists, foreign keys
\* are enforced, and no leftover table is around.
ServesMigrated ==
  at = "serving" =>
    /\ db.shape = "not_null" /\ db.old = NoTable
    /\ foreign_keys
    /\ "legacy" \in db.accounts
    /\ \A k \in Keys : db.rows[k] \in {"absent"} \cup db.accounts

\* The rebuild does not cost the table its indexes, though the renamed table
\* keeps them under their names until it is dropped.
ServesIndexed ==
  at = "serving" => \A i \in Indexes : db.index[i] = "key"

\* A service that is no longer cut short comes to serve, whatever the shape it
\* finds: no statement is refused for a foreign key, a NULL or a leftover.
EventuallyServes == <>[](at = "serving")
=============================================================================
