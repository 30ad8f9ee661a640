-------------------------- MODULE MigrationProofs ---------------------------
(***************************************************************************)
(* The start of the store on an earlier database, for every set of keys    *)
(* and accounts and any number of interruptions.                           *)
(***************************************************************************)
EXTENDS Migration, TLAPS

\* The rows of a table, of whatever name, still owe nothing to anybody.
KeptRows(rows) ==
  \A k \in Keys :
    \/ rows[k] = owed[k]
    \/ rows[k] = "null" /\ owed[k] = "legacy"

\* A database a start may leave behind.
Sound(d) == d \in Database /\ EarlierVersion(d) /\ KeptRows(d.rows)

\* Whatever a power loss goes back to is one, and every key is owed an account.
PastSound ==
  /\ db \in past
  /\ \A d \in past : Sound(d)
  /\ \A k \in Keys : owed[k] # "null"

\* The statements that have been executed when the named one is next.
Rebuilding == {"drop_leftover", "rename", "create", "copy", "drop_old", "reindex", "commit"}
Unprepared == {"down", "accounts", "table"}
Unseeded   == Unprepared \cup {"index", "seed"}
Checking   == {"check", "fk_on", "serving"}

\* What the transaction holds: the rows are in the renamed table from the
\* rename to the copy, and in the new one after it.
TxSound ==
  at \in Rebuilding =>
    /\ tx \in Database /\ tx.accounts = db.accounts
    /\ at \in {"drop_leftover", "rename"} => KeptRows(tx.rows) /\ Referenced(tx)
    /\ at \in {"create", "copy", "drop_old"} =>
         /\ tx.old \in Rows /\ KeptRows(tx.old)
         /\ \A k \in Keys : tx.old[k] \in {"absent", "null"} \cup tx.accounts
    /\ at \in {"copy", "drop_old", "reindex", "commit"} => tx.shape = "not_null"
    /\ at \in {"drop_old", "reindex", "commit"} =>
         KeptRows(tx.rows) /\ Referenced(tx) /\ \A k \in Keys : tx.rows[k] # "null"
    /\ at \in {"reindex", "commit"} =>
         tx.old = NoTable /\ \A i \in Indexes : tx.index[i] # "old"
    /\ at = "commit" => \A i \in Indexes : tx.index[i] = "key"

\* What has been committed so far.
Progress ==
  /\ at \notin Unprepared => db.shape # "none"
  /\ at \notin Unprepared \cup {"index"} => db.index["component"] = "key"
  /\ at \notin Unseeded => "legacy" \in db.accounts
  /\ at = "add" => db.shape = "no_column" /\ column = "no_column"
  /\ at \in {"add_index", "backfill"} =>
       /\ db.shape # "no_column"
       /\ column \in {"no_column", "nullable", "not_null"}
       /\ column = "not_null" => db.shape = "not_null"
  /\ at \in {"backfill"} \cup Checking => db.index["account_id"] = "key"
  /\ at \in Checking => db.shape = "not_null"
  /\ at = "serving" => foreign_keys
  /\ at \in {"accounts", "table", "index", "seed", "probe", "add", "add_index", "backfill"} =>
       foreign_keys

MigrationInv == TypeOK /\ PastSound /\ TxSound /\ Progress

USE MigrationConstants

-----------------------------------------------------------------------------
(* What the statements make of a database. *)
LEMMA NoRowsType == NoRows \in Rows
BY DEF NoRows, Rows

LEMMA Fields ==
  ASSUME NEW d \in Database
  PROVE  /\ d.accounts \in SUBSET Accounts /\ d.shape \in Shapes /\ d.rows \in Rows
         /\ d.old \in Rows \cup {NoTable} /\ d.index \in [Indexes -> {"none", "key", "old"}]
BY DEF Database

LEMMA CreatedIs ==
  ASSUME NEW d \in Database
  PROVE  /\ Created(d) \in Database
         /\ Created(d).accounts = d.accounts /\ Created(d).shape = "not_null"
         /\ Created(d).rows = NoRows /\ Created(d).old = d.old
         /\ Created(d).index = d.index
BY NoRowsType DEF Created, Database, Shapes

LEMMA IndexedIs ==
  ASSUME NEW d \in Database, NEW names \in SUBSET Indexes
  PROVE  /\ Indexed(d, names) \in Database
         /\ Indexed(d, names).accounts = d.accounts /\ Indexed(d, names).shape = d.shape
         /\ Indexed(d, names).rows = d.rows /\ Indexed(d, names).old = d.old
         /\ \A i \in Indexes : Indexed(d, names).index[i] =
              IF i \in names /\ d.index[i] = "none" THEN "key" ELSE d.index[i]
BY DEF Indexed, Database

LEMMA RenamedIs ==
  ASSUME NEW d \in Database
  PROVE  /\ Renamed(d) \in Database
         /\ Renamed(d).accounts = d.accounts /\ Renamed(d).shape = "none"
         /\ Renamed(d).rows = NoRows /\ Renamed(d).old = d.rows
BY NoRowsType DEF Renamed, Database, Shapes

LEMMA OldDroppedIs ==
  ASSUME NEW d \in Database
  PROVE  /\ OldDropped(d) \in Database
         /\ OldDropped(d).accounts = d.accounts /\ OldDropped(d).shape = d.shape
         /\ OldDropped(d).rows = d.rows /\ OldDropped(d).old = NoTable
         /\ \A i \in Indexes : OldDropped(d).index[i] =
              IF d.index[i] = "old" THEN "none" ELSE d.index[i]
BY DEF OldDropped, Database

LEMMA PatchesTyped ==
  ASSUME NEW d \in Database, NEW a \in SUBSET Accounts, NEW s \in Shapes, NEW r \in Rows
  PROVE  /\ [d EXCEPT !.accounts = a] \in Database
         /\ [d EXCEPT !.shape = s] \in Database
         /\ [d EXCEPT !.rows = r] \in Database
BY DEF Database

-----------------------------------------------------------------------------
LEMMA InitSound == Init => MigrationInv
<1> SUFFICES ASSUME Init PROVE MigrationInv
  OBVIOUS
<1>1. db \in Database /\ EarlierVersion(db)
  BY DEF Init, Database
<1>2. db.rows \in Rows
  BY <1>1, Fields
<1>3. owed \in Rows /\ KeptRows(db.rows) /\ \A k \in Keys : owed[k] # "null"
  BY <1>2 DEF Init, Rows, KeptRows
<1>4. TypeOK
  <2>1. /\ tx = NoTx /\ at = "down" /\ foreign_keys = FALSE /\ column = "unknown"
        /\ past = {db} /\ stops = 0
    BY DEF Init
  <2>2. stops \in 0 .. MaxStops /\ past \in SUBSET Database
    BY <1>1, <2>1
  <2> QED BY <1>1, <1>3, <2>1, <2>2 DEF TypeOK, Statements
<1>5. PastSound
  BY <1>1, <1>3 DEF Init, PastSound, Sound
<1>6. TxSound /\ Progress
  BY DEF Init, TxSound, Rebuilding, Progress, Unprepared, Unseeded, Checking
<1> QED BY <1>4, <1>5, <1>6 DEF MigrationInv

\* A commit of a sound database keeps the past sound.
LEMMA PastGrows ==
  ASSUME PastSound, UNCHANGED owed, Sound(db)', past' = past \cup {db'}
  PROVE  PastSound'
BY DEF PastSound, Sound, KeptRows

-----------------------------------------------------------------------------
(* The statements that commit on their own. *)
LEMMA SchemaStep ==
  ASSUME MigrationInv, Open \/ CreateAccounts \/ CreateKeyTable \/ CreateComponentIndex
                       \/ SeedLegacyAccount
  PROVE  MigrationInv'
<1> USE DEF MigrationInv
<1>0. db \in Database /\ EarlierVersion(db) /\ KeptRows(db.rows)
  BY DEF PastSound, Sound
<1>f. /\ db.accounts \in SUBSET Accounts /\ db.shape \in Shapes /\ db.rows \in Rows
      /\ db.old \in Rows \cup {NoTable} /\ db.index \in [Indexes -> {"none", "key", "old"}]
  BY <1>0, Fields
<1>1. CASE Open
  <2>1. TypeOK'
    BY <1>1 DEF Open, Goes, TypeOK, Statements, dbVars
  <2>2. PastSound'
    BY <1>1 DEF Open, Goes, PastSound, Sound, KeptRows, dbVars
  <2>3. TxSound' /\ Progress'
    BY <1>1 DEF Open, Goes, TxSound, Progress, Rebuilding, Unprepared, Unseeded, Checking, dbVars
  <2> QED BY <2>1, <2>2, <2>3
<1>2. CASE CreateAccounts
  <2>1. TypeOK'
    BY <1>0, <1>2 DEF CreateAccounts, Commit, Goes, TypeOK, Statements
  <2>2. PastSound'
    BY <1>2 DEF CreateAccounts, Commit, Goes, PastSound, Sound, KeptRows
  <2>3. TxSound' /\ Progress'
    BY <1>2 DEF CreateAccounts, Commit, Goes, TxSound, Progress, Rebuilding, Unprepared,
                Unseeded, Checking
  <2> QED BY <2>1, <2>2, <2>3
<1>3. CASE CreateKeyTable
  <2>0. db' \in Database /\ db'.rows = db.rows /\ db'.accounts = db.accounts
        /\ db'.old = db.old /\ db'.index = db.index /\ db'.shape # "none"
        /\ (db'.shape = db.shape \/ (db.rows = NoRows /\ db'.shape = "not_null"))
        /\ (db'.shape = "not_null" => \A k \in Keys : db'.rows[k] # "null")
    BY <1>0, <1>3, CreatedIs DEF CreateKeyTable, Commit, EarlierVersion, NoRows
  <2>1. TypeOK'
    BY <1>0, <1>3, <2>0 DEF CreateKeyTable, Commit, Goes, TypeOK, Statements
  <2>2. PastSound'
    <3>1. Sound(db)'
      BY <1>0, <1>3, <2>0 DEF CreateKeyTable, Goes, Sound, EarlierVersion, KeptRows
    <3> QED BY <1>3, <3>1, PastGrows DEF CreateKeyTable, Goes, Commit
  <2>3. TxSound' /\ Progress'
    BY <1>3, <2>0 DEF CreateKeyTable, Commit, Goes, TxSound, Progress, Rebuilding, Unprepared,
                Unseeded, Checking
  <2> QED BY <2>1, <2>2, <2>3
<1>4. CASE CreateComponentIndex
  <2>i. {"component"} \in SUBSET Indexes
    BY DEF Indexes
  <2>0. /\ db' \in Database /\ db'.rows = db.rows /\ db'.accounts = db.accounts
        /\ db'.old = db.old /\ db'.shape = db.shape
        /\ \A i \in Indexes : db'.index[i] =
              IF i \in {"component"} /\ db.index[i] = "none" THEN "key" ELSE db.index[i]
    BY <1>0, <1>4, <2>i, IndexedIs DEF CreateComponentIndex, Commit
  <2>1. TypeOK'
    BY <1>0, <1>4, <2>0 DEF CreateComponentIndex, Commit, Goes, TypeOK, Statements
  <2>2. PastSound'
    <3>1. Sound(db)'
      BY <1>0, <1>4, <1>f, <2>0 DEF CreateComponentIndex, Goes, Sound, EarlierVersion, KeptRows,
         Progress, Unprepared, Indexes
    <3> QED BY <1>4, <3>1, PastGrows DEF CreateComponentIndex, Goes, Commit
  <2>3. db'.index["component"] = "key"
    BY <1>0, <1>f, <2>0 DEF EarlierVersion, Indexes
  <2>4. TxSound' /\ Progress'
    BY <1>4, <2>0, <2>3 DEF CreateComponentIndex, Commit, Goes, TxSound, Progress, Rebuilding,
                Unprepared, Unseeded, Checking
  <2> QED BY <2>1, <2>2, <2>4
<1>5. CASE SeedLegacyAccount
  <2>0. /\ db' \in Database /\ db'.rows = db.rows /\ db'.index = db.index
        /\ db'.old = db.old /\ db'.shape = db.shape
        /\ db'.accounts = db.accounts \cup {"legacy"}
    BY <1>0, <1>f, <1>5 DEF SeedLegacyAccount, Commit, Database
  <2>1. TypeOK'
    BY <1>0, <1>5, <2>0 DEF SeedLegacyAccount, Commit, Goes, TypeOK, Statements
  <2>2. PastSound'
    <3>1. Sound(db)'
      BY <1>0, <1>5, <2>0 DEF SeedLegacyAccount, Goes, Sound, EarlierVersion, KeptRows
    <3> QED BY <1>5, <3>1, PastGrows DEF SeedLegacyAccount, Goes, Commit
  <2>3. TxSound' /\ Progress'
    BY <1>5, <2>0 DEF SeedLegacyAccount, Commit, Goes, TxSound, Progress, Rebuilding, Unprepared,
                Unseeded, Checking
  <2> QED BY <2>1, <2>2, <2>3
<1> QED BY <1>1, <1>2, <1>3, <1>4, <1>5

(* The migration up to the rebuild. *)
LEMMA MigrateStep ==
  ASSUME MigrationInv, Probe \/ AddColumn \/ CreateAccountIndex \/ Backfill
  PROVE  MigrationInv'
<1> USE DEF MigrationInv
<1>0. db \in Database /\ EarlierVersion(db) /\ KeptRows(db.rows)
  BY DEF PastSound, Sound
<1>f. /\ db.accounts \in SUBSET Accounts /\ db.shape \in Shapes /\ db.rows \in Rows
      /\ db.old \in Rows \cup {NoTable} /\ db.index \in [Indexes -> {"none", "key", "old"}]
  BY <1>0, Fields
<1>1. CASE Probe
  <2>0. db.shape # "none"
    BY <1>1 DEF Probe, Goes, Progress, Unprepared
  <2>1. TypeOK'
    BY <1>1, <1>f, <2>0 DEF Probe, Goes, TypeOK, Statements, dbVars, Shapes
  <2>2. PastSound'
    BY <1>1 DEF Probe, Goes, PastSound, Sound, KeptRows, dbVars
  <2>3. TxSound' /\ Progress'
    BY <1>1, <1>f, <2>0 DEF Probe, Goes, dbVars, Shapes, TxSound, Progress, Rebuilding, Unprepared,
                Unseeded, Checking
  <2> QED BY <2>1, <2>2, <2>3
<1>2. CASE AddColumn
  <2>0. /\ db' \in Database /\ db'.rows = db.rows /\ db'.index = db.index
        /\ db'.old = db.old /\ db'.shape = "nullable" /\ db'.accounts = db.accounts
    BY <1>0, <1>2 DEF AddColumn, Commit, Database, Shapes
  <2>1. TypeOK'
    BY <1>0, <1>2, <2>0 DEF AddColumn, Commit, Goes, TypeOK, Statements
  <2>2. PastSound'
    <3>1. Sound(db)'
      BY <1>0, <1>2, <2>0 DEF AddColumn, Goes, Sound, EarlierVersion, KeptRows
    <3> QED BY <1>2, <3>1, PastGrows DEF AddColumn, Goes, Commit
  <2>3. TxSound' /\ Progress'
    BY <1>2, <2>0 DEF AddColumn, Commit, Goes, TxSound, Progress, Rebuilding, Unprepared,
                Unseeded, Checking
  <2> QED BY <2>1, <2>2, <2>3
<1>3. CASE CreateAccountIndex
  <2>i. {"account_id"} \in SUBSET Indexes
    BY DEF Indexes
  <2>0. /\ db' \in Database /\ db'.rows = db.rows /\ db'.accounts = db.accounts
        /\ db'.old = db.old /\ db'.shape = db.shape
        /\ \A i \in Indexes : db'.index[i] =
              IF i \in {"account_id"} /\ db.index[i] = "none" THEN "key" ELSE db.index[i]
    BY <1>0, <1>3, <2>i, IndexedIs DEF CreateAccountIndex, Commit
  <2>s. db.shape # "none" /\ db.shape # "no_column"
    BY <1>3 DEF CreateAccountIndex, Goes, Progress, Unprepared
  <2>1. TypeOK'
    BY <1>0, <1>3, <2>0 DEF CreateAccountIndex, Commit, Goes, TypeOK, Statements
  <2>2. PastSound'
    <3>1. Sound(db)'
      BY <1>0, <1>3, <1>f, <2>0, <2>s DEF CreateAccountIndex, Goes, Sound, EarlierVersion,
         KeptRows, Indexes
    <3> QED BY <1>3, <3>1, PastGrows DEF CreateAccountIndex, Goes, Commit
  <2>3. db'.index["account_id"] = "key" /\ db'.index["component"] = db.index["component"]
    BY <1>0, <1>f, <2>0 DEF EarlierVersion, Indexes
  <2>4. TxSound' /\ Progress'
    BY <1>3, <2>0, <2>3 DEF CreateAccountIndex, Commit, Goes, TxSound, Progress, Rebuilding, Unprepared,
                Unseeded, Checking
  <2> QED BY <2>1, <2>2, <2>4
<1>4. CASE Backfill
  <2>b. Backfilled \in Rows
    BY <1>f DEF Backfilled, Rows
  <2>0. /\ db' \in Database /\ db'.rows = Backfilled /\ db'.index = db.index
        /\ db'.old = db.old /\ db'.shape = db.shape /\ db'.accounts = db.accounts
    BY <1>0, <1>4, <2>b DEF Backfill, Commit, Database
  <2>s. /\ db.shape \in {"nullable", "not_null"} /\ "legacy" \in db.accounts
        /\ column \in {"no_column", "nullable", "not_null"}
        /\ column = "not_null" => db.shape = "not_null"
    BY <1>4, <1>f DEF Backfill, Goes, Progress, Unprepared, Unseeded, Shapes
  <2>1. TypeOK'
    BY <1>0, <1>4, <2>0 DEF Backfill, Commit, Goes, TypeOK, Statements
  <2>2. PastSound'
    <3>1. \A k \in Keys : Backfilled[k] \in {"absent"} \cup db.accounts
      BY <1>0, <2>s DEF Backfilled, EarlierVersion
    <3>2. \A k \in Keys : Backfilled[k] # "null"
      BY <1>f DEF Backfilled
    <3>3. KeptRows(Backfilled)
      BY <1>0, <1>f DEF Backfilled, KeptRows, PastSound
    <3>4. Sound(db)'
      <4>1. EarlierVersion(db')
        BY <1>0, <1>4, <2>0, <2>s, <3>1, <3>2 DEF EarlierVersion
      <4>2. KeptRows(db.rows)'
        BY <1>4, <2>0, <3>3 DEF Backfill, Goes, KeptRows
      <4> QED BY <2>0, <4>1, <4>2 DEF Sound
    <3> QED BY <1>4, <3>4, PastGrows DEF Backfill, Goes, Commit
  <2>3. TxSound' /\ Progress'
    BY <1>4, <2>0, <2>s DEF Backfill, RebuildNeeded, Commit, Goes, TxSound, Progress, Rebuilding, Unprepared,
                Unseeded, Checking
  <2> QED BY <2>1, <2>2, <2>3
<1> QED BY <1>1, <1>2, <1>3, <1>4

-----------------------------------------------------------------------------
(* The rebuild: nothing but the transaction changes until it commits. *)
LEMMA RebuildStep ==
  ASSUME MigrationInv, Rebuild
  PROVE  MigrationInv'
<1> USE DEF MigrationInv
<1>0. db \in Database /\ EarlierVersion(db) /\ KeptRows(db.rows)
  BY DEF PastSound, Sound
<1>f. /\ db.accounts \in SUBSET Accounts /\ db.shape \in Shapes /\ db.rows \in Rows
      /\ db.old \in Rows \cup {NoTable} /\ db.index \in [Indexes -> {"none", "key", "old"}]
  BY <1>0, Fields
<1>p. ASSUME UNCHANGED <<db, past, owed>> PROVE PastSound'
  BY <1>p DEF PastSound, Sound, KeptRows
<1>1. CASE ForeignKeysOff
  <2>1. TypeOK'
    BY <1>1 DEF ForeignKeysOff, Goes, TypeOK, Statements, dbVars
  <2>2. TxSound' /\ Progress'
    BY <1>1 DEF ForeignKeysOff, Goes, dbVars, TxSound, Progress, Rebuilding, Unprepared,
                Unseeded, Checking
  <2> QED BY <1>1, <1>p, <2>1, <2>2 DEF ForeignKeysOff, Goes, dbVars
<1>2. CASE Begin
  <2>1. TypeOK'
    BY <1>0, <1>2 DEF Begin, InTx, Goes, TypeOK, Statements
  <2>2. Progress'
    BY <1>2 DEF Begin, InTx, Goes, Progress, Unprepared, Unseeded, Checking
  <2>3. TxSound'
    BY <1>0, <1>2 DEF Begin, InTx, Goes, TxSound, Rebuilding, EarlierVersion, Referenced, KeptRows
  <2> QED BY <1>2, <1>p, <2>1, <2>2, <2>3 DEF Begin, InTx, Goes
<1>3. CASE DropLeftover
  <2>t. at \in Rebuilding /\ tx \in Database /\ tx.accounts = db.accounts
    BY <1>3 DEF DropLeftover, Goes, TxSound, Rebuilding
  <2>f. /\ tx.accounts \in SUBSET Accounts /\ tx.shape \in Shapes /\ tx.rows \in Rows
        /\ tx.old \in Rows \cup {NoTable}
        /\ tx.index \in [Indexes -> {"none", "key", "old"}]
    BY <2>t, Fields
  <2>0. /\ tx' \in Database /\ tx'.accounts = tx.accounts /\ tx'.shape = tx.shape
        /\ tx'.rows = tx.rows /\ tx'.old = NoTable
        /\ \A i \in Indexes : tx'.index[i] =
             IF tx.index[i] = "old" THEN "none" ELSE tx.index[i]
    BY <1>3, <2>t, <2>f, OldDroppedIs DEF DropLeftover, InTx
  <2>1. TypeOK'
    BY <1>3, <2>0 DEF DropLeftover, InTx, Goes, TypeOK, Statements
  <2>2. Progress'
    BY <1>3 DEF DropLeftover, InTx, Goes, Progress, Unprepared, Unseeded, Checking
  <2>3. TxSound'
    BY <1>3, <2>t, <2>f, <2>0 DEF DropLeftover, InTx, Goes, TxSound, Rebuilding, KeptRows,
       Referenced
  <2> QED BY <1>3, <1>p, <2>1, <2>2, <2>3 DEF DropLeftover, InTx, Goes
<1>4. CASE Rename
  <2>t. at \in Rebuilding /\ tx \in Database /\ tx.accounts = db.accounts
    BY <1>4 DEF Rename, Goes, TxSound, Rebuilding
  <2>f. /\ tx.accounts \in SUBSET Accounts /\ tx.shape \in Shapes /\ tx.rows \in Rows
        /\ tx.old \in Rows \cup {NoTable}
        /\ tx.index \in [Indexes -> {"none", "key", "old"}]
    BY <2>t, Fields
  <2>0. /\ tx' \in Database /\ tx'.accounts = tx.accounts /\ tx'.old = tx.rows
    BY <1>4, <2>t, <2>f, RenamedIs DEF Rename, InTx
  <2>1. TypeOK'
    BY <1>4, <2>0 DEF Rename, InTx, Goes, TypeOK, Statements
  <2>2. Progress'
    BY <1>4 DEF Rename, InTx, Goes, Progress, Unprepared, Unseeded, Checking
  <2>3. TxSound'
    BY <1>4, <2>t, <2>f, <2>0 DEF Rename, InTx, Goes, TxSound, Rebuilding, KeptRows,
       Referenced
  <2> QED BY <1>4, <1>p, <2>1, <2>2, <2>3 DEF Rename, InTx, Goes
<1>5. CASE Create
  <2>t. at \in Rebuilding /\ tx \in Database /\ tx.accounts = db.accounts
    BY <1>5 DEF Create, Goes, TxSound, Rebuilding
  <2>f. /\ tx.accounts \in SUBSET Accounts /\ tx.shape \in Shapes /\ tx.rows \in Rows
        /\ tx.old \in Rows \cup {NoTable}
        /\ tx.index \in [Indexes -> {"none", "key", "old"}]
    BY <2>t, Fields
  <2>0. /\ tx' \in Database /\ tx'.accounts = tx.accounts /\ tx'.old = tx.old
        /\ tx'.shape = "not_null"
    BY <1>5, <2>t, <2>f, CreatedIs DEF Create, InTx
  <2>1. TypeOK'
    BY <1>5, <2>0 DEF Create, InTx, Goes, TypeOK, Statements
  <2>2. Progress'
    BY <1>5 DEF Create, InTx, Goes, Progress, Unprepared, Unseeded, Checking
  <2>3. TxSound'
    BY <1>5, <2>t, <2>f, <2>0 DEF Create, InTx, Goes, TxSound, Rebuilding, KeptRows,
       Referenced
  <2> QED BY <1>5, <1>p, <2>1, <2>2, <2>3 DEF Create, InTx, Goes
<1>6. CASE Copy
  <2>t. at \in Rebuilding /\ tx \in Database /\ tx.accounts = db.accounts
    BY <1>6 DEF Copy, Goes, TxSound, Rebuilding
  <2>f. /\ tx.accounts \in SUBSET Accounts /\ tx.shape \in Shapes /\ tx.rows \in Rows
        /\ tx.old \in Rows \cup {NoTable}
        /\ tx.index \in [Indexes -> {"none", "key", "old"}]
    BY <2>t, Fields
  <2>0. /\ tx' \in Database /\ tx'.accounts = tx.accounts /\ tx'.old = tx.old
        /\ tx'.shape = tx.shape /\ tx'.rows = tx.old
    BY <1>6, <2>t, <2>f DEF Copy, InTx, Goes, TxSound, Rebuilding, Database
  <2>1. TypeOK'
    BY <1>6, <2>0 DEF Copy, InTx, Goes, TypeOK, Statements
  <2>2. Progress'
    BY <1>6 DEF Copy, InTx, Goes, Progress, Unprepared, Unseeded, Checking
  <2>3. TxSound'
    BY <1>6, <2>t, <2>f, <2>0 DEF Copy, InTx, Goes, TxSound, Rebuilding, KeptRows,
       Referenced
  <2> QED BY <1>6, <1>p, <2>1, <2>2, <2>3 DEF Copy, InTx, Goes
<1>7. CASE DropOld
  <2>t. at \in Rebuilding /\ tx \in Database /\ tx.accounts = db.accounts
    BY <1>7 DEF DropOld, Goes, TxSound, Rebuilding
  <2>f. /\ tx.accounts \in SUBSET Accounts /\ tx.shape \in Shapes /\ tx.rows \in Rows
        /\ tx.old \in Rows \cup {NoTable}
        /\ tx.index \in [Indexes -> {"none", "key", "old"}]
    BY <2>t, Fields
  <2>0. /\ tx' \in Database /\ tx'.accounts = tx.accounts /\ tx'.shape = tx.shape
        /\ tx'.rows = tx.rows /\ tx'.old = NoTable
        /\ \A i \in Indexes : tx'.index[i] =
             IF tx.index[i] = "old" THEN "none" ELSE tx.index[i]
    BY <1>7, <2>t, <2>f, OldDroppedIs DEF DropOld, InTx
  <2>1. TypeOK'
    BY <1>7, <2>0 DEF DropOld, InTx, Goes, TypeOK, Statements
  <2>2. Progress'
    BY <1>7 DEF DropOld, InTx, Goes, Progress, Unprepared, Unseeded, Checking
  <2>3. TxSound'
    BY <1>7, <2>t, <2>f, <2>0 DEF DropOld, InTx, Goes, TxSound, Rebuilding, KeptRows,
       Referenced
  <2> QED BY <1>7, <1>p, <2>1, <2>2, <2>3 DEF DropOld, InTx, Goes
<1>8. CASE Reindex
  <2>t. at \in Rebuilding /\ tx \in Database /\ tx.accounts = db.accounts
    BY <1>8 DEF Reindex, Goes, TxSound, Rebuilding
  <2>f. /\ tx.accounts \in SUBSET Accounts /\ tx.shape \in Shapes /\ tx.rows \in Rows
        /\ tx.old \in Rows \cup {NoTable}
        /\ tx.index \in [Indexes -> {"none", "key", "old"}]
    BY <2>t, Fields
  <2>0. /\ tx' \in Database /\ tx'.accounts = tx.accounts /\ tx'.shape = tx.shape
        /\ tx'.rows = tx.rows /\ tx'.old = tx.old
        /\ \A i \in Indexes : tx'.index[i] =
             IF i \in Indexes /\ tx.index[i] = "none" THEN "key" ELSE tx.index[i]
    BY <1>8, <2>t, <2>f, IndexedIs DEF Reindex, InTx
  <2>1. TypeOK'
    BY <1>8, <2>0 DEF Reindex, InTx, Goes, TypeOK, Statements
  <2>2. Progress'
    BY <1>8 DEF Reindex, InTx, Goes, Progress, Unprepared, Unseeded, Checking
  <2>3. TxSound'
    BY <1>8, <2>t, <2>f, <2>0 DEF Reindex, InTx, Goes, TxSound, Rebuilding, KeptRows,
       Referenced
  <2> QED BY <1>8, <1>p, <2>1, <2>2, <2>3 DEF Reindex, InTx, Goes
<1>9. CASE CommitRebuild
  <2>t. /\ tx \in Database /\ tx.accounts = db.accounts /\ tx.shape = "not_null"
        /\ KeptRows(tx.rows) /\ Referenced(tx) /\ \A k \in Keys : tx.rows[k] # "null"
        /\ tx.old = NoTable /\ \A i \in Indexes : tx.index[i] = "key"
    BY <1>9 DEF CommitRebuild, Goes, TxSound, Rebuilding
  <2>1. TypeOK'
    BY <1>9, <2>t DEF CommitRebuild, Goes, TypeOK, Statements
  <2>2. PastSound'
    <3>1. EarlierVersion(tx)
      BY <2>t DEF EarlierVersion, Referenced
    <3>2. Sound(db)'
      BY <1>9, <2>t, <3>1 DEF CommitRebuild, Goes, Sound, KeptRows
    <3> QED BY <1>9, <3>2, PastGrows DEF CommitRebuild, Goes
  <2>3. TxSound' /\ Progress'
    BY <1>9, <2>t DEF CommitRebuild, Goes, Indexes, TxSound, Progress, Rebuilding, Unprepared,
                Unseeded, Checking
  <2> QED BY <2>1, <2>2, <2>3
<1>10. CASE ForeignKeyCheck
  <2>1. TypeOK'
    BY <1>10 DEF ForeignKeyCheck, Goes, TypeOK, Statements, dbVars
  <2>2. TxSound' /\ Progress'
    BY <1>10 DEF ForeignKeyCheck, Goes, dbVars, TxSound, Progress, Rebuilding, Unprepared,
                Unseeded, Checking
  <2> QED BY <1>10, <1>p, <2>1, <2>2 DEF ForeignKeyCheck, Goes, dbVars
<1>11. CASE ForeignKeysOn
  <2>1. TypeOK'
    BY <1>11 DEF ForeignKeysOn, Goes, TypeOK, Statements, dbVars
  <2>2. TxSound' /\ Progress'
    BY <1>11 DEF ForeignKeysOn, Goes, dbVars, TxSound, Progress, Rebuilding, Unprepared,
                Unseeded, Checking
  <2> QED BY <1>11, <1>p, <2>1, <2>2 DEF ForeignKeysOn, Goes, dbVars
<1> QED BY <1>1, <1>2, <1>3, <1>4, <1>5, <1>6, <1>7, <1>8, <1>9, <1>10, <1>11 DEF Rebuild

-----------------------------------------------------------------------------
(* Interruptions. *)
LEMMA InterruptStep ==
  ASSUME MigrationInv, Stop \/ PowerLoss \/ Checkpoint \/ UNCHANGED vars
  PROVE  MigrationInv'
<1> USE DEF MigrationInv
<1>1. CASE Stop
  <2>1. stops' \in 0 .. MaxStops
    BY <1>1 DEF Stop, Ends, TypeOK
  <2>2. TypeOK'
    BY <1>1, <2>1 DEF Stop, Ends, TypeOK, Statements
  <2>3. PastSound'
    BY <1>1 DEF Stop, Ends, PastSound, Sound, KeptRows
  <2>4. TxSound' /\ Progress'
    BY <1>1 DEF Stop, Ends, TxSound, Progress, Rebuilding, Unprepared,
                Unseeded, Checking
  <2> QED BY <2>2, <2>3, <2>4
<1>2. CASE PowerLoss
  <2>1. stops' \in 0 .. MaxStops
    BY <1>2 DEF PowerLoss, Ends, TypeOK
  <2>2. TypeOK'
    BY <1>2, <2>1 DEF PowerLoss, Ends, TypeOK, Statements
  <2>3. PastSound'
    BY <1>2 DEF PowerLoss, Ends, PastSound, Sound, KeptRows
  <2>4. TxSound' /\ Progress'
    BY <1>2 DEF PowerLoss, Ends, TxSound, Progress, Rebuilding, Unprepared,
                Unseeded, Checking
  <2> QED BY <2>2, <2>3, <2>4
<1>3. CASE Checkpoint
  <2>1. TypeOK' /\ PastSound'
    BY <1>3 DEF Checkpoint, TypeOK, PastSound, Sound, KeptRows
  <2>2. TxSound' /\ Progress'
    BY <1>3 DEF Checkpoint, Sound, KeptRows, Referenced, TxSound, Progress, Rebuilding, Unprepared,
                Unseeded, Checking
  <2> QED BY <2>1, <2>2
<1>4. CASE UNCHANGED vars
  <2>1. TypeOK' /\ PastSound'
    BY <1>4 DEF vars, TypeOK, PastSound, Sound, KeptRows
  <2>2. TxSound' /\ Progress'
    BY <1>4 DEF vars, Sound, KeptRows, Referenced, TxSound, Progress, Rebuilding, Unprepared,
                Unseeded, Checking
  <2> QED BY <2>1, <2>2
<1> QED BY <1>1, <1>2, <1>3, <1>4

LEMMA Invariance == Spec => []MigrationInv
<1>1. MigrationInv /\ [Next]_vars => MigrationInv'
  BY SchemaStep, MigrateStep, RebuildStep, InterruptStep DEF Next, Start
<1> QED BY <1>1, InitSound, PTL DEF Spec

-----------------------------------------------------------------------------
\* The database, the transaction and the place in the start keep their types.
THEOREM MigrationTypeCorrect == Spec => []TypeOK
<1>1. MigrationInv => TypeOK
  BY DEF MigrationInv
<1> QED BY <1>1, Invariance, PTL

\* No start of NewSQLiteStore, cut short however often and wherever, loses a
\* key or gives it to another account: rebuildSubscriptionKeyNotNull changes
\* nothing before its commit, and everything before it commits sound databases.
THEOREM NoKeyLost == Spec => []KeysKept
<1>1. MigrationInv => KeysKept
  BY DEF MigrationInv, PastSound, Sound, KeptRows, KeysKept
<1> QED BY <1>1, Invariance, PTL

\* A service that has come through NewSQLiteStore has the NOT NULL column, an
\* existing account for every key, foreign keys on and no leftover table.
THEOREM ServesCurrentSchema == Spec => []ServesMigrated
<1>1. MigrationInv => ServesMigrated
  <2> SUFFICES ASSUME MigrationInv, at = "serving"
               PROVE  /\ db.shape = "not_null" /\ db.old = NoTable
                      /\ foreign_keys
                      /\ "legacy" \in db.accounts
                      /\ \A k \in Keys : db.rows[k] \in {"absent"} \cup db.accounts
    BY DEF ServesMigrated
  <2>1. EarlierVersion(db)
    BY DEF MigrationInv, PastSound, Sound
  <2>2. db.shape = "not_null" /\ foreign_keys /\ "legacy" \in db.accounts
    BY DEF MigrationInv, Progress, Checking, Unseeded, Unprepared
  <2> QED BY <2>1, <2>2 DEF EarlierVersion
<1> QED BY <1>1, Invariance, PTL

\* It has both indexes on the table it serves from, rebuilt or not.
THEOREM ServesBothIndexes == Spec => []ServesIndexed
<1>1. MigrationInv => ServesIndexed
  BY DEF MigrationInv, Progress, Checking, Unprepared, ServesIndexed, Indexes
<1> QED BY <1>1, Invariance, PTL
=============================================================================
