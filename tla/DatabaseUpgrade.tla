-------------------------- MODULE DatabaseUpgrade --------------------------
(***************************************************************************)
(* Database.cpp: the constructor of DatabaseContext, which brings the      *)
(* SQLite file to the schema of the installed release.  It reads the       *)
(* version recorded in the table migration; if that is behind, it copies   *)
(* the file into db_backups, lets sqlite_orm's sync_schema rewrite the     *)
(* tables one after another, outside of any transaction, and then records  *)
(* the version.  The process may be killed between any two of these steps, *)
(* and most of them may throw, which ends it as well; then it is started   *)
(* again, perhaps as a newer release.                                      *)
(*                                                                         *)
(* Two tables are modelled, wallets and addresses, whose rows name their   *)
(* wallet by a cascading foreign key.  sync_schema visits the tables in    *)
(* the reverse of their order in initStorage: addresses before wallets,    *)
(* and migration last.                                                     *)
(***************************************************************************)
EXTENDS Naturals, Sequences, SequencesExt

CONSTANTS
  Wallet,      \* rows of wallets; at most one address of each is modelled
  MaxRelease,  \* the last release: release r is built with targetVersion r
  Known,       \* the last version applyMigrations knows (2 in the code)
  Change,      \* how a table of one release differs from that of another
  Threaded,    \* the values of useThreadedBackup that are considered
  MaxBackups,  \* maxBackupCount
  MaxStarts    \* bound on the number of times the process is started

Table == {"addresses", "wallets"}
Release == 1..MaxRelease

\* "same": no column, or only columns to remove; "added": a column that is
\* new, and as every column of initStorage NOT NULL without a default;
\* "altered": a column whose constraints differ.
ASSUME UpgradeAssumption ==
  /\ MaxRelease \in Nat \ {0}
  /\ Known \in Nat \ {0}
  /\ Change \in [Table -> [Release \X Release -> {"same", "added", "altered"}]]
  /\ \A t \in Table, r \in Release : Change[t][<<r, r>>] = "same"
  /\ Threaded \subseteq BOOLEAN
  /\ MaxBackups \in Nat \ {0}
  /\ MaxStarts \in Nat

VARIABLES
  rows,      \* the rows of each table
  shape,     \* the release each table was last given the columns of; 0: none
  version,   \* what getVersion returns: 0 without a table or a row
  backups,   \* what each file in db_backups holds, the newest first
  release,   \* the installed release
  pc,        \* where the constructor is; "off": no process, "running": it
             \* has returned and the application uses the database
  read,      \* the local variable currentVersion
  table,     \* the table sync_schema is at
  aside,     \* the rows backup_table has copied into <table>_backup
  worker,    \* the backup thread: "none", "busy", or how it ended
  starts,    \* how often the process was started
  lost,      \* history: rows an upgrade removed and nobody has added again
  pushed,    \* history: backup files written since lost was empty
  exposed,   \* history: a start went on to sync tables that no file holds
  done       \* history: the last release that was started to its end

disk == <<rows, shape, version, backups>>
history == <<lost, pushed, exposed, done>>
vars == <<disk, release, pc, read, table, aside, worker, starts, history>>

Nothing == [t \in Table |-> {}]

Backing == {"copy", "starting", "looping", "joining"}
Syncing == {"sync", "drop", "restore"}
Resetting == {"resetWallets", "resetMigration"}

TypeOK ==
  /\ rows \in [Table -> SUBSET Wallet]
  /\ shape \in [Table -> 0..MaxRelease]
  /\ version \in 0..MaxRelease
  /\ backups \in Seq([Table -> SUBSET Wallet])
  /\ release \in Release
  /\ pc \in {"off", "migrate", "running"} \cup Backing \cup Syncing \cup Resetting
  /\ read \in 0..MaxRelease
  /\ table \in Table
  /\ aside \in SUBSET Wallet
  /\ worker \in {"none", "busy", "completed", "failed"}
  /\ starts \in Nat
  /\ lost \in [Table -> SUBSET Wallet]
  /\ pushed \in Nat
  /\ exposed \in BOOLEAN
  /\ done \in 0..MaxRelease

Init ==
  /\ rows = Nothing
  /\ shape = [t \in Table |-> 0]
  /\ version = 0
  /\ backups = <<>>
  /\ release \in Release
  /\ pc = "off"
  /\ read = 0
  /\ table = "addresses"
  /\ aside = {}
  /\ worker = "none"
  /\ starts = 0
  /\ lost = Nothing
  /\ pushed = 0
  /\ exposed = FALSE
  /\ done = 0
-----------------------------------------------------------------------------
\* A newer release is installed.
Install ==
  /\ pc = "off"
  /\ release < MaxRelease
  /\ release' = release + 1
  /\ UNCHANGED <<disk, pc, read, table, aside, worker, starts, history>>

\* The tables are about to be rewritten while no file holds their rows.
Expose == exposed' = (exposed \/ rows # Nothing)

\* A mutant of Start: a database whose version is current is upgraded too.
StartAlwaysUpgrades ==
  /\ pc = "off"
  /\ starts < MaxStarts
  /\ starts' = starts + 1
  /\ read' = version
  /\ table' = "addresses"
  /\ \/ /\ version > 0
        /\ \E threaded \in Threaded :
             /\ pc' = IF threaded THEN "starting" ELSE "copy"
             /\ worker' = IF threaded THEN "busy" ELSE "none"
        /\ UNCHANGED exposed
     \/ /\ version = 0
        /\ pc' = "sync"
        /\ Expose
        /\ UNCHANGED worker
  /\ UNCHANGED <<disk, release, aside, lost, pushed, done>>

\* The constructor reads the version.  A database that is behind is backed
\* up, unless its version is 0, and its schema is synchronised.
Start ==
  /\ pc = "off"
  /\ starts < MaxStarts
  /\ starts' = starts + 1
  /\ read' = version
  /\ table' = "addresses"
  /\ \/ /\ 0 < version /\ version < release
        /\ \E threaded \in Threaded :
             /\ pc' = IF threaded THEN "starting" ELSE "copy"
             /\ worker' = IF threaded THEN "busy" ELSE "none"
        /\ UNCHANGED exposed
     \/ /\ version = 0
        /\ pc' = "sync"
        /\ Expose
        /\ UNCHANGED worker
     \/ /\ version >= release
        /\ pc' = "migrate"
        /\ UNCHANGED <<worker, exposed>>
  /\ UNCHANGED <<disk, release, aside, lost, pushed, done>>
-----------------------------------------------------------------------------
\* A mutant of Cleanup: the listing is oldest first.
CleanupKeepsOldest(files) ==
  IF Len(files) > MaxBackups
  THEN SubSeq(files, Len(files) - MaxBackups + 1, Len(files))
  ELSE files

\* cleanupOldBackups: the files beyond the newest maxBackupCount are removed.
Cleanup(files) ==
  IF Len(files) > MaxBackups THEN SubSeq(files, 1, MaxBackups) ELSE files

Count == pushed' = IF lost = Nothing THEN 0 ELSE pushed + 1

\* createBackup: QFile::copy, which leaves no file of that name if it fails;
\* a failure is only logged.
CopyFile ==
  /\ pc = "copy"
  /\ pc' = "sync"
  /\ \/ /\ backups' = Cleanup(<<rows>> \o backups)
        /\ Count
        /\ UNCHANGED exposed
     \/ /\ UNCHANGED <<backups, pushed>>
        /\ Expose
  /\ UNCHANGED <<rows, shape, version, release, read, table, aside, worker,
                 starts, lost, done>>

\* The thread's performBackup.  backup_to drops the result of its only step:
\* a copy that failed leaves an empty file, and is reported as completed.
\* Its signal is handled in the thread itself: quit() reaches the loop only
\* if exec() has been entered.
PerformBackup ==
  /\ worker = "busy"
  /\ pc' = IF pc = "looping" THEN "joining" ELSE pc
  /\ \/ /\ backups' = <<rows>> \o backups
        /\ worker' = "completed"
        /\ Count
        /\ UNCHANGED exposed
     \/ /\ backups' = <<Nothing>> \o backups
        /\ worker' = "completed"
        /\ Count
        /\ Expose
     \/ /\ worker' = "failed"
        /\ Expose
        /\ UNCHANGED <<backups, pushed>>
  /\ UNCHANGED <<rows, shape, version, release, read, table, aside, starts,
                 lost, done>>

\* createBackup_async: loop.exec()
EnterLoop ==
  /\ pc = "starting"
  /\ pc' = "looping"
  /\ UNCHANGED <<disk, release, read, table, aside, worker, starts, history>>

\* A mutant of TimerFires: the timer is only set while the thread is busy.
TimerFiresIfBusy ==
  /\ pc = "looping"
  /\ worker = "busy"
  /\ pc' = "joining"
  /\ UNCHANGED <<disk, release, read, table, aside, worker, starts, history>>

\* The single shot of 30 seconds.
TimerFires ==
  /\ pc = "looping"
  /\ pc' = "joining"
  /\ UNCHANGED <<disk, release, read, table, aside, worker, starts, history>>

\* backupThread->wait(): a backup that is late is waited for all the same.
Join ==
  /\ pc = "joining"
  /\ worker # "busy"
  /\ backups' = IF worker = "completed" THEN Cleanup(backups) ELSE backups
  /\ worker' = "none"
  /\ pc' = "sync"
  /\ UNCHANGED <<rows, shape, version, release, read, table, aside, starts,
                 history>>
-----------------------------------------------------------------------------
\* What follows the table t in sync_schema.
After(t) ==
  IF t = "addresses" THEN pc' = "sync" /\ table' = "wallets"
                     ELSE pc' = "migrate" /\ UNCHANGED table

\* sync_table: a table that is missing is created, one that fits is left.
SyncTable ==
  /\ pc = "sync"
  /\ \/ shape[table] = 0
     \/ shape[table] # 0 /\ Change[table][<<shape[table], release>>] = "same"
  /\ shape' = [shape EXCEPT ![table] = release]
  /\ After(table)
  /\ UNCHANGED <<rows, version, backups, release, read, aside, worker, starts,
                 history>>

\* sync_table: "altered" has its rows copied aside (backup_table); "added" is
\* recreated with loss, though preserve is set.
BeginRewrite ==
  /\ pc = "sync"
  /\ shape[table] # 0
  /\ \/ /\ Change[table][<<shape[table], release>>] = "altered"
        /\ aside' = rows[table]
     \/ /\ Change[table][<<shape[table], release>>] = "added"
        /\ aside' = {}
  /\ pc' = "drop"
  /\ UNCHANGED <<disk, release, read, table, worker, starts, history>>

\* DROP TABLE, with foreign keys on: dropping wallets deletes its rows first,
\* and the addresses that refer to them.
DropTable ==
  /\ pc = "drop"
  /\ LET gone == IF table = "wallets" THEN Table ELSE {table} IN
       /\ rows' = [t \in Table |-> IF t \in gone THEN {} ELSE rows[t]]
       /\ lost' = [t \in Table |->
                     IF t \in gone THEN lost[t] \cup rows[t] ELSE lost[t]]
  /\ shape' = [shape EXCEPT ![table] = 0]
  /\ pc' = "restore"
  /\ UNCHANGED <<version, backups, release, read, table, aside, worker, starts,
                 pushed, exposed, done>>

\* The copy is renamed, or the table created again, empty.
RestoreTable ==
  /\ pc = "restore"
  /\ rows' = [rows EXCEPT ![table] = aside]
  /\ lost' = [lost EXCEPT ![table] = @ \ aside]
  /\ shape' = [shape EXCEPT ![table] = release]
  /\ aside' = {}
  /\ After(table)
  /\ UNCHANGED <<version, backups, release, read, worker, starts, pushed,
                 exposed, done>>
-----------------------------------------------------------------------------
\* A mutant of Migrate: the version is recorded before the schema is there.
MigrateEarly(v) ==
  /\ pc \in {"migrate", "sync"}
  /\ v = read + 1
  /\ v <= release
  /\ version' = v
  /\ read' = v
  /\ UNCHANGED <<rows, shape, backups, release, pc, table, aside, worker,
                 starts, history>>

\* applyMigrations: the transaction that records version v.
Migrate(v) ==
  /\ pc = "migrate"
  /\ v = read + 1
  /\ v <= release
  /\ version' = v
  /\ read' = v
  /\ UNCHANGED <<rows, shape, backups, release, pc, table, aside, worker,
                 starts, history>>

\* applyMigrations: the version is compared once more, and the constructor
\* returns.
Finish ==
  /\ pc = "migrate"
  /\ ~\E v \in 1..Known : read < v /\ v <= release
  /\ version' = read
  /\ pc' = "running"
  /\ done' = release
  /\ UNCHANGED <<rows, shape, backups, release, read, table, aside, worker,
                 starts, lost, pushed, exposed>>
-----------------------------------------------------------------------------
\* WalletRepo::insert
AddWallet(w) ==
  /\ pc = "running"
  /\ rows' = [rows EXCEPT !["wallets"] = @ \cup {w}]
  /\ lost' = [lost EXCEPT !["wallets"] = @ \ {w}]
  /\ UNCHANGED <<shape, version, backups, release, pc, read, table, aside,
                 worker, starts, pushed, exposed, done>>

\* AddressRepo::insert, of an existing wallet
AddAddress(w) ==
  /\ pc = "running"
  /\ w \in rows["wallets"]
  /\ rows' = [rows EXCEPT !["addresses"] = @ \cup {w}]
  /\ lost' = [lost EXCEPT !["addresses"] = @ \ {w}]
  /\ UNCHANGED <<shape, version, backups, release, pc, read, table, aside,
                 worker, starts, pushed, exposed, done>>

\* Database::reset: a statement of its own removes the rows of each table, the
\* addresses first, then the wallets, and at last the row with the version.
ResetAddresses ==
  /\ pc = "running"
  /\ rows' = [rows EXCEPT !["addresses"] = {}]
  /\ pc' = "resetWallets"
  /\ UNCHANGED <<shape, version, backups, release, read, table, aside, worker,
                 starts, history>>

ResetWallets ==
  /\ pc = "resetWallets"
  /\ rows' = [rows EXCEPT !["wallets"] = {}]
  /\ pc' = "resetMigration"
  /\ UNCHANGED <<shape, version, backups, release, read, table, aside, worker,
                 starts, history>>

ResetMigration ==
  /\ pc = "resetMigration"
  /\ version' = 0
  /\ done' = 0
  /\ pc' = "running"
  /\ UNCHANGED <<rows, shape, backups, release, read, table, aside, worker,
                 starts, lost, pushed, exposed>>

Reset == ResetAddresses \/ ResetWallets \/ ResetMigration

\* The process is closed or killed, or a step throws: DatabaseError leaves
\* the constructors and main().  A thread that is writing leaves an empty
\* file behind, or none.
End ==
  /\ pc # "off"
  /\ pc' = "off"
  /\ aside' = {}
  /\ worker' = "none"
  /\ \/ UNCHANGED <<backups, pushed>>
     \/ /\ worker = "busy"
        /\ backups' = <<Nothing>> \o backups
        /\ Count
  /\ UNCHANGED <<rows, shape, version, release, read, table, starts, lost,
                 exposed, done>>
-----------------------------------------------------------------------------
Application ==
  \/ \E w \in Wallet : AddWallet(w) \/ AddAddress(w)
  \/ Reset

Constructor ==
  \/ CopyFile \/ EnterLoop \/ Join
  \/ SyncTable \/ BeginRewrite \/ DropTable \/ RestoreTable
  \/ \E v \in 1..Known : Migrate(v)
  \/ Finish

Next ==
  \/ Install
  \/ Start
  \/ Constructor
  \/ PerformBackup
  \/ TimerFires
  \/ Application
  \/ End

SafeSpec == Init /\ [][Next]_vars

\* The GUI thread and the backup thread run, and the timer fires.
Fairness ==
  /\ WF_vars(Constructor)
  /\ WF_vars(PerformBackup)
  /\ WF_vars(TimerFires)

Spec == SafeSpec /\ Fairness
-----------------------------------------------------------------------------
\* An application that runs finds the tables of its own release, however
\* often the upgrade before it was interrupted: the version is recorded only
\* once the whole schema is there.
SchemaIsTheReleases ==
  pc = "running" => \A t \in Table : shape[t] = release

\* What an upgrade removed from a table is in a backup, unless one of three
\* things has happened: some start went on without a file that holds the rows
\* (its backup failed, or the version was 0 because of a reset()); or the
\* upgrade was begun again maxBackupCount times, each time with a new copy of
\* the already rewritten database.
LossIsInABackup ==
  \/ exposed
  \/ pushed >= MaxBackups
  \/ \A t \in Table : lost[t] \subseteq UNION {b[t] : b \in ToSet(backups)}

\* A release whose constructor has once come to its end does not back up or
\* rewrite anything again, unless applyMigrations does not know its version:
\* then every start does.
UpgradesOnce ==
  pc \in Backing \cup Syncing => release # done \/ release > Known

\* The constructor comes to its end, or the process does: the backup that
\* completes before the loop is entered costs 30 seconds and no more.
StartupEnds ==
  pc \in Backing \cup Syncing \cup {"migrate"} ~> pc \in {"off", "running"}
=============================================================================
