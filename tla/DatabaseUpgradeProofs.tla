----------------------- MODULE DatabaseUpgradeProofs -----------------------
(***************************************************************************)
(* The safety of an upgrade for any number of wallets, releases, starts    *)
(* and backups, whatever the releases change in the two tables.            *)
(***************************************************************************)
EXTENDS DatabaseUpgrade, TLAPS

LEMMA Bounds ==
  /\ MaxRelease \in Nat \ {0}
  /\ Known \in Nat \ {0}
  /\ MaxBackups \in Nat \ {0}
  BY UpgradeAssumption

USE Bounds DEF Table, Release

\* The backup thread exists while the constructor waits for it.
WorkerAgrees == worker # "none" <=> pc \in {"starting", "looping", "joining"}

\* The version recorded is behind while the schema is rewritten, and not
\* ahead of it afterwards.
VersionAgrees ==
  /\ version <= release
  /\ pc \in Backing \cup Syncing => read = version /\ version < release
  /\ pc = "migrate" => read = version
  /\ pc \in {"migrate", "running"} \cup Resetting => \A t \in Table : shape[t] = release
  /\ version = release => \A t \in Table : shape[t] = release
  /\ pc \in Backing => table = "addresses"
  /\ pc \in Syncing /\ table = "wallets" => shape["addresses"] = release

\* A release that has come to its end has recorded its version, if
\* applyMigrations knows it.
DoneAgrees ==
  /\ done <= release
  /\ done = release /\ release <= Known => version = release

VInv == TypeOK /\ WorkerAgrees /\ VersionAgrees /\ DoneAgrees

File == [Table -> SUBSET Wallet]

LEMMA NothingType == Nothing \in File
  BY DEF Nothing, File

\* The two histories that a backup touches keep their types.
LEMMA ExposeType ==
  ASSUME exposed \in BOOLEAN, Expose \/ UNCHANGED exposed
  PROVE  exposed' \in BOOLEAN
<1>1. CASE Expose
  <2>1. (exposed \/ rows # Nothing) \in BOOLEAN
    OBVIOUS
  <2> QED
    BY <1>1, <2>1 DEF Expose
<1> QED
  BY <1>1

LEMMA CountType ==
  ASSUME pushed \in Nat, Count \/ UNCHANGED pushed
  PROVE  pushed' \in Nat
  BY DEF Count

LEMMA InitVInv == Init => VInv
<1> SUFFICES ASSUME Init
             PROVE  VInv
  OBVIOUS
<1>1. rows \in File /\ lost \in File /\ backups \in Seq(File)
  BY NothingType DEF Init
<1>2. shape \in [Table -> 0..MaxRelease]
  BY DEF Init
<1>3. TypeOK
  BY <1>1, <1>2 DEF Init, TypeOK, File
<1> QED
  BY <1>3 DEF Init, VInv, WorkerAgrees, VersionAgrees, DoneAgrees, Backing,
     Syncing, Resetting

LEMMA CleanupType ==
  ASSUME NEW S, NEW files \in Seq(S)
  PROVE  /\ Cleanup(files) \in Seq(S)
         /\ Len(Cleanup(files)) <= Len(files)
         /\ Len(files) <= MaxBackups => Cleanup(files) = files
         /\ Len(files) > MaxBackups => Len(Cleanup(files)) = MaxBackups
         /\ \A i \in 1..Len(Cleanup(files)) : Cleanup(files)[i] = files[i]
  BY DEF Cleanup

LEMMA PushType ==
  ASSUME NEW S, NEW files \in Seq(S), NEW f \in S
  PROVE  /\ <<f>> \o files \in Seq(S)
         /\ Len(<<f>> \o files) = Len(files) + 1
         /\ (<<f>> \o files)[1] = f
         /\ \A i \in 1..Len(files) : (<<f>> \o files)[i + 1] = files[i]
  OBVIOUS

\* Every step but DropTable and the insertions leaves a well-typed state by
\* its shape alone.
LEMMA NextVInv == VInv /\ [Next]_vars => VInv'
<1> SUFFICES ASSUME VInv, [Next]_vars
             PROVE  VInv'
  OBVIOUS
<1> USE DEF VInv, TypeOK, WorkerAgrees, VersionAgrees, DoneAgrees, Backing,
        Syncing, Resetting, disk, history
<1>1. CASE Install
  <2>1. release' = release + 1 /\ release' \in Release
    BY <1>1 DEF Install
  <2> QED
    BY <1>1, <2>1 DEF Install
<1>2. CASE Start
  <2>0. exposed' \in BOOLEAN
    BY <1>2, ExposeType DEF Start
  <2>1. TypeOK'
    BY <1>2, <2>0 DEF Start
  <2>2. WorkerAgrees' /\ VersionAgrees' /\ DoneAgrees'
    BY <1>2 DEF Start, Expose
  <2> QED
    BY <2>1, <2>2
<1>3. CASE CopyFile
  <2>1. backups' \in Seq(File)
    <3>1. rows \in File /\ backups \in Seq(File)
      BY DEF File
    <3>2. <<rows>> \o backups \in Seq(File)
      BY <3>1
    <3>3. Cleanup(<<rows>> \o backups) \in Seq(File)
      BY <3>2, CleanupType
    <3> QED
      BY <1>3, <3>1, <3>3 DEF CopyFile
  <2>0. exposed' \in BOOLEAN /\ pushed' \in Nat
    BY <1>3, ExposeType, CountType DEF CopyFile
  <2>2. TypeOK'
    BY <1>3, <2>0, <2>1 DEF CopyFile, File
  <2>3. WorkerAgrees' /\ VersionAgrees' /\ DoneAgrees'
    BY <1>3 DEF CopyFile, Count, Expose
  <2> QED
    BY <2>2, <2>3
<1>4. CASE EnterLoop
  BY <1>4 DEF EnterLoop
<1>5. CASE Join
  <2>1. backups' \in Seq([Table -> SUBSET Wallet])
    BY <1>5, CleanupType DEF Join
  <2> QED
    BY <1>5, <2>1 DEF Join
<1>6. CASE SyncTable
  BY <1>6 DEF SyncTable, After
<1>7. CASE BeginRewrite
  BY <1>7 DEF BeginRewrite
<1>8. CASE DropTable
  <2>1. rows' \in [Table -> SUBSET Wallet] /\ lost' \in [Table -> SUBSET Wallet]
    BY <1>8 DEF DropTable
  <2> QED
    BY <1>8, <2>1 DEF DropTable
<1>9. CASE RestoreTable
  BY <1>9 DEF RestoreTable, After
<1>10. ASSUME NEW v \in 1..Known, Migrate(v)
       PROVE  VInv'
  BY <1>10 DEF Migrate
<1>11. CASE Finish
  BY <1>11 DEF Finish
<1>12. CASE PerformBackup
  <2>1. backups' \in Seq(File)
    <3>1. rows \in File /\ backups \in Seq(File)
      BY DEF File
    <3>2. <<rows>> \o backups \in Seq(File) /\ <<Nothing>> \o backups \in Seq(File)
      BY <3>1, NothingType
    <3> QED
      BY <1>12, <3>1, <3>2 DEF PerformBackup
  <2>0. exposed' \in BOOLEAN /\ pushed' \in Nat
    BY <1>12, ExposeType, CountType DEF PerformBackup
  <2>2. TypeOK'
    BY <1>12, <2>0, <2>1 DEF PerformBackup, File
  <2>3. WorkerAgrees' /\ VersionAgrees' /\ DoneAgrees'
    BY <1>12 DEF PerformBackup, Count, Expose
  <2> QED
    BY <2>2, <2>3
<1>13. CASE TimerFires
  BY <1>13 DEF TimerFires
<1>14. CASE Application
  <2>1. ASSUME NEW w \in Wallet, AddWallet(w)
        PROVE  VInv'
    BY <2>1 DEF AddWallet
  <2>2. ASSUME NEW w \in Wallet, AddAddress(w)
        PROVE  VInv'
    BY <2>2 DEF AddAddress
  <2>3. CASE Reset
    BY <2>3 DEF Reset, ResetAddresses, ResetWallets, ResetMigration
  <2> QED
    BY <1>14, <2>1, <2>2, <2>3 DEF Application
<1>15. CASE End
  <2>1. backups' \in Seq(File)
    <3>1. backups \in Seq(File)
      BY DEF File
    <3>2. <<Nothing>> \o backups \in Seq(File)
      BY <3>1, NothingType
    <3> QED
      BY <1>15, <3>1, <3>2 DEF End
  <2> QED
    BY <1>15, <2>1 DEF End, Count, File
<1>16. CASE UNCHANGED vars
  BY <1>16 DEF vars
<1> QED
  BY <1>1, <1>2, <1>3, <1>4, <1>5, <1>6, <1>7, <1>8, <1>9, <1>10, <1>11, <1>12,
     <1>13, <1>14, <1>15, <1>16 DEF Next, Constructor

LEMMA VInvAlways == SafeSpec => []VInv
  BY InitVInv, NextVInv, PTL DEF SafeSpec

\* The tables, the files and the constructor's variables keep their types.
THEOREM TypeCorrect == SafeSpec => []TypeOK
  BY VInvAlways, PTL DEF VInv

\* Whatever interrupts an upgrade, an application that runs has the tables of
\* its release.
THEOREM AlwaysSchema == SafeSpec => []SchemaIsTheReleases
<1>1. VInv => SchemaIsTheReleases
  BY DEF VInv, VersionAgrees, SchemaIsTheReleases
<1> QED
  BY <1>1, VInvAlways, PTL

\* A release that has come to its end backs up and rewrites nothing more.
THEOREM AlwaysUpgradesOnce == SafeSpec => []UpgradesOnce
<1>1. VInv => UpgradesOnce
  BY DEF VInv, TypeOK, VersionAgrees, DoneAgrees, UpgradesOnce
<1> QED
  BY <1>1, VInvAlways, PTL
-----------------------------------------------------------------------------
\* Where the rows are.  What was lost is in one of the first n + 1 files.
Covers(files, n) ==
  \A t \in Table : \A w \in lost[t] :
    \E i \in 1..Len(files) : i <= n + 1 /\ w \in files[i][t]

Newest(files, t) == IF Len(files) = 0 THEN {} ELSE files[1][t]

Holds(files) == \A t \in Table : rows[t] \subseteq Newest(files, t)

\* The files written since the first loss, and the one before them, hold what
\* was lost; while tables are rewritten, the newest holds what they hold.
HInv ==
  /\ ~exposed /\ pushed < MaxBackups => Covers(backups, pushed)
  /\ ~exposed /\ pc \in Syncing =>
       Holds(backups) /\ aside \subseteq Newest(backups, table)
  /\ ~exposed /\ worker = "completed" => Holds(backups)
  /\ ~exposed /\ worker = "failed" => rows = Nothing
  /\ pc \notin {"drop", "restore"} => aside = {}

LEMMA InitHInv == Init => HInv
  BY DEF Init, HInv, Covers, Nothing, Syncing

\* A file that is put in front is the newest, and no file older than it is
\* forgotten by the count.
LEMMA PushCovers ==
  ASSUME NEW files \in Seq(File), NEW f \in File, NEW n \in Nat, Covers(files, n)
  PROVE  Covers(<<f>> \o files, n + 1)
<1> SUFFICES ASSUME NEW t \in Table, NEW w \in lost[t]
             PROVE  \E i \in 1..Len(<<f>> \o files) :
                      i <= n + 2 /\ w \in (<<f>> \o files)[i][t]
  BY DEF Covers
<1>1. PICK i \in 1..Len(files) : i <= n + 1 /\ w \in files[i][t]
  BY DEF Covers
<1>2. /\ i + 1 \in 1..Len(<<f>> \o files)
      /\ i + 1 <= n + 2
      /\ (<<f>> \o files)[i + 1] = files[i]
  BY <1>1, PushType
<1> QED
  BY <1>1, <1>2

LEMMA CountCovers ==
  ASSUME VInv, HInv, ~exposed, Count, pushed' < MaxBackups, NEW f \in File
  PROVE  Covers(<<f>> \o backups, pushed')
<1>1. backups \in Seq(File) /\ pushed \in Nat
  BY DEF VInv, TypeOK, File
<1>2. CASE lost = Nothing
  BY <1>2 DEF Covers, Nothing
<1>3. CASE lost # Nothing
  <2>1. pushed' = pushed + 1 /\ pushed < MaxBackups
    BY <1>1, <1>3 DEF Count
  <2> QED
    BY <1>1, <2>1, PushCovers DEF HInv
<1> QED
  BY <1>2, <1>3

LEMMA PushHolds ==
  ASSUME NEW files \in Seq(File), NEW f \in File, \A t \in Table : rows[t] \subseteq f[t]
  PROVE  Holds(<<f>> \o files)
  BY PushType DEF Holds, Newest

\* Cleaning up keeps the newest file, and those that the count covers.
LEMMA CleanupCovers ==
  ASSUME NEW files \in Seq(File), NEW n \in Nat, n < MaxBackups, Covers(files, n)
  PROVE  Covers(Cleanup(files), n)
<1> SUFFICES ASSUME NEW t \in Table, NEW w \in lost[t]
             PROVE  \E i \in 1..Len(Cleanup(files)) :
                      i <= n + 1 /\ w \in Cleanup(files)[i][t]
  BY DEF Covers
<1>1. PICK i \in 1..Len(files) : i <= n + 1 /\ w \in files[i][t]
  BY DEF Covers
<1> QED
  BY <1>1, CleanupType

LEMMA CleanupNewest ==
  ASSUME NEW files \in Seq(File), NEW t
  PROVE  Newest(Cleanup(files), t) = Newest(files, t)
  BY CleanupType DEF Newest

\* Steps that touch no file, no table and no history.
LEMMA QuietHInv ==
  ASSUME HInv, UNCHANGED <<rows, backups, lost, pushed, exposed, aside, worker>>,
         pc' \in Syncing => pc \in Syncing /\ table' = table,
         pc \in {"drop", "restore"} => pc' \in {"drop", "restore"} \/ aside = {}
  PROVE  HInv'
  BY DEF HInv, Covers, Holds, Newest

LEMMA StartHInv == VInv /\ HInv /\ Start => HInv'
<1> SUFFICES ASSUME VInv, HInv, Start
             PROVE  HInv'
  OBVIOUS
<1>0. pc = "off" /\ worker = "none"
  BY DEF Start, VInv, WorkerAgrees
<1>1. /\ UNCHANGED <<rows, backups, lost, pushed, aside>>
      /\ aside = {}
      /\ worker' \in {"none", "busy"}
  BY <1>0 DEF Start, HInv, disk
<1>2. ~exposed' => ~exposed
  BY ExposeType DEF Start, Expose, VInv, TypeOK
<1>3. ~exposed' /\ pc' \in Syncing => rows = Nothing
  BY <1>0 DEF Start, Expose, Syncing
<1>4. ~exposed' /\ pc' \in Syncing => Holds(backups)' /\ aside' = {}
  BY <1>1, <1>3 DEF Holds, Nothing
<1> QED
  BY <1>0, <1>1, <1>2, <1>4 DEF HInv, Covers, Newest

LEMMA CopyHInv == VInv /\ HInv /\ CopyFile => HInv'
<1> SUFFICES ASSUME VInv, HInv, CopyFile
             PROVE  HInv'
  OBVIOUS
<1>1. /\ backups \in Seq(File) /\ rows \in File /\ pushed \in Nat
      /\ worker = "none" /\ aside = {} /\ UNCHANGED <<rows, lost, worker, aside>>
      /\ pc' = "sync"
  BY DEF CopyFile, VInv, TypeOK, WorkerAgrees, HInv, File
<1>2. CASE backups' = Cleanup(<<rows>> \o backups) /\ Count /\ UNCHANGED exposed
  <2>1. <<rows>> \o backups \in Seq(File)
    BY <1>1
  <2>2. Holds(<<rows>> \o backups)
    BY <1>1, PushHolds
  <2>3. Holds(backups)'
    BY <1>1, <1>2, <2>1, <2>2, CleanupNewest DEF Holds
  <2>4. pushed' \in Nat
    BY <1>1, <1>2, CountType
  <2>5. ASSUME ~exposed', pushed' < MaxBackups
        PROVE  Covers(backups, pushed)'
    <3>1. Covers(<<rows>> \o backups, pushed')
      BY <1>1, <1>2, <2>5, CountCovers
    <3>2. Covers(Cleanup(<<rows>> \o backups), pushed')
      BY <2>1, <2>4, <2>5, <3>1, CleanupCovers
    <3> QED
      BY <1>1, <1>2, <3>2 DEF Covers
  <2> QED
    BY <1>1, <2>3, <2>5 DEF HInv
<1>3. CASE UNCHANGED <<backups, pushed>> /\ Expose
  <2>1. ~exposed' => ~exposed /\ rows = Nothing
    BY <1>3 DEF Expose
  <2> QED
    BY <1>1, <1>3, <2>1 DEF HInv, Covers, Holds, Nothing
<1> QED
  BY <1>2, <1>3 DEF CopyFile

LEMMA PerformHInv == VInv /\ HInv /\ PerformBackup => HInv'
<1> SUFFICES ASSUME VInv, HInv, PerformBackup
             PROVE  HInv'
  OBVIOUS
<1>1. /\ backups \in Seq(File) /\ rows \in File /\ pushed \in Nat
      /\ UNCHANGED <<rows, lost, aside>>
      /\ aside = {}
      /\ pc' \notin Syncing
  BY DEF PerformBackup, VInv, TypeOK, WorkerAgrees, HInv, File, Syncing
<1>2. ~exposed' => ~exposed
  BY DEF PerformBackup, Expose
<1>3. ASSUME NEW f \in File, backups' = <<f>> \o backups, Count,
             ~exposed', pushed' < MaxBackups
      PROVE  Covers(backups, pushed)'
  <2>1. Covers(<<f>> \o backups, pushed')
    BY <1>2, <1>3, CountCovers
  <2> QED
    BY <1>1, <1>3, <2>1 DEF Covers
<1>4. CASE /\ backups' = <<rows>> \o backups
           /\ worker' = "completed" /\ Count /\ UNCHANGED exposed
  <2>1. Holds(<<rows>> \o backups)
    BY <1>1, PushHolds
  <2> QED
    BY <1>1, <1>2, <1>3, <1>4, <2>1 DEF HInv, Holds
<1>5. CASE /\ backups' = <<Nothing>> \o backups
           /\ worker' = "completed" /\ Count /\ Expose
  <2>1. ~exposed' => rows = Nothing
    BY <1>5 DEF Expose
  <2>2. ~exposed' => Holds(backups)'
    BY <1>1, <2>1 DEF Holds, Nothing
  <2> QED
    BY <1>1, <1>2, <1>3, <1>5, <2>2, NothingType DEF HInv
<1>6. CASE worker' = "failed" /\ Expose /\ UNCHANGED <<backups, pushed>>
  <2>1. ~exposed' => rows' = Nothing
    BY <1>1, <1>6 DEF Expose
  <2> QED
    BY <1>1, <1>2, <1>6, <2>1 DEF HInv, Covers, Nothing
<1> QED
  BY <1>4, <1>5, <1>6 DEF PerformBackup

LEMMA JoinHInv == VInv /\ HInv /\ Join => HInv'
<1> SUFFICES ASSUME VInv, HInv, Join
             PROVE  HInv'
  OBVIOUS
<1>1. /\ backups \in Seq(File) /\ pushed \in Nat
      /\ worker \in {"completed", "failed"} /\ worker' = "none"
      /\ aside = {} /\ pc' = "sync"
      /\ UNCHANGED <<rows, lost, aside, pushed, exposed, table>>
  BY DEF Join, VInv, TypeOK, WorkerAgrees, HInv, File, history
<1>2. CASE worker = "completed"
  <2>1. backups' = Cleanup(backups)
    BY <1>2 DEF Join
  <2>2. ~exposed => Holds(Cleanup(backups))
    BY <1>1, <1>2, CleanupNewest DEF HInv, Holds
  <2>3. ~exposed /\ pushed < MaxBackups => Covers(Cleanup(backups), pushed)
    BY <1>1, CleanupCovers DEF HInv
  <2> QED
    BY <1>1, <2>1, <2>2, <2>3 DEF HInv, Holds, Covers
<1>3. CASE worker = "failed"
  BY <1>1, <1>3 DEF Join, HInv, Holds, Covers, Nothing
<1> QED
  BY <1>1, <1>2, <1>3

LEMMA DropHInv == VInv /\ HInv /\ DropTable => HInv'
<1> SUFFICES ASSUME VInv, HInv, DropTable
             PROVE  HInv'
  OBVIOUS
<1>1. /\ backups \in Seq(File) /\ pushed \in Nat
      /\ rows \in File /\ lost \in File
      /\ pc = "drop" /\ pc' = "restore" /\ worker = "none"
      /\ UNCHANGED <<backups, aside, table, worker, pushed, exposed>>
  BY DEF DropTable, VInv, TypeOK, WorkerAgrees, File
<1>2. \A t \in Table : rows'[t] \subseteq rows[t] /\ lost'[t] \subseteq lost[t] \cup rows[t]
  BY <1>1 DEF DropTable, File
<1>3. ~exposed => Holds(backups)
  BY <1>1 DEF HInv, Syncing
<1>4. ~exposed => Holds(backups)'
  BY <1>1, <1>2, <1>3 DEF Holds, Newest
<1>5. ASSUME ~exposed, pushed < MaxBackups, NEW t \in Table, NEW w \in lost'[t]
      PROVE  \E i \in 1..Len(backups) : i <= pushed + 1 /\ w \in backups[i][t]
  <2>1. CASE w \in lost[t]
    BY <1>5, <2>1 DEF HInv, Covers
  <2>2. CASE w \in rows[t]
    <3>1. w \in Newest(backups, t)
      BY <1>3, <1>5, <2>2 DEF Holds
    <3>2. 1 \in 1..Len(backups) /\ w \in backups[1][t]
      BY <1>1, <3>1 DEF Newest
    <3> QED
      BY <1>1, <3>2
  <2> QED
    BY <1>2, <1>5, <2>1, <2>2
<1> QED
  BY <1>1, <1>4, <1>5 DEF HInv, Covers, Syncing, Newest

LEMMA RestoreHInv == VInv /\ HInv /\ RestoreTable => HInv'
<1> SUFFICES ASSUME VInv, HInv, RestoreTable
             PROVE  HInv'
  OBVIOUS
<1>1. /\ rows \in File /\ lost \in File /\ table \in Table
      /\ pc = "restore" /\ worker = "none" /\ aside' = {}
      /\ UNCHANGED <<backups, worker, pushed, exposed>>
  BY DEF RestoreTable, VInv, TypeOK, WorkerAgrees, File
<1>2. \A t \in Table : lost'[t] \subseteq lost[t]
  BY <1>1 DEF RestoreTable, File
<1>3. ~exposed => Holds(backups) /\ aside \subseteq Newest(backups, table)
  BY <1>1 DEF HInv, Syncing
<1>4. ~exposed => Holds(backups)'
  BY <1>1, <1>3 DEF RestoreTable, Holds, Newest, File
<1> QED
  BY <1>1, <1>2, <1>4 DEF HInv, Covers, Newest

LEMMA EndHInv == VInv /\ HInv /\ End => HInv'
<1> SUFFICES ASSUME VInv, HInv, End
             PROVE  HInv'
  OBVIOUS
<1>1. /\ UNCHANGED <<rows, lost, exposed>>
      /\ pc' \notin Syncing /\ worker' = "none" /\ aside' = {}
  BY DEF End, Syncing
<1>2. CASE UNCHANGED <<backups, pushed>>
  BY <1>1, <1>2 DEF HInv, Covers
<1>3. CASE backups' = <<Nothing>> \o backups /\ Count
  <2>1. ~exposed' /\ pushed' < MaxBackups => Covers(backups, pushed)'
    <3>1. ~exposed' /\ pushed' < MaxBackups => Covers(<<Nothing>> \o backups, pushed')
      BY <1>1, <1>3, CountCovers, NothingType
    <3> QED
      BY <1>1, <1>3, <3>1 DEF Covers
  <2> QED
    BY <1>1, <2>1 DEF HInv
<1> QED
  BY <1>2, <1>3 DEF End

LEMMA ApplicationHInv == VInv /\ HInv /\ Application => HInv'
<1> SUFFICES ASSUME VInv, HInv, Application
             PROVE  HInv'
  OBVIOUS
<1> USE DEF Application, AddWallet, AddAddress, Reset, ResetAddresses, ResetWallets,
        ResetMigration
<1>1. /\ UNCHANGED <<backups, pushed, exposed, worker, aside>>
      /\ pc' \notin Syncing /\ worker = "none" /\ aside = {}
  BY DEF VInv, WorkerAgrees, HInv, history, Syncing
<1>2. \A t \in Table : lost'[t] \subseteq lost[t]
  BY DEF VInv, TypeOK, history
<1> QED
  BY <1>1, <1>2 DEF HInv, Covers, Syncing

LEMMA NextHInv == VInv /\ HInv /\ [Next]_vars => HInv'
<1> SUFFICES ASSUME VInv, HInv, [Next]_vars
             PROVE  HInv'
  OBVIOUS
<1>1. CASE Install \/ EnterLoop \/ TimerFires \/ Finish \/ UNCHANGED vars
  BY <1>1, QuietHInv DEF Install, EnterLoop, TimerFires, Finish, vars, disk, history, HInv,
     Syncing
<1>2. CASE SyncTable
  BY <1>2 DEF SyncTable, After, HInv, Covers, Holds, Newest, Syncing, history
<1>3. CASE BeginRewrite
  <2>1. ~exposed => Holds(backups)
    BY <1>3 DEF BeginRewrite, HInv, Syncing
  <2>2. ~exposed => aside' \subseteq Newest(backups, table)
    BY <1>3, <2>1 DEF BeginRewrite, Holds, VInv, TypeOK
  <2> QED
    BY <1>3, <2>1, <2>2 DEF BeginRewrite, HInv, Covers, Holds, Newest, disk, history
<1>4. ASSUME NEW v \in 1..Known, Migrate(v)
      PROVE  HInv'
  BY <1>4, QuietHInv DEF Migrate, Syncing, history
<1> QED
  BY <1>1, <1>2, <1>3, <1>4, StartHInv, CopyHInv, PerformHInv, JoinHInv, DropHInv,
     RestoreHInv, EndHInv, ApplicationHInv DEF Next, Constructor

LEMMA HInvAlways == SafeSpec => []HInv
  BY VInvAlways, InitHInv, NextHInv, PTL DEF SafeSpec

\* Whatever an upgrade removed is in a backup, unless a start went on without
\* one or the upgrade was begun maxBackupCount times more.
THEOREM AlwaysInABackup == SafeSpec => []LossIsInABackup
<1>1. VInv /\ HInv => LossIsInABackup
  <2> SUFFICES ASSUME VInv, HInv, ~exposed, ~(pushed >= MaxBackups), NEW t \in Table,
                      NEW w \in lost[t]
               PROVE  \E b \in ToSet(backups) : w \in b[t]
    BY DEF LossIsInABackup
  <2>1. pushed < MaxBackups
    BY DEF VInv, TypeOK
  <2>2. PICK i \in 1..Len(backups) : w \in backups[i][t]
    BY <2>1 DEF HInv, Covers
  <2> QED
    BY <2>2 DEF ToSet, VInv, TypeOK
<1> QED
  BY <1>1, VInvAlways, HInvAlways, PTL
=============================================================================
