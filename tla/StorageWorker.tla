--------------------------- MODULE StorageWorker ---------------------------
(***************************************************************************)
(* StorageManager.cpp: the TaskWorker thread writing transaction batches   *)
(* to RocksDB, answering gets and taking backups, with a process that may  *)
(* be killed at any step and started again on the same database.           *)
(***************************************************************************)
EXTENDS TaskWorker, SequencesExt

CONSTANTS
  Batch,        \* the non-empty batches a monitor may store
  BatchSize,    \* how many transactions each holds
  Key,          \* keys that may be asked for
  Path,         \* backup directories
  MaxSessions   \* bound on the number of times the process is started

BatchTask  == [type : {"BATCH"}, batch : Batch]
GetTask    == [type : {"GET"}, key : Key]
BackupTask == [type : {"BACKUP"}, path : Path]

ASSUME StorageAssumption ==
  /\ BatchSize \in [Batch -> Nat \ {0}]
  /\ Task = BatchTask \cup GetTask \cup BackupTask
  /\ MaxSessions \in Nat \ {0}

VARIABLES
  db,            \* the batches RocksDB holds, in the order of their writes
  backups,       \* per directory, what the last backup there holds
  written,       \* processBatch has written, and not yet counted, its batch
  totalBatches,  \* totalBatches_
  totalStored,   \* totalStoredTransactions_
  session,       \* how many times the process was started
  opened,        \* history: Len(db) when this session opened the database
  failed         \* history: positions in taken of the tasks that failed

storageVars == <<db, backups, written, totalBatches, totalStored,
                 session, opened, failed>>
vars == <<queueVars, storageVars>>

\* processTask's switch.
Processing(type) == pc = "process" /\ current.type = type

Init ==
  /\ QueueInit
  /\ db = <<>>
  /\ backups = [p \in Path |-> <<>>]
  /\ written = FALSE
  /\ totalBatches = 0
  /\ totalStored = 0
  /\ session = 1
  /\ opened = 0
  /\ failed = {}
-----------------------------------------------------------------------------
\* storeBatch, getTransaction and backupData forward to the worker's queue.
Request(t) == Enqueue(t) /\ UNCHANGED storageVars

\* The steps of the thread and of stop() that touch nothing but the queue.
QueueOnly(A) == A /\ UNCHANGED storageVars

Fail == failed' = failed \cup {Len(taken)}

\* A mutant of WriteBatch: the write is done again after it succeeded.
WriteAgain ==
  /\ Processing("BATCH")
  /\ db' = Append(db, current.batch)
  /\ written' = TRUE
  /\ Len(db) < MaxTasks
  /\ UNCHANGED <<queueVars, backups, totalBatches, totalStored,
                 session, opened, failed>>

\* db_->Write(options, &writeBatch) with the WAL on: once it has returned, a
\* killed process finds the batch again.
WriteBatch ==
  /\ Processing("BATCH")
  /\ ~written
  /\ db' = Append(db, current.batch)
  /\ written' = TRUE
  /\ UNCHANGED <<queueVars, backups, totalBatches, totalStored,
                 session, opened, failed>>

\* A mutant of WriteFails: a failed write is counted like any other.
CountFailure ==
  /\ Processing("BATCH")
  /\ ~written
  /\ Finish
  /\ Fail
  /\ totalStored' = totalStored + BatchSize[current.batch]
  /\ totalBatches' = totalBatches + 1
  /\ UNCHANGED <<db, backups, written, session, opened>>

\* A status that is not ok: logged, and the batch is gone.
WriteFails ==
  /\ Processing("BATCH")
  /\ ~written
  /\ Finish
  /\ Fail
  /\ UNCHANGED <<db, backups, written, totalBatches, totalStored,
                 session, opened>>

\* The statistics, after the write.
CountBatch ==
  /\ Processing("BATCH")
  /\ written
  /\ Finish
  /\ totalStored' = totalStored + BatchSize[current.batch]
  /\ totalBatches' = totalBatches + 1
  /\ written' = FALSE
  /\ UNCHANGED <<db, backups, session, opened, failed>>

\* processGetRequest looks the key up; what it finds stays in a local, and
\* nothing emits transactionRetrieved.
Get ==
  /\ Processing("GET")
  /\ Finish
  /\ UNCHANGED <<db, backups, written, totalBatches, totalStored, session, opened, failed>>

\* CreateNewBackup copies the database as it stands.
Backup ==
  /\ Processing("BACKUP")
  /\ Finish
  /\ backups' = [backups EXCEPT ![current.path] = db]
  /\ UNCHANGED <<db, written, totalBatches, totalStored, session,
                 opened, failed>>

BackupFails ==
  /\ Processing("BACKUP")
  /\ Finish
  /\ Fail
  /\ UNCHANGED <<db, backups, written, totalBatches, totalStored,
                 session, opened>>

\* The process ends, killed anywhere or after an orderly stop, and the next
\* one opens the database: whatever was in memory is gone.
Reopen ==
  /\ session < MaxSessions
  /\ session' = session + 1
  /\ tasks' = <<>> /\ shouldRun' = TRUE /\ stopRequested' = FALSE
  /\ pc' = "test" /\ current' = NoTask /\ owner' = "running"
  /\ submitted' = <<>> /\ taken' = <<>>
  /\ written' = FALSE /\ totalBatches' = 0 /\ totalStored' = 0
  /\ opened' = Len(db)
  /\ failed' = {}
  /\ UNCHANGED <<db, backups>>
-----------------------------------------------------------------------------
Process ==
  WriteBatch \/ WriteFails \/ CountBatch \/ Get \/ Backup \/ BackupFails

Next ==
  \/ \E t \in Task : Request(t)
  \/ QueueOnly(QueueStep)
  \/ QueueOnly(SpuriousWakeup)
  \/ Process
  \/ QueueOnly(SetFlag)
  \/ QueueOnly(RequestStop)
  \/ QueueOnly(Join)
  \/ Reopen

SafeSpec == Init /\ [][Next]_vars

Spec ==
  /\ SafeSpec
  /\ WF_vars(QueueOnly(QueueStep))
  /\ WF_vars(Process)
  /\ WF_vars(QueueOnly(RequestStop))
  /\ WF_vars(QueueOnly(Join))
-----------------------------------------------------------------------------
\* Properties.

\* The batches this session has written.
SessionWrites == SubSeq(db, opened + 1, Len(db))

\* Position i of taken is a batch whose processBatch has written it.
IsWritten(i) ==
  /\ taken[i].type = "BATCH"
  /\ i \notin failed
  /\ (i = Len(taken) /\ pc = "process") => written

Written == {i \in DOMAIN taken : IsWritten(i)}

\* RocksDB holds exactly the batches taken so far whose write succeeded, once
\* each and in the order in which they were enqueued, so a later value of a
\* key is never overwritten by an earlier one: the n-th of them is the n-th
\* that this session wrote.
DbFollowsQueue ==
  /\ Len(SessionWrites) = Cardinality(Written)
  /\ \A i \in Written :
       SessionWrites[Cardinality({j \in Written : j <= i})] = taken[i].batch

\* What has been counted, and how many transactions each batch of it holds.
Counted == IF written THEN Front(SessionWrites) ELSE SessionWrites
Sizes == [k \in DOMAIN Counted |-> BatchSize[Counted[k]]]

\* What the statistics report never runs ahead of the database: the counters
\* are those of this session's writes, less the one not yet counted.
CountersFollowDb ==
  /\ totalBatches = Len(Counted)
  /\ totalStored = FoldLeft(+, 0, Sizes)

\* The database and the statistics both follow the queue, through failed
\* writes, stops that leave tasks behind, kills and a restart.
StorageFollowsQueue == DbFollowsQueue /\ CountersFollowDb

\* The first position at which t was enqueued.
FirstAt(t) ==
  CHOOSE k \in DOMAIN submitted :
    /\ submitted[k] = t
    /\ \A j \in 1..(k - 1) : submitted[j] # t

\* Whatever a backup changes in a directory, the files there then hold every
\* batch that was enqueued before the first request for that directory, but for
\* those whose write failed.
BackupHoldsEarlierBatches ==
  [][\A p \in Path :
       backups'[p] # backups[p] =>
         \A j \in 1..(FirstAt(current) - 1) :
           submitted[j].type = "BATCH" /\ j \notin failed
             => submitted[j].batch \in Range(backups'[p])]_vars
=============================================================================
