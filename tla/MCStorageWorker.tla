-------------------------- MODULE MCStorageWorker --------------------------
(* Two batches of different sizes, one key, one backup directory. *)
EXTENDS StorageWorker

CONSTANTS b1, b2, k1, p1

MCBatch == {b1, b2}
MCBatchSize == [b \in MCBatch |-> IF b = b1 THEN 1 ELSE 3]
MCKey == {k1}
MCPath == {p1}
MCTask ==
  [type : {"BATCH"}, batch : MCBatch] \cup [type : {"GET"}, key : MCKey]
    \cup [type : {"BACKUP"}, path : MCPath]
=============================================================================
