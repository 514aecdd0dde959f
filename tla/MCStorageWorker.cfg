CONSTANTS
  b1 = b1
  b2 = b2
  k1 = k1
  p1 = p1
  Batch <- MCBatch
  BatchSize <- MCBatchSize
  Key <- MCKey
  Path <- MCPath
  Task <- MCTask
  NoTask = NoTask
  Undefined = Undefined
  MaxTasks = 3
  MaxSessions = 2
SPECIFICATION SafeSpec
INVARIANTS
  StorageFollowsQueue
PROPERTIES
  BackupHoldsEarlierBatches
\* A worker that has been joined takes no further step.
CHECK_DEADLOCK FALSE
