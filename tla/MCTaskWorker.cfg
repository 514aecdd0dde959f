CONSTANTS
  b1 = b1
  b2 = b2
  Task <- MCTask
  NoTask = NoTask
  Undefined = Undefined
  MaxTasks = 4
SPECIFICATION QueueSpec
INVARIANTS
  FrontIsDefined
  SleeperHasNothingToDo
PROPERTIES
  ImplementsTaskQueue
  StopReturns
\* A worker that has been joined takes no further step.
CHECK_DEADLOCK FALSE
