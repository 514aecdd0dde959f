----------------------------- MODULE TaskWorker -----------------------------
(***************************************************************************)
(* The worker thread of StorageManager.cpp (the same protocol is repeated  *)
(* in NotificationManager.cpp): a std::queue behind a mutex, a condition   *)
(* variable, the flag shouldRun_ and the stop token of a std::jthread.     *)
(*                                                                         *)
(* tasks_ and shouldRun_ are only touched under mutex_, so each critical   *)
(* section is one action.  The stop token is not under the mutex: the      *)
(* loop's test of it, request_stop() and join() are steps of their own.    *)
(***************************************************************************)
EXTENDS Naturals, Sequences

CONSTANTS
  Task,       \* what can be enqueued
  NoTask,     \* the worker holds no task
  Undefined,  \* what front() of an empty std::queue yields
  MaxTasks    \* bound on the number of tasks ever enqueued

ASSUME TaskAssumption ==
  /\ NoTask \notin Task
  /\ Undefined \notin Task \cup {NoTask}
  /\ MaxTasks \in Nat

VARIABLES
  tasks,          \* tasks_
  shouldRun,      \* shouldRun_
  stopRequested,  \* the jthread's stop token
  pc,             \* where the worker thread is
  current,        \* the worker's local variable task
  owner,          \* how far the owner's stop() has come
  submitted,      \* history: every task pushed
  taken           \* history: every task popped

queueVars == <<tasks, shouldRun, stopRequested, pc, current, owner,
               submitted, taken>>

\* "test": at the while condition; "lock": about to take the mutex and
\* evaluate the wait predicate; "asleep": blocked in condition_.wait;
\* "process": in processTask; "ended": run() has returned.
WorkerPC == {"test", "lock", "asleep", "process", "ended"}

\* "running": the destructor has not started; then the three statements of
\* stop() that other threads can observe.
OwnerPC == {"running", "flagged", "requested", "joined"}

QueueTypeOK ==
  /\ tasks \in Seq(Task)
  /\ shouldRun \in BOOLEAN
  /\ stopRequested \in BOOLEAN
  /\ pc \in WorkerPC
  /\ current \in Task \cup {NoTask, Undefined}
  /\ pc # "process" => current = NoTask
  /\ owner \in OwnerPC
  /\ submitted \in Seq(Task)
  /\ taken \in Seq(Task)

QueueInit ==
  /\ tasks = <<>>
  /\ shouldRun = TRUE
  /\ stopRequested = FALSE
  /\ pc = "test"
  /\ current = NoTask
  /\ owner = "running"
  /\ submitted = <<>>
  /\ taken = <<>>
-----------------------------------------------------------------------------
\* notify_one and notify_all: there is one waiter at most.
Notify == pc' = IF pc = "asleep" THEN "lock" ELSE pc

\* Mutants of Enqueue: the notification forgotten; a stack for a queue.
EnqueueSilently(t) ==
  /\ owner = "running"
  /\ Len(submitted) < MaxTasks
  /\ tasks' = Append(tasks, t)
  /\ submitted' = Append(submitted, t)
  /\ UNCHANGED <<pc, shouldRun, stopRequested, current, owner, taken>>

EnqueueInFront(t) ==
  /\ owner = "running"
  /\ Len(submitted) < MaxTasks
  /\ tasks' = <<t>> \o tasks
  /\ submitted' = Append(submitted, t)
  /\ Notify
  /\ UNCHANGED <<shouldRun, stopRequested, current, owner, taken>>

\* enqueueBatch, enqueueGetRequest, enqueueBackupRequest.
Enqueue(t) ==
  /\ owner = "running"
  /\ Len(submitted) < MaxTasks
  /\ tasks' = Append(tasks, t)
  /\ submitted' = Append(submitted, t)
  /\ Notify
  /\ UNCHANGED <<shouldRun, stopRequested, current, owner, taken>>

\* while (!stoken.stop_requested())
TestStop ==
  /\ pc = "test"
  /\ pc' = IF stopRequested THEN "ended" ELSE "lock"
  /\ UNCHANGED <<tasks, shouldRun, stopRequested, current, owner,
                 submitted, taken>>

\* The predicate of condition_.wait.
MayProceed == tasks # <<>> \/ ~shouldRun \/ stopRequested

\* wait() finds its predicate false and releases the mutex.
Sleep ==
  /\ pc = "lock"
  /\ ~MayProceed
  /\ pc' = "asleep"
  /\ UNCHANGED <<tasks, shouldRun, stopRequested, current, owner,
                 submitted, taken>>

\* A condition variable may wake its waiter for no reason.
SpuriousWakeup ==
  /\ pc = "asleep"
  /\ pc' = "lock"
  /\ UNCHANGED <<tasks, shouldRun, stopRequested, current, owner,
                 submitted, taken>>

\* if (!shouldRun_ && tasks_.empty()) break;
Break ==
  /\ pc = "lock"
  /\ MayProceed
  /\ ~shouldRun /\ tasks = <<>>
  /\ pc' = "ended"
  /\ UNCHANGED <<tasks, shouldRun, stopRequested, current, owner,
                 submitted, taken>>

\* task = std::move(tasks_.front()); tasks_.pop();  Nothing here tests that
\* the queue holds a task.
Pop ==
  /\ pc = "lock"
  /\ MayProceed
  /\ ~(~shouldRun /\ tasks = <<>>)
  /\ pc' = "process"
  /\ IF tasks = <<>>
     THEN /\ current' = Undefined
          /\ UNCHANGED <<tasks, taken>>
     ELSE /\ current' = Head(tasks)
          /\ tasks' = Tail(tasks)
          /\ taken' = Append(taken, Head(tasks))
  /\ UNCHANGED <<shouldRun, stopRequested, owner, submitted>>

\* processTask returns (it catches every std::exception).
Finish ==
  /\ pc = "process"
  /\ pc' = "test"
  /\ current' = NoTask
  /\ UNCHANGED <<tasks, shouldRun, stopRequested, owner, submitted, taken>>
-----------------------------------------------------------------------------
\* Mutants of SetFlag: no notification; only the notification.
SetFlagSilently ==
  /\ owner = "running"
  /\ owner' = "flagged"
  /\ shouldRun' = FALSE
  /\ UNCHANGED <<tasks, stopRequested, pc, current, submitted, taken>>

OnlyNotify ==
  /\ owner = "running"
  /\ owner' = "flagged"
  /\ Notify
  /\ UNCHANGED <<tasks, shouldRun, stopRequested, current, submitted, taken>>

\* stop(): the flag and the notification, under the mutex.
SetFlag ==
  /\ owner = "running"
  /\ owner' = "flagged"
  /\ shouldRun' = FALSE
  /\ Notify
  /\ UNCHANGED <<tasks, stopRequested, current, submitted, taken>>

\* stop(): worker_.request_stop().  The condition variable is not notified.
RequestStop ==
  /\ owner = "flagged"
  /\ owner' = "requested"
  /\ stopRequested' = TRUE
  /\ UNCHANGED <<tasks, shouldRun, pc, current, submitted, taken>>

\* stop(): worker_.join() returns once run() has.
Join ==
  /\ owner = "requested"
  /\ pc = "ended"
  /\ owner' = "joined"
  /\ UNCHANGED <<tasks, shouldRun, stopRequested, pc, current, submitted,
                 taken>>
-----------------------------------------------------------------------------
QueueStep == TestStop \/ Sleep \/ Break \/ Pop

QueueNext ==
  \/ \E t \in Task : Enqueue(t)
  \/ QueueStep
  \/ SpuriousWakeup
  \/ Finish
  \/ SetFlag
  \/ RequestStop
  \/ Join

\* The worker thread runs, a task's processing ends, and a destructor that
\* was entered runs to its end.  Nobody has to call it.
QueueFairness ==
  /\ WF_queueVars(QueueStep)
  /\ WF_queueVars(Finish)
  /\ WF_queueVars(RequestStop)
  /\ WF_queueVars(Join)

QueueSafeSpec == QueueInit /\ [][QueueNext]_queueVars

QueueSpec == QueueSafeSpec /\ QueueFairness
-----------------------------------------------------------------------------
\* Properties.

\* front() is never called on an empty queue.  Pop relies on shouldRun_ being
\* cleared before the stop token is set: with a stop requested first, a woken
\* worker would find its predicate true, shouldRun_ still set and no task.
FrontIsDefined == current # Undefined

\* No lost wakeup: whoever sleeps in condition_.wait has nothing to do, so no
\* task and no stop() ever waits for a notification that has already gone.
SleeperHasNothingToDo == pc = "asleep" => tasks = <<>> /\ shouldRun

\* The worker has taken a prefix of what was enqueued, and tasks_ is exactly
\* the rest: nothing is lost, duplicated or reordered between the threads,
\* and stop() leaves what it does not drain in the queue.
TakenThenQueued == submitted = taken \o tasks

\* The worker implements the mailbox: order, at-most-once, and the two
\* liveness promises (a task is taken unless the worker ends; a stopped
\* worker ends).
Mailbox == INSTANCE TaskQueue
             WITH open <- shouldRun, ended <- (pc = "ended")

ImplementsTaskQueue == Mailbox!Spec

\* stop() always returns: join() is not left waiting for a thread that sleeps
\* or that keeps taking tasks.
StopReturns == (owner = "flagged") ~> (owner = "joined")
=============================================================================
