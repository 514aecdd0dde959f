--------------------------- MODULE FilterManager ---------------------------
(***************************************************************************)
(* FilterManager.cpp: the filters of the Solana monitor, and the threads   *)
(* that run them.  processBatch starts one std::async task for every       *)
(* transaction of a batch and waits for all of them; each task locks       *)
(* mutex_, starts one job for every filter, and waits for the jobs with    *)
(* the lock held; a job whose filter returned locks mutex_ again to count  *)
(* the hit.  The GUI thread adds and removes filters and reads the         *)
(* counters under the same lock.                                           *)
(***************************************************************************)
EXTENDS Naturals, FiniteSets

CONSTANTS
  Caller,     \* the worker threads that hand over batches
  Tx,         \* the transactions of a batch
  Filter,     \* names under which filters may be added
  Throwing,   \* the filters whose processTransaction throws
  Free        \* nobody holds mutex_

ASSUME FilterAssumption ==
  /\ Tx # {}
  /\ IsFiniteSet(Tx)
  /\ IsFiniteSet(Filter)
  /\ Throwing \subseteq Filter
  /\ Free \notin Caller \X Tx

VARIABLES
  filters,    \* the keys of filters_
  hits,       \* filterHits_
  holder,     \* the task that holds mutex_, or Free
  waiting,    \* the callers inside processBatch
  task,       \* the state of a transaction's processTransaction
  job,        \* the state of a filter's lambda
  answer      \* what a finished task returned: processBatch adds them up

vars == <<filters, hits, holder, waiting, task, job, answer>>

Task == Caller \X Tx
Job == Task \X Filter

TypeOK ==
  /\ filters \subseteq Filter
  /\ hits \in [Filter -> Nat]
  /\ holder \in Task \cup {Free}
  /\ waiting \subseteq Caller
  /\ task \in [Task -> {"off", "locking", "waiting", "done"}]
  /\ job \in [Job -> {"off", "filtering", "locking", "true", "false"}]
  /\ answer \in [Task -> Nat]
  /\ \A k \in Task : holder = k <=> task[k] = "waiting"
  /\ \A k \in Task : task[k] # "off" => k[1] \in waiting

Init ==
  /\ filters = {}
  /\ hits = [f \in Filter |-> 0]
  /\ holder = Free
  /\ waiting = {}
  /\ task = [k \in Task |-> "off"]
  /\ job = [j \in Job |-> "off"]
  /\ answer = [k \in Task |-> 0]
-----------------------------------------------------------------------------
\* addFilter: a filter of that name is replaced and counts from zero.
AddFilter(f) ==
  /\ holder = Free
  /\ filters' = filters \cup {f}
  /\ hits' = [hits EXCEPT ![f] = 0]
  /\ UNCHANGED <<holder, waiting, task, job, answer>>

\* removeFilter
RemoveFilter(f) ==
  /\ holder = Free
  /\ filters' = filters \ {f}
  /\ hits' = [hits EXCEPT ![f] = 0]
  /\ UNCHANGED <<holder, waiting, task, job, answer>>

\* processBatch starts its tasks.
ProcessBatch(c) ==
  /\ c \notin waiting
  /\ waiting' = waiting \cup {c}
  /\ task' = [k \in Task |-> IF k[1] = c THEN "locking" ELSE task[k]]
  /\ UNCHANGED <<filters, hits, holder, job, answer>>

\* processTransaction takes the lock and starts a job for every filter.
ProcessTransaction(k) ==
  /\ task[k] = "locking"
  /\ holder = Free
  /\ holder' = k
  /\ task' = [task EXCEPT ![k] = "waiting"]
  /\ job' = [j \in Job |->
       IF j[1] = k /\ j[2] \in filters THEN "filtering" ELSE job[j]]
  /\ UNCHANGED <<filters, hits, waiting, answer>>

\* A step of the lambda: its filter throws, which it catches, or returns; one
\* that returned then locks mutex_ and counts the hit.
RunJob(j) ==
  /\ job[j] \in {"filtering", "locking"}
  /\ job[j] = "locking" => holder = Free
  /\ job' = [job EXCEPT ![j] = IF @ = "locking" THEN "true"
                               ELSE IF j[2] \in Throwing THEN "false"
                               ELSE "locking"]
  /\ hits' = IF job[j] = "locking" THEN [hits EXCEPT ![j[2]] = @ + 1] ELSE hits
  /\ UNCHANGED <<filters, holder, waiting, task, answer>>

JobsOf(k) == {j \in Job : j[1] = k}

\* A mutant of FinishTask: the task does not wait for its jobs.
FinishTaskEarly(k) ==
  /\ task[k] = "waiting"
  /\ holder' = Free
  /\ task' = [task EXCEPT ![k] = "done"]
  /\ answer' = [answer EXCEPT ![k] =
                  Cardinality({j \in JobsOf(k) : job[j] = "true"})]
  /\ UNCHANGED <<filters, hits, waiting, job>>

\* A mutant of FinishTask: the task returns without unlocking.
FinishTaskLocked(k) ==
  /\ task[k] = "waiting"
  /\ \A j \in JobsOf(k) : job[j] \notin {"filtering", "locking"}
  /\ task' = [task EXCEPT ![k] = "done"]
  /\ answer' = [answer EXCEPT ![k] =
                  Cardinality({j \in JobsOf(k) : job[j] = "true"})]
  /\ job' = [j \in Job |-> IF j[1] = k THEN "off" ELSE job[j]]
  /\ UNCHANGED <<filters, hits, holder, waiting>>

\* processTransaction has every job's answer: it counts those that returned
\* true and unlocks.
FinishTask(k) ==
  /\ task[k] = "waiting"
  /\ \A j \in JobsOf(k) : job[j] \notin {"filtering", "locking"}
  /\ holder' = Free
  /\ task' = [task EXCEPT ![k] = "done"]
  /\ answer' = [answer EXCEPT ![k] =
                  Cardinality({j \in JobsOf(k) : job[j] = "true"})]
  /\ job' = [j \in Job |-> IF j[1] = k THEN "off" ELSE job[j]]
  /\ UNCHANGED <<filters, hits, waiting>>

\* processBatch has every task's answer and returns.
FinishBatch(c) ==
  /\ c \in waiting
  /\ \A t \in Tx : task[<<c, t>>] = "done"
  /\ waiting' = waiting \ {c}
  /\ task' = [k \in Task |-> IF k[1] = c THEN "off" ELSE task[k]]
  /\ UNCHANGED <<filters, hits, holder, job, answer>>
-----------------------------------------------------------------------------
Filters == \E f \in Filter : AddFilter(f) \/ RemoveFilter(f)

Work ==
  \/ \E k \in Task : ProcessTransaction(k) \/ FinishTask(k)
  \/ \E j \in Job : RunJob(j)
  \/ \E c \in Caller : FinishBatch(c)

Next ==
  \/ Filters
  \/ \E c \in Caller : ProcessBatch(c)
  \/ Work

SafeSpec == Init /\ [][Next]_vars
-----------------------------------------------------------------------------
\* A job that wants the lock waits for the task that holds it, and that task
\* waits for the job: a filter that returns stops the manager for good.
LockedByItsTask ==
  \A j \in Job : job[j] = "locking" => holder = j[1] /\ task[j[1]] = "waiting"

\* So no hit is ever counted, and no task reports one to its batch.
NothingIsCounted ==
  /\ \A f \in Filter : hits[f] = 0
  /\ \A k \in Task : answer[k] = 0

\* Once a filter has returned, the lock is never free again: whoever asks for
\* it, the GUI thread included, waits for ever.
NeverUnlocked ==
  [][\A k \in Task : (\E j \in JobsOf(k) : job[j] = "locking") => holder' = k]_vars
=============================================================================
