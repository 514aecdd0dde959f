---------------------------- MODULE DataSources ----------------------------
(***************************************************************************)
(* DataSourceManager: a thread per source (GeyserClientWorker) that reads  *)
(* a gRPC stream, hands batches of transactions to the FilterManager and   *)
(* then to the storage; and the GUI thread, which adds, removes and checks *)
(* the sources with the manager's mutex locked.                            *)
(*                                                                         *)
(* Of gRPC this uses a completion queue: it delivers the operation that    *)
(* was posted, with ok or not, in its own time; Shutdown ends the queue    *)
(* when nothing is outstanding, and an operation posted after it ends the  *)
(* process with a failed assertion.                                        *)
(***************************************************************************)
EXTENDS FilterManager, Sequences

CONSTANTS
  MaxReceived,  \* bound on the transactions that each source receives
  MaxCalls      \* bound on the calls that each makes

ASSUME SourcesAssumption == {MaxReceived, MaxCalls} \subseteq [Caller -> Nat]

VARIABLES
  workers,        \* the keys of workers_
  gui,            \* where the GUI thread is, for what, and at which source
  thread,         \* where a worker's thread is; "none" before it is added
  queue,          \* cq_: not created, open, or shut down
  stopRequested,  \* the jthread's stop token
  call,           \* the state of the last AsyncCall
  pending,        \* its operation was posted and not delivered
  calls,          \* the length of activeCalls_
  connected,      \* connected_
  total,          \* totalTransactions_
  batch,          \* the length of batch_
  processed,      \* processedBatches_
  stored,         \* what storeBatch was given: the last transaction of each
  alive           \* the process has not died

ownerVars == <<workers, gui, queue, stopRequested>>
callVars == <<call, pending, calls, connected>>
batchVars == <<total, batch, processed, stored>>
sourceVars == <<ownerVars, thread, callVars, batchVars, alive>>
allVars == <<vars, sourceVars>>

Size == Cardinality(Tx)  \* 100
Idle == [at |-> "idle", why |-> "none"]
Closed == [at |-> "closed", why |-> "clear"]

SourcesInit ==
  /\ Init
  /\ workers = {}
  /\ gui = Idle
  /\ thread = [s \in Caller |-> "none"]
  /\ queue = [s \in Caller |-> "none"]
  /\ stopRequested = [s \in Caller |-> FALSE]
  /\ call = [s \in Caller |-> "START"]
  /\ pending = [s \in Caller |-> FALSE]
  /\ calls = [s \in Caller |-> 0]
  /\ connected = [s \in Caller |-> FALSE]
  /\ total = [s \in Caller |-> 0]
  /\ batch = [s \in Caller |-> 0]
  /\ processed = [s \in Caller |-> 0]
  /\ stored = [s \in Caller |-> <<>>]
  /\ alive = TRUE
-----------------------------------------------------------------------------
\* The worker's thread.

At(s, pc) == alive /\ thread[s] = pc
GoTo(s, pc) == thread' = [thread EXCEPT ![s] = pc]

\* StartCall, Write and Read: the operation is outstanding, and the thread at
\* the loop's test; the process dies if the queue was shut down.
Post(s) ==
  IF queue[s] = "shut"
  THEN alive' = FALSE /\ UNCHANGED <<thread, pending>>
  ELSE /\ pending' = [pending EXCEPT ![s] = TRUE]
       /\ GoTo(s, "test")
       /\ UNCHANGED alive

CreateQueue(s) ==
  /\ At(s, "create")
  /\ queue' = [queue EXCEPT ![s] = "open"]
  /\ GoTo(s, "connect")
  /\ UNCHANGED <<vars, workers, gui, stopRequested, callVars, batchVars, alive>>

\* WaitForConnected returns true.
Connect(s) ==
  /\ At(s, "connect")
  /\ connected' = [connected EXCEPT ![s] = TRUE]
  /\ GoTo(s, "initiate")
  /\ UNCHANGED <<vars, ownerVars, call, pending, calls, batchVars, alive>>

\* "Connection timeout": the thread ends.
ConnectTimeout(s) ==
  /\ At(s, "connect")
  /\ GoTo(s, "ended")
  /\ UNCHANGED <<vars, ownerVars, callVars, batchVars, alive>>

\* A mutant of InitiateAsyncCall: a call that is made is a connection.
InitiateConnected(s) ==
  /\ At(s, "initiate")
  /\ call' = [call EXCEPT ![s] = "START"]
  /\ calls' = [calls EXCEPT ![s] = @ + 1]
  /\ connected' = [connected EXCEPT ![s] = TRUE]
  /\ Post(s)
  /\ UNCHANGED <<vars, ownerVars, batchVars>>

\* initiateAsyncCall
InitiateAsyncCall(s) ==
  /\ At(s, "initiate")
  /\ call' = [call EXCEPT ![s] = "START"]
  /\ calls' = [calls EXCEPT ![s] = @ + 1]
  /\ Post(s)
  /\ UNCHANGED <<vars, ownerVars, connected, batchVars>>

\* while (!stoken.stop_requested() && ...
TestStop(s) ==
  /\ At(s, "test")
  /\ GoTo(s, IF stopRequested[s] THEN "ended" ELSE "next")
  /\ UNCHANGED <<vars, ownerVars, callVars, batchVars, alive>>

\* ... cq_->Next(&tag, &ok)): the operation of this call is delivered.  What
\* the thread does then, up to the next operation, it does on its own.  Next
\* would return false with nothing outstanding, which OneOperation rules out.
Delivered(s, state) == At(s, "next") /\ pending[s] /\ call[s] = state

\* if (!ok): the next statement is initiateAsyncCall.
CallFails(s) ==
  /\ Delivered(s, call[s])
  /\ calls[s] < MaxCalls[s]
  /\ pending' = [pending EXCEPT ![s] = FALSE]
  /\ connected' = [connected EXCEPT ![s] = FALSE]
  /\ GoTo(s, "initiate")
  /\ UNCHANGED <<vars, ownerVars, call, calls, batchVars, alive>>

\* The call has started, or the request was written, or what was read is not
\* a transaction.
Advance(s) ==
  /\ \/ Delivered(s, "START") /\ call' = [call EXCEPT ![s] = "WRITE"]
     \/ Delivered(s, "WRITE") /\ call' = [call EXCEPT ![s] = "READ"]
     \/ Delivered(s, "READ") /\ UNCHANGED call
  /\ Post(s)
  /\ UNCHANGED <<vars, ownerVars, calls, connected, batchVars>>

\* A transaction was read; the batch is handed over when it is full.
Receive(s) ==
  /\ Delivered(s, "READ")
  /\ total[s] < MaxReceived[s]
  /\ total' = [total EXCEPT ![s] = @ + 1]
  /\ batch' = [batch EXCEPT ![s] = @ + 1]
  /\ IF batch[s] + 1 >= Size
     THEN /\ ProcessBatch(s)
          /\ pending' = [pending EXCEPT ![s] = FALSE]
          /\ GoTo(s, "filters")
          /\ UNCHANGED alive
     ELSE UNCHANGED vars /\ Post(s)
  /\ UNCHANGED <<ownerVars, call, calls, connected, processed, stored>>

\* A mutant of BatchReturnsFrom: an exception leaves the batch as it is.
BatchReturnsUncleared(s) ==
  /\ At(s, "filters")
  /\ FinishBatch(s)
  /\ \/ /\ stored' = [stored EXCEPT ![s] = Append(@, total[s])]
        /\ batch' = [batch EXCEPT ![s] = 0]
     \/ UNCHANGED <<stored, batch>>
  /\ processed' = [processed EXCEPT ![s] = @ + 1]
  /\ Post(s)
  /\ UNCHANGED <<ownerVars, call, calls, connected, total>>

\* filter_.processBatch returns, and the batch is stored; or it rethrows what
\* a task could not catch, that no thread could be started for a filter.  The
\* batch is cleared and counted either way.
BatchReturnsFrom(s) ==
  /\ At(s, "filters")
  /\ FinishBatch(s)
  /\ \/ stored' = [stored EXCEPT ![s] = Append(@, total[s])]
     \/ UNCHANGED stored
  /\ batch' = [batch EXCEPT ![s] = 0]
  /\ processed' = [processed EXCEPT ![s] = @ + 1]
  /\ Post(s)
  /\ UNCHANGED <<ownerVars, call, calls, connected, total>>

\* The steps of a thread that wait for nobody.
WorkerStep(s) ==
  \/ CreateQueue(s) \/ Connect(s) \/ ConnectTimeout(s)
  \/ InitiateAsyncCall(s) \/ TestStop(s)

\* What the network delivers.
Delivery(s) == CallFails(s) \/ Advance(s) \/ Receive(s)
-----------------------------------------------------------------------------
\* The GUI thread.

GuiAt(at) == alive /\ gui.at = at
GuiGoTo(at) == gui' = [gui EXCEPT !.at = at]

\* addDataSource: the constructor starts the thread.
AddDataSource(s) ==
  /\ GuiAt("idle")
  /\ thread[s] = "none"
  /\ workers' = workers \cup {s}
  /\ GoTo(s, "create")
  /\ UNCHANGED <<vars, gui, queue, stopRequested, callVars, batchVars, alive>>

\* erase runs the worker's destructor, which calls stop().
Erase(why, s) == gui' = [at |-> "shutdown", why |-> why, source |-> s]

RemoveDataSource(s) ==
  /\ GuiAt("idle")
  /\ s \in workers
  /\ Erase("remove", s)
  /\ UNCHANGED <<vars, workers, queue, stopRequested, thread, callVars,
                 batchVars, alive>>

\* performHealthCheck finds a worker that is not connected.
PerformHealthCheck(s) ==
  /\ GuiAt("idle")
  /\ s \in workers
  /\ ~connected[s]
  /\ Erase("health", s)
  /\ UNCHANGED <<vars, workers, queue, stopRequested, thread, callVars,
                 batchVars, alive>>

\* ~DataSourceManager, with the next worker of the map.
Clear ==
  /\ GuiAt("idle") \/ GuiAt("clear")
  /\ IF workers = {} THEN gui' = Closed
                     ELSE \E s \in workers : Erase("clear", s)
  /\ UNCHANGED <<vars, workers, queue, stopRequested, thread, callVars,
                 batchVars, alive>>

\* if (cq_) cq_->Shutdown();
Shutdown ==
  /\ GuiAt("shutdown")
  /\ queue' = [queue EXCEPT ![gui.source] = IF @ = "open" THEN "shut" ELSE @]
  /\ GuiGoTo("request")
  /\ UNCHANGED <<vars, workers, stopRequested, thread, callVars, batchVars,
                 alive>>

\* worker_.request_stop();
RequestStop ==
  /\ GuiAt("request")
  /\ stopRequested' = [stopRequested EXCEPT ![gui.source] = TRUE]
  /\ GuiGoTo("join")
  /\ UNCHANGED <<vars, workers, queue, thread, callVars, batchVars, alive>>

\* worker_.join() returns.
Joined(s) == thread[s] = "ended"

\* Mutants of Join: the thread is detached; the health check unlocks before it
\* adds the worker again.
JoinAtOnce ==
  /\ GuiAt("join")
  /\ workers' = workers \ {gui.source}
  /\ gui' = IF gui.why = "clear" THEN [gui EXCEPT !.at = "clear"] ELSE Idle
  /\ UNCHANGED <<vars, queue, stopRequested, thread, callVars, batchVars, alive>>

JoinUnlocked ==
  /\ GuiAt("join")
  /\ Joined(gui.source)
  /\ workers' = workers \ {gui.source}
  /\ gui' = IF gui.why = "clear" THEN [gui EXCEPT !.at = "clear"] ELSE Idle
  /\ UNCHANGED <<vars, queue, stopRequested, thread, callVars, batchVars, alive>>

\* What follows the join: the worker is erased.  The health check takes the address of
\* the worker behind the erased one, which may not be there, and calls
\* addDataSource, which locks the mutex that the check has locked: the process
\* dies, or its window never moves again.
Join ==
  /\ GuiAt("join")
  /\ Joined(gui.source)
  /\ workers' = workers \ {gui.source}
  /\ \/ gui.why = "remove" /\ gui' = Idle /\ UNCHANGED alive
     \/ gui.why = "clear" /\ GuiGoTo("clear") /\ UNCHANGED alive
     \/ gui.why = "health" /\ GuiGoTo("relock") /\ UNCHANGED alive
     \/ gui.why = "health" /\ alive' = FALSE /\ UNCHANGED gui
  /\ UNCHANGED <<vars, queue, stopRequested, thread, callVars, batchVars>>

Stopping == Shutdown \/ RequestStop \/ Join

\* The FilterManager's own steps, and its filters, which the user changes.
FilterStep ==
  /\ alive
  /\ \/ \E k \in Task : ProcessTransaction(k) \/ FinishTask(k)
     \/ \E j \in Job : RunJob(j)
  /\ UNCHANGED sourceVars

ChangeFilters ==
  /\ GuiAt("idle")
  /\ Filters
  /\ UNCHANGED sourceVars

SourcesNext ==
  \/ \E s \in Caller :
       \/ WorkerStep(s) \/ Delivery(s) \/ BatchReturnsFrom(s)
       \/ AddDataSource(s) \/ RemoveDataSource(s) \/ PerformHealthCheck(s)
  \/ Clear \/ Stopping
  \/ FilterStep \/ ChangeFilters

SourcesSafe == SourcesInit /\ [][SourcesNext]_allVars

\* The threads of the filters and the one that waits for them run.  What the
\* network delivers and the user does may never come.
SourcesSpec ==
  /\ SourcesSafe
  /\ WF_allVars(FilterStep)
  /\ \A s \in Caller : WF_allVars(BatchReturnsFrom(s))
-----------------------------------------------------------------------------
SourcesTypeOK ==
  /\ workers \subseteq Caller
  /\ gui \in {Idle, Closed}
       \cup [at : {"shutdown", "request", "join", "relock", "clear"},
             why : {"remove", "health", "clear"}, source : Caller]
  /\ thread \in [Caller -> {"none", "create", "connect", "initiate", "test",
                            "next", "filters", "ended"}]
  /\ queue \in [Caller -> {"none", "open", "shut"}]
  /\ call \in [Caller -> {"START", "WRITE", "READ"}]
  /\ stopRequested \in [Caller -> BOOLEAN] /\ pending \in [Caller -> BOOLEAN]
  /\ connected \in [Caller -> BOOLEAN]
  /\ calls \in [Caller -> Nat]
  /\ total \in [Caller -> Nat] /\ batch \in [Caller -> Nat]
  /\ processed \in [Caller -> Nat] /\ stored \in [Caller -> Seq(Nat)]
  /\ alive \in BOOLEAN

\* A thread that is in Next, or goes there, waits for one operation, so the queue
\* never drains and Next never returns false: Shutdown, which relies on that,
\* ends no loop.
OneOperation ==
  \A s \in Caller :
    /\ thread[s] \in {"test", "next"} => pending[s]
    /\ pending[s] => thread[s] \in {"test", "next", "ended"}

\* The queue was shut down where the thread will post an operation before it
\* tests the token.
Doomed(s) ==
  queue[s] = "shut" /\ thread[s] \in {"initiate", "next", "filters"}

\* A stop() that meets the thread anywhere but at the loop's test, before it
\* is connected, or after its end does not return: the thread stays where it
\* waits, or the next operation ends the process.
NoWayOut ==
  [][\A s \in Caller : Doomed(s) => Doomed(s)' /\ workers' = workers]_allVars

\* A source that could not connect, or that lost its first call.
Unhealthy(s) == ~connected[s] /\ (calls[s] > 0 \/ thread[s] = "ended")

\* connected_ is true of the first call only: a source that has lost it is
\* unhealthy for good, though it calls again and receives.  And it is never
\* replaced: it leaves the list when the user removes it, or by a health check
\* that ends with the process dead or the window waiting for its own lock.
UnhealthyToTheEnd ==
  [][\A s \in workers : Unhealthy(s) =>
       IF s \in workers' THEN Unhealthy(s)'
       ELSE gui.why \in {"remove", "clear"} \/ gui'.at = "relock" \/ ~alive']_allVars

\* A job waits for the lock that its task holds, and this source's batch has
\* a transaction that is not through.
Stuck(s) ==
  /\ \E j \in Job : job[j] = "locking"
  /\ \E t \in Tx : task[<<s, t>>] \in {"locking", "waiting"}

\* When a filter has returned, for a transaction of any source, every source
\* that has a batch with the filters stays there: nothing of it is stored, and
\* its thread cannot be joined.
StuckForGood ==
  [][\A s \in Caller :
       Stuck(s) => /\ Stuck(s)'
                   /\ stored'[s] = stored[s]
                   /\ thread'[s] = thread[s]]_allVars

\* No transaction is stored twice, in whatever way its batch came to an end,
\* and the statistics tell how many were received: those of all batches, the
\* lost ones included, and those of the batch to come.
StoredOnce ==
  \A s \in Caller :
    /\ \A i \in DOMAIN stored[s] :
         (IF i = 1 THEN 0 ELSE stored[s][i - 1]) + Size <= stored[s][i]
    /\ thread[s] # "filters" => total[s] = Size * processed[s] + batch[s]

\* As long as only filters that throw are added, every batch comes back, and
\* its source reads on, while the program lives.
BatchesComeBack ==
  [](filters \subseteq Throwing)
    => \A s \in Caller : thread[s] = "filters" ~> thread[s] # "filters" \/ ~alive
=============================================================================
