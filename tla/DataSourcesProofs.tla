------------------------ MODULE DataSourcesProofs --------------------------
(***************************************************************************)
(* For any number of sources, transactions in a batch and filters, and     *)
(* without bounds on what is received: a stop() that comes at the wrong    *)
(* moment never returns, an unhealthy source is never replaced, one filter *)
(* that returns holds every batch, and no transaction is stored twice.     *)
(*                                                                         *)
(* The first part is about the FilterManager alone, whoever its callers    *)
(* are; the second about the sources, which are its callers.               *)
(***************************************************************************)
EXTENDS DataSources, FiniteSetTheorems, TLAPS

USE FilterAssumption

\* A job is under way only inside its task's wait, and no job has counted.
JobsAreInside ==
  \A j \in Job : /\ job[j] \in {"filtering", "locking"} => task[j[1]] = "waiting"
                 /\ job[j] # "true"

Inv == TypeOK /\ JobsAreInside /\ NothingIsCounted

LEMMA InitInv == Init => Inv
<1> SUFFICES ASSUME Init
             PROVE  Inv
  OBVIOUS
<1> QED
  BY DEF Init, Inv, TypeOK, JobsAreInside, NothingIsCounted, Task, Job

\* A task whose jobs counted nothing returns zero.
LEMMA NoHits ==
  ASSUME JobsAreInside, NEW k \in Task
  PROVE  Cardinality({j \in JobsOf(k) : job[j] = "true"}) = 0
<1>1. {j \in JobsOf(k) : job[j] = "true"} = {}
  BY DEF JobsAreInside, JobsOf
<1> QED
  BY <1>1, FS_EmptySet

LEMMA Pairs ==
  /\ \A j \in Job : j[1] \in Task /\ j[2] \in Filter
  /\ \A k \in Task : k[1] \in Caller /\ k[2] \in Tx /\ k # Free
  BY DEF Job, Task

LEMMA NextInv == Inv /\ [Next]_vars => Inv'
<1> SUFFICES ASSUME Inv, [Next]_vars
             PROVE  Inv'
  OBVIOUS
<1> USE Pairs DEF Inv
<1>1. CASE Filters
  BY <1>1 DEF Filters, AddFilter, RemoveFilter, TypeOK, JobsAreInside,
              NothingIsCounted
<1>2. ASSUME NEW c \in Caller, ProcessBatch(c)
      PROVE  Inv'
  <2>1. \A k \in Task : k[1] = c => task[k] = "off"
    BY <1>2 DEF ProcessBatch, TypeOK
  <2>2. TypeOK'
    BY <1>2, <2>1 DEF ProcessBatch, TypeOK
  <2>3. JobsAreInside'
    BY <1>2, <2>1 DEF ProcessBatch, TypeOK, JobsAreInside
  <2> QED
    BY <1>2, <2>2, <2>3 DEF ProcessBatch, NothingIsCounted
<1>3. ASSUME NEW k \in Task, ProcessTransaction(k)
      PROVE  Inv'
  <2>1. TypeOK'
    BY <1>3 DEF ProcessTransaction, TypeOK
  <2>2. JobsAreInside'
    BY <1>3 DEF ProcessTransaction, TypeOK, JobsAreInside
  <2> QED
    BY <1>3, <2>1, <2>2 DEF ProcessTransaction, NothingIsCounted
<1>4. ASSUME NEW j \in Job, RunJob(j)
      PROVE  Inv'
  <2>1. job[j] = "filtering"
    BY <1>4 DEF RunJob, TypeOK, JobsAreInside
  <2>2. TypeOK'
    BY <1>4, <2>1 DEF RunJob, TypeOK
  <2>3. JobsAreInside'
    BY <1>4, <2>1 DEF RunJob, TypeOK, JobsAreInside
  <2> QED
    BY <1>4, <2>1, <2>2, <2>3 DEF RunJob, NothingIsCounted
<1>5. ASSUME NEW k \in Task, FinishTask(k)
      PROVE  Inv'
  <2>1. answer' = [answer EXCEPT ![k] = 0]
    BY <1>5, NoHits DEF FinishTask
  <2>2. TypeOK'
    BY <1>5, <2>1 DEF FinishTask, TypeOK
  <2>3. JobsAreInside'
    BY <1>5 DEF FinishTask, TypeOK, JobsAreInside
  <2>4. hits' = hits
    BY <1>5 DEF FinishTask
  <2>5. NothingIsCounted'
    BY <2>1, <2>4 DEF NothingIsCounted, TypeOK
  <2> QED
    BY <2>2, <2>3, <2>5
<1>6. ASSUME NEW c \in Caller, FinishBatch(c)
      PROVE  Inv'
  <2>1. \A k \in Task : k[1] = c => task[k] = "done"
    BY <1>6 DEF FinishBatch, Task
  <2>2. TypeOK'
    BY <1>6, <2>1 DEF FinishBatch, TypeOK
  <2>3. JobsAreInside'
    BY <1>6, <2>1 DEF FinishBatch, TypeOK, JobsAreInside
  <2> QED
    BY <1>6, <2>2, <2>3 DEF FinishBatch, NothingIsCounted
<1>7. CASE UNCHANGED vars
  BY <1>7 DEF vars, TypeOK, JobsAreInside, NothingIsCounted
<1> QED
  BY <1>1, <1>2, <1>3, <1>4, <1>5, <1>6, <1>7 DEF Next, Work

LEMMA InvAlways == SafeSpec => []Inv
  BY InitInv, NextInv, PTL DEF SafeSpec

\* The types of the locks, tasks and jobs; the holder is the task that waits.
THEOREM TypeCorrect == SafeSpec => []TypeOK
  BY InvAlways, PTL DEF Inv

\* A job that wants mutex_ waits for the task that holds it.
THEOREM AlwaysLockedByItsTask == SafeSpec => []LockedByItsTask
<1>1. Inv => LockedByItsTask
  BY Pairs DEF Inv, TypeOK, JobsAreInside, LockedByItsTask
<1> QED
  BY <1>1, InvAlways, PTL

\* No filter is ever credited with a hit, and no task reports one.
THEOREM NeverCounted == SafeSpec => []NothingIsCounted
  BY InvAlways, PTL DEF Inv

\* A lock whose task waits for a returned filter is never released.
THEOREM LockedForGood == SafeSpec => NeverUnlocked
<1>1. ASSUME Inv, [Next]_vars, NEW k \in Task,
             \E j \in JobsOf(k) : job[j] = "locking"
      PROVE  holder' = k
  <2>1. holder = k
    BY <1>1 DEF Inv, TypeOK, JobsAreInside, JobsOf
  <2>2. ASSUME NEW l \in Task, FinishTask(l)
        PROVE  FALSE
    BY <1>1, <2>1, <2>2, Pairs DEF FinishTask, Inv, TypeOK
  <2>3. ASSUME NEW l \in Task, ProcessTransaction(l)
        PROVE  FALSE
    BY <2>1, <2>3, Pairs DEF ProcessTransaction
  <2> QED
    BY <1>1, <2>1, <2>2, <2>3
    DEF Next, Work, Filters, AddFilter, RemoveFilter, ProcessBatch, RunJob,
        FinishBatch, vars
<1>2. Inv /\ [Next]_vars =>
        [\A k \in Task : (\E j \in JobsOf(k) : job[j] = "locking")
                           => holder' = k]_vars
  BY <1>1
<1> QED
  BY <1>2, InvAlways, PTL DEF SafeSpec, NeverUnlocked
-----------------------------------------------------------------------------
HIDE FilterAssumption

\* What the sources do to the FilterManager is what its specification allows.

LEMMA StepsOfFilters == [SourcesNext]_allVars => [Next]_vars
<1> SUFFICES ASSUME [SourcesNext]_allVars
             PROVE  [Next]_vars
  OBVIOUS
<1>1. ASSUME NEW s \in Caller, WorkerStep(s)
      PROVE  UNCHANGED vars
  BY <1>1 DEF WorkerStep, CreateQueue, Connect, ConnectTimeout,
              InitiateAsyncCall, TestStop
<1>2. ASSUME NEW s \in Caller, Delivery(s)
      PROVE  UNCHANGED vars \/ ProcessBatch(s)
  BY <1>2 DEF Delivery, CallFails, Advance, Receive
<1>3. ASSUME NEW s \in Caller, BatchReturnsFrom(s)
      PROVE  FinishBatch(s)
  BY <1>3 DEF BatchReturnsFrom
<1>4. ASSUME NEW s \in Caller,
             AddDataSource(s) \/ RemoveDataSource(s) \/ PerformHealthCheck(s)
      PROVE  UNCHANGED vars
  BY <1>4 DEF AddDataSource, RemoveDataSource, PerformHealthCheck
<1>5. CASE Clear \/ Stopping
  BY <1>5 DEF Clear, Stopping, Shutdown, RequestStop, Join
<1>6. CASE FilterStep \/ ChangeFilters
  BY <1>6 DEF FilterStep, ChangeFilters, Next, Work
<1>7. CASE UNCHANGED allVars
  BY <1>7 DEF allVars
<1> QED
  BY <1>1, <1>2, <1>3, <1>4, <1>5, <1>6, <1>7 DEF SourcesNext, Next, Work

\* The sources use the FilterManager as its specification says, so that what
\* is proved of it alone holds of it here.
THEOREM UsesFilterManager == SourcesSafe => SafeSpec
<1>1. SourcesInit => Init
  BY DEF SourcesInit
<1> QED
  BY <1>1, StepsOfFilters, PTL DEF SourcesSafe, SafeSpec
-----------------------------------------------------------------------------
\* The size of a batch.
LEMMA SizeIsPositive == Size \in Nat \ {0}
<1>1. Size \in Nat
  BY FS_CardinalityType, FilterAssumption DEF Size
<1>2. Size # 0
  BY FS_EmptySet, FilterAssumption DEF Size
<1> QED
  BY <1>1, <1>2

Types == SourcesTypeOK

\* A thread is inside processBatch where the manager says so.
WaitsInFilters ==
  alive => \A s \in Caller : s \in waiting <=> thread[s] = "filters"

\* A queue is shut down by the stop that is under way, or its thread ended.
ShutByTheStop ==
  \A s \in Caller :
    queue[s] = "shut" =>
      thread[s] = "ended" \/ (gui.at \in {"request", "join"} /\ gui.source = s)

CallsAfterConnect ==
  \A s \in Caller : calls[s] > 0 => thread[s] \notin {"none", "create", "connect"}

\* Where the received transactions are.
Counted ==
  \A s \in Caller :
    /\ thread[s] # "filters" =>
         total[s] = Size * processed[s] + batch[s] /\ batch[s] < Size
    /\ thread[s] = "filters" /\ alive => total[s] = Size * processed[s] + Size
    /\ \A i \in DOMAIN stored[s] : stored[s][i] <= Size * processed[s]
    /\ \A i \in DOMAIN stored[s] :
         (IF i = 1 THEN 0 ELSE stored[s][i - 1]) + Size <= stored[s][i]

ThreadInv == Types /\ WaitsInFilters /\ OneOperation
               /\ ShutByTheStop /\ CallsAfterConnect /\ Counted

LEMMA SourcesInitInv == SourcesInit => ThreadInv
<1> SUFFICES ASSUME SourcesInit
             PROVE  ThreadInv
  OBVIOUS
<1> USE SizeIsPositive DEF SourcesInit, Init, Idle
<1>1. Types
  BY DEF Types, SourcesTypeOK, Closed
<1>2. WaitsInFilters /\ OneOperation /\ ShutByTheStop /\ CallsAfterConnect
  BY DEF WaitsInFilters, OneOperation, ShutByTheStop, CallsAfterConnect
<1>3. Counted
  BY DEF Counted
<1> QED
  BY <1>1, <1>2, <1>3 DEF ThreadInv

\* What a step of one thread may touch, for the conjuncts it is not about.
LEMMA WorkerStepInv ==
  ASSUME ThreadInv, NEW s \in Caller, WorkerStep(s)
  PROVE  ThreadInv'
<1> USE DEF ThreadInv, Types, At, GoTo, Post
<1>1. CASE CreateQueue(s) \/ Connect(s) \/ ConnectTimeout(s) \/ TestStop(s)
  <2> USE <1>1 DEF CreateQueue, Connect, ConnectTimeout, TestStop,
                   ownerVars, callVars, batchVars, vars
  <2>1. Types'
    BY DEF SourcesTypeOK
  <2>2. WaitsInFilters'
    BY DEF WaitsInFilters, SourcesTypeOK
  <2>3. OneOperation'
    <3>1. pending' = pending /\ pending \in [Caller -> BOOLEAN]
      BY DEF SourcesTypeOK
    <3>2. \A r \in Caller : r # s => thread'[r] = thread[r]
      BY DEF SourcesTypeOK
    <3>3. \/ thread[s] = "create" /\ thread'[s] = "connect"
          \/ thread[s] = "connect" /\ thread'[s] \in {"initiate", "ended"}
          \/ thread[s] = "test" /\ thread'[s] \in {"next", "ended"}
      BY DEF SourcesTypeOK
    <3> QED
      BY <3>1, <3>2, <3>3 DEF OneOperation
  <2>4. ShutByTheStop'
    BY DEF ShutByTheStop, SourcesTypeOK
  <2>5. CallsAfterConnect'
    BY DEF CallsAfterConnect, SourcesTypeOK
  <2>6. Counted'
    <3>1. /\ UNCHANGED <<total, batch, processed, stored>>
          /\ alive' => alive
      OBVIOUS
    <3>2. \A r \in Caller : thread'[r] = "filters" <=> thread[r] = "filters"
      BY DEF SourcesTypeOK
    <3> QED
      BY ONLY <3>1, <3>2, Counted DEF Counted
  <2> QED
    BY <2>1, <2>2, <2>3, <2>4, <2>5, <2>6
<1>2. CASE InitiateAsyncCall(s)
  <2> USE <1>2 DEF InitiateAsyncCall, ownerVars, batchVars, vars
  <2>1. Types'
    <3>1. call' \in [Caller -> {"START", "WRITE", "READ"}]
      BY DEF SourcesTypeOK
    <3>2. calls' \in [Caller -> Nat]
      BY DEF SourcesTypeOK
    <3>3. /\ thread' \in [Caller -> {"none", "create", "connect", "initiate",
                                    "test", "next", "filters", "ended"}]
          /\ pending' \in [Caller -> BOOLEAN] /\ alive' \in BOOLEAN
      BY DEF SourcesTypeOK
    <3> QED
      BY <3>1, <3>2, <3>3 DEF SourcesTypeOK
  <2>2. WaitsInFilters'
    BY DEF WaitsInFilters, SourcesTypeOK
  <2>3. OneOperation'
    <3>1. \A r \in Caller : r # s => thread'[r] = thread[r] /\ pending'[r] = pending[r]
      BY DEF SourcesTypeOK
    <3>2. \/ thread'[s] = thread[s] /\ pending'[s] = pending[s]
          \/ thread'[s] = "test" /\ pending'[s]
      BY DEF SourcesTypeOK
    <3> QED
      BY ONLY <3>1, <3>2, OneOperation DEF OneOperation
  <2>4. ShutByTheStop'
    BY DEF ShutByTheStop, SourcesTypeOK
  <2>5. CallsAfterConnect'
    BY DEF CallsAfterConnect, SourcesTypeOK
  <2>6. Counted'
    BY DEF Counted, SourcesTypeOK
  <2> QED
    BY <2>1, <2>2, <2>3, <2>4, <2>5, <2>6
<1> QED
  BY <1>1, <1>2 DEF WorkerStep

\* What an operation that is posted changes.
LEMMA Posted ==
  ASSUME Types, NEW s \in Caller, Post(s)
  PROVE  /\ Types => /\ thread' \in [Caller -> {"none", "create", "connect",
                               "initiate", "test", "next", "filters", "ended"}]
                     /\ pending' \in [Caller -> BOOLEAN]
                     /\ alive' \in BOOLEAN
         /\ \A r \in Caller : r # s => /\ thread'[r] = thread[r]
                                       /\ pending'[r] = pending[r]
         /\ \/ thread'[s] = "test" /\ pending'[s] /\ alive' = alive
            \/ thread'[s] = thread[s] /\ pending'[s] = pending[s] /\ ~alive'
BY DEF Types, SourcesTypeOK, Post, GoTo

\* A thread moves itself only.
LEMMA OtherThreads ==
  ASSUME Types, NEW s \in Caller, NEW r \in Caller, r # s,
         WorkerStep(r) \/ Delivery(r) \/ BatchReturnsFrom(r)
  PROVE  thread'[s] = thread[s]
<1>1. CASE InitiateAsyncCall(r) \/ Advance(r) \/ BatchReturnsFrom(r)
  BY <1>1, Posted DEF InitiateAsyncCall, Advance, BatchReturnsFrom
<1>2. CASE CreateQueue(r) \/ Connect(r) \/ ConnectTimeout(r) \/ TestStop(r)
  BY <1>2 DEF CreateQueue, Connect, ConnectTimeout, TestStop, GoTo, Types,
     SourcesTypeOK
<1>3. CASE CallFails(r)
  BY <1>3 DEF CallFails, GoTo, Types, SourcesTypeOK
<1>4. CASE Receive(r)
  BY <1>4, Posted DEF Receive, GoTo, Types, SourcesTypeOK
<1> QED
  BY <1>1, <1>2, <1>3, <1>4 DEF WorkerStep, Delivery

LEMMA DeliveryInv ==
  ASSUME ThreadInv, NEW s \in Caller, Delivery(s)
  PROVE  ThreadInv'
<1> USE DEF ThreadInv
<1>0. thread[s] = "next" /\ pending[s] /\ alive
  BY DEF Delivery, CallFails, Advance, Receive, Delivered, At
<1>1. CASE CallFails(s)
  <2> USE <1>1 DEF CallFails, GoTo, ownerVars, batchVars, vars
  <2>1. Types'
    BY DEF Types, SourcesTypeOK
  <2>2. WaitsInFilters'
    BY <1>0 DEF WaitsInFilters, Types, SourcesTypeOK
  <2>3. OneOperation'
    BY DEF OneOperation, Types, SourcesTypeOK
  <2>4. ShutByTheStop'
    BY <1>0 DEF ShutByTheStop, Types, SourcesTypeOK
  <2>5. CallsAfterConnect'
    BY DEF CallsAfterConnect, Types, SourcesTypeOK
  <2>6. Counted'
    BY <1>0 DEF Counted, Types, SourcesTypeOK
  <2> QED
    BY <2>1, <2>2, <2>3, <2>4, <2>5, <2>6
<1>2. CASE Advance(s)
  <2> USE <1>2, Posted DEF Advance, ownerVars, batchVars, vars
  <2>1. Types'
    BY DEF Types, SourcesTypeOK
  <2>2. WaitsInFilters'
    BY <1>0 DEF WaitsInFilters
  <2>3. OneOperation'
    BY <1>0 DEF OneOperation
  <2>4. ShutByTheStop'
    BY <1>0 DEF ShutByTheStop
  <2>5. CallsAfterConnect'
    BY <1>0 DEF CallsAfterConnect
  <2>6. Counted'
    BY <1>0 DEF Counted
  <2> QED
    BY <2>1, <2>2, <2>3, <2>4, <2>5, <2>6
<1>3. CASE Receive(s)
  <2>0. /\ total' \in [Caller -> Nat] /\ batch' \in [Caller -> Nat]
        /\ \A r \in Caller : r # s => total'[r] = total[r] /\ batch'[r] = batch[r]
        /\ total'[s] = Size * processed[s] + batch[s] + 1
        /\ batch'[s] = batch[s] + 1 /\ batch[s] < Size
    <3>1. /\ total \in [Caller -> Nat] /\ batch \in [Caller -> Nat]
          /\ processed \in [Caller -> Nat]
      BY DEF Types, SourcesTypeOK
    <3>2. /\ total' = [total EXCEPT ![s] = @ + 1]
          /\ batch' = [batch EXCEPT ![s] = @ + 1]
      BY <1>3 DEF Receive
    <3>3. total[s] = Size * processed[s] + batch[s] /\ batch[s] < Size
      BY ONLY <1>0, Counted, s \in Caller DEF Counted
    <3>4. /\ total' \in [Caller -> Nat] /\ batch' \in [Caller -> Nat]
          /\ \A r \in Caller : r # s => total'[r] = total[r] /\ batch'[r] = batch[r]
          /\ total'[s] = total[s] + 1 /\ batch'[s] = batch[s] + 1
      BY ONLY <3>1, <3>2, s \in Caller
    <3> QED
      BY ONLY <3>1, <3>3, <3>4, SizeIsPositive, s \in Caller
  <2> USE <1>3 DEF Receive
  <2>1. CASE batch[s] + 1 >= Size
    <3> USE <2>1 DEF GoTo, ProcessBatch, ownerVars
    <3>0. batch[s] + 1 = Size
      BY <2>0, SizeIsPositive DEF Types, SourcesTypeOK
    <3>1. Types'
      <4>1. thread' \in [Caller -> {"none", "create", "connect", "initiate",
                                     "test", "next", "filters", "ended"}]
        BY DEF Types, SourcesTypeOK
      <4>2. pending' \in [Caller -> BOOLEAN] /\ alive' \in BOOLEAN
              /\ stored' \in [Caller -> Seq(Nat)]
        BY DEF Types, SourcesTypeOK
      <4>3. call' \in [Caller -> {"START", "WRITE", "READ"}]
              /\ calls' \in [Caller -> Nat]
        BY DEF Types, SourcesTypeOK
      <4> QED
        BY <2>0, <4>1, <4>2, <4>3 DEF Types, SourcesTypeOK
    <3>7. /\ thread'[s] = "filters" /\ ~pending'[s] /\ alive' = alive
          /\ \A r \in Caller : r # s => /\ thread'[r] = thread[r]
                                        /\ pending'[r] = pending[r]
      BY DEF Types, SourcesTypeOK
    <3>2. WaitsInFilters'
      BY <1>0, <3>7 DEF WaitsInFilters
    <3>3. OneOperation'
      BY <3>7 DEF OneOperation
    <3>4. ShutByTheStop'
      BY <1>0 DEF ShutByTheStop, Types, SourcesTypeOK
    <3>5. CallsAfterConnect'
      BY DEF CallsAfterConnect, Types, SourcesTypeOK
    <3>6. Counted'
      <4>1. thread'[s] = "filters" /\ total'[s] = Size * processed[s] + Size
        BY <2>0, <3>0, SizeIsPositive DEF Types, SourcesTypeOK
      <4>2. \A r \in Caller : r # s => thread'[r] = thread[r]
        BY DEF Types, SourcesTypeOK
      <4> QED
        BY <2>0, <4>1, <4>2 DEF Counted
    <3> QED
      BY <3>1, <3>2, <3>3, <3>4, <3>5, <3>6
  <2>2. CASE ~(batch[s] + 1 >= Size)
    <3> USE <2>2, Posted DEF ownerVars, vars
    <3>1. Types'
      BY <2>0 DEF Types, SourcesTypeOK
    <3>2. WaitsInFilters'
      BY <1>0 DEF WaitsInFilters
    <3>3. OneOperation'
      BY <1>0 DEF OneOperation
    <3>4. ShutByTheStop'
      BY <1>0 DEF ShutByTheStop
    <3>5. CallsAfterConnect'
      BY <1>0 DEF CallsAfterConnect
    <3>6. Counted'
      <4>1. total'[s] = Size * processed[s] + batch'[s] /\ batch'[s] < Size
        BY <2>0, SizeIsPositive DEF Types, SourcesTypeOK
      <4>2. stored' = stored /\ processed' = processed /\ thread'[s] # "filters"
        BY <1>0
      <4>3. \A r \in Caller : r # s => /\ thread'[r] = thread[r]
                                      /\ (alive' => alive)
        BY <1>0
      <4> QED
        BY <2>0, <4>1, <4>2, <4>3 DEF Counted
    <3> QED
      BY <3>1, <3>2, <3>3, <3>4, <3>5, <3>6
  <2> QED
    BY <2>1, <2>2
<1> QED
  BY <1>1, <1>2, <1>3 DEF Delivery

LEMMA BatchReturnsInv ==
  ASSUME ThreadInv, NEW s \in Caller, BatchReturnsFrom(s)
  PROVE  ThreadInv'
<1> USE Posted DEF ThreadInv, BatchReturnsFrom, ownerVars
<1>0. thread[s] = "filters" /\ alive /\ waiting' = waiting \ {s}
  BY DEF At, FinishBatch
<1>1. Types'
  <2>1. /\ batch' \in [Caller -> Nat] /\ processed' \in [Caller -> Nat]
    BY DEF Types, SourcesTypeOK
  <2>2. stored' \in [Caller -> Seq(Nat)]
    <3>1. Append(stored[s], total[s]) \in Seq(Nat)
      BY DEF Types, SourcesTypeOK
    <3> QED
      BY <3>1 DEF Types, SourcesTypeOK
  <2> QED
    BY <2>1, <2>2 DEF Types, SourcesTypeOK
<1>2. WaitsInFilters'
  BY <1>0 DEF WaitsInFilters
<1>3. OneOperation'
  BY <1>0 DEF OneOperation
<1>4. ShutByTheStop'
  BY <1>0 DEF ShutByTheStop
<1>5. CallsAfterConnect'
  BY <1>0 DEF CallsAfterConnect
<1>6. Counted'
  <2>1. /\ total[s] \in Nat /\ processed[s] \in Nat /\ stored[s] \in Seq(Nat)
        /\ total[s] = Size * processed[s] + Size
        /\ Size * (processed[s] + 1) = Size * processed[s] + Size
    BY <1>0, SizeIsPositive DEF Counted, Types, SourcesTypeOK
  <2>2. /\ total' = total /\ batch'[s] = 0 /\ processed'[s] = processed[s] + 1
        /\ stored'[s] \in {stored[s], Append(stored[s], total[s])}
        /\ \A r \in Caller : r # s => /\ batch'[r] = batch[r]
                                      /\ processed'[r] = processed[r]
                                      /\ stored'[r] = stored[r]
    BY DEF Types, SourcesTypeOK
  <2> DEFINE old == stored[s]
             new == stored'[s]
             P == Size * processed[s]
  <2>6. /\ old \in Seq(Nat) /\ P \in Nat /\ Size \in Nat
        /\ DOMAIN old = 1..Len(old) /\ Len(old) \in Nat
        /\ \A i \in 1..Len(old) : old[i] \in Nat
    BY <2>1, SizeIsPositive
  <2>7. /\ \A i \in 1..Len(old) : old[i] <= P
        /\ \A i \in 1..Len(old) :
             (IF i = 1 THEN 0 ELSE old[i - 1]) + Size <= old[i]
    BY <2>6 DEF Counted
  <2>8. Size * processed'[s] = P + Size /\ total[s] = P + Size
    BY <2>1, <2>2
  <2>9. /\ \A i \in DOMAIN new : new[i] <= P + Size
        /\ \A i \in DOMAIN new :
             (IF i = 1 THEN 0 ELSE new[i - 1]) + Size <= new[i]
    <3>1. CASE new = old
      <4> HIDE DEF new, old, P
      <4> QED
        BY <2>6, <2>7, <3>1
    <3>2. CASE new = Append(old, total[s])
      <4>1. /\ DOMAIN new = 1..(Len(old) + 1)
            /\ new[Len(old) + 1] = P + Size
            /\ \A i \in 1..Len(old) : new[i] = old[i]
        BY <2>1, <2>6, <2>8, <3>2
      <4> HIDE DEF new, old, P
      <4>2. ASSUME NEW i \in DOMAIN new
            PROVE  /\ new[i] <= P + Size
                   /\ (IF i = 1 THEN 0 ELSE new[i - 1]) + Size <= new[i]
        <5>1. CASE i = Len(old) + 1
          <6>1. i # 1 => new[i - 1] = old[i - 1] /\ old[i - 1] <= P
                           /\ old[i - 1] \in Nat
            BY <2>6, <2>7, <4>1, <5>1
          <6> QED
            BY <2>6, <4>1, <5>1, <6>1
        <5>2. CASE i # Len(old) + 1
          <6>1. i \in 1..Len(old) /\ new[i] = old[i] /\ old[i] <= P
            BY <2>6, <2>7, <4>1, <5>2
          <6>2. i # 1 => new[i - 1] = old[i - 1]
            BY <2>6, <4>1, <6>1
          <6> QED
            BY <2>6, <2>7, <6>1, <6>2
        <5> QED
          BY <5>1, <5>2
      <4> QED
        BY <4>2
    <3> QED
      BY <2>2, <3>1, <3>2
  <2>3. \A i \in DOMAIN new : new[i] <= Size * processed'[s]
    BY <2>8, <2>9
  <2>4. \A i \in DOMAIN new :
          (IF i = 1 THEN 0 ELSE new[i - 1]) + Size <= new[i]
    BY <2>9
  <2>5. total'[s] = Size * processed'[s] + batch'[s] /\ batch'[s] < Size
    BY <2>1, <2>2, SizeIsPositive
  <2>10. \A r \in Caller : r # s => /\ thread'[r] = thread[r]
                                   /\ (alive' => alive)
    BY <1>0
  <2>11. \A r \in Caller : r # s =>
           /\ thread'[r] # "filters" =>
                total'[r] = Size * processed'[r] + batch'[r] /\ batch'[r] < Size
           /\ thread'[r] = "filters" /\ alive' =>
                total'[r] = Size * processed'[r] + Size
           /\ \A i \in DOMAIN stored'[r] : stored'[r][i] <= Size * processed'[r]
           /\ \A i \in DOMAIN stored'[r] :
                (IF i = 1 THEN 0 ELSE stored'[r][i - 1]) + Size <= stored'[r][i]
    <3> SUFFICES ASSUME NEW r \in Caller, r # s
                 PROVE  /\ thread[r] # "filters" =>
                             total[r] = Size * processed[r] + batch[r]
                               /\ batch[r] < Size
                        /\ thread[r] = "filters" =>
                             total[r] = Size * processed[r] + Size
                        /\ \A i \in DOMAIN stored[r] :
                             stored[r][i] <= Size * processed[r]
                        /\ \A i \in DOMAIN stored[r] :
                             (IF i = 1 THEN 0 ELSE stored[r][i - 1]) + Size
                               <= stored[r][i]
      BY <2>2, <2>10
    <3> QED
      BY <1>0 DEF Counted
  <2>12. thread'[s] # "filters" \/ ~alive'
    BY <1>0
  <2> QED
    BY <2>3, <2>4, <2>5, <2>11, <2>12 DEF Counted
<1> QED
  BY <1>1, <1>2, <1>3, <1>4, <1>5, <1>6

\* The steps of the GUI thread move no thread but one that it starts.
LEMMA GuiInv ==
  ASSUME ThreadInv,
         \/ \E s \in Caller : AddDataSource(s) \/ RemoveDataSource(s)
                                \/ PerformHealthCheck(s)
         \/ Clear \/ Stopping
  PROVE  ThreadInv'
<1> USE DEF ThreadInv, GuiAt, GuiGoTo, Erase, Idle, Closed
<1>0. \/ gui.at \in {"idle", "closed"}
      \/ /\ gui.at \in {"shutdown", "request", "join", "relock", "clear"}
         /\ gui \in [at : {"shutdown", "request", "join", "relock", "clear"},
                     why : {"remove", "health", "clear"}, source : Caller]
  BY DEF Types, SourcesTypeOK
<1>1. ASSUME NEW s \in Caller, AddDataSource(s)
      PROVE  ThreadInv'
  <2> USE <1>1 DEF AddDataSource, GoTo, callVars, batchVars, vars
  <2>1. /\ \A r \in Caller : r # s => thread'[r] = thread[r]
        /\ thread[s] = "none" /\ thread'[s] = "create"
    BY DEF Types, SourcesTypeOK
  <2>2. Types'
    BY DEF Types, SourcesTypeOK
  <2>3. WaitsInFilters' /\ OneOperation'
    BY <2>1 DEF WaitsInFilters, OneOperation
  <2>4. ShutByTheStop' /\ CallsAfterConnect'
    BY <2>1 DEF ShutByTheStop, CallsAfterConnect
  <2>5. Counted'
    BY <2>1 DEF Counted
  <2> QED
    BY <2>2, <2>3, <2>4, <2>5
<1>2. ASSUME NEW s \in Caller, RemoveDataSource(s) \/ PerformHealthCheck(s)
      PROVE  ThreadInv'
  <2> USE <1>2 DEF RemoveDataSource, PerformHealthCheck, callVars, batchVars,
                   vars
  <2>1. Types'
    BY DEF Types, SourcesTypeOK
  <2>2. WaitsInFilters' /\ OneOperation' /\ CallsAfterConnect' /\ Counted'
    BY DEF WaitsInFilters, OneOperation, CallsAfterConnect, Counted
  <2>3. ShutByTheStop'
    BY DEF ShutByTheStop
  <2> QED
    BY <2>1, <2>2, <2>3
<1>3. CASE Clear
  <2> USE <1>3 DEF Clear, callVars, batchVars, vars
  <2>1. gui' = Closed \/ \E s \in Caller :
                           gui' = [at |-> "shutdown", why |-> "clear", source |-> s]
    BY DEF Types, SourcesTypeOK
  <2>2. Types'
    <3>1. gui' \in {Idle, Closed}
             \cup [at : {"shutdown", "request", "join", "relock", "clear"},
                   why : {"remove", "health", "clear"}, source : Caller]
      BY <2>1
    <3> QED
      BY <3>1 DEF Types, SourcesTypeOK
  <2>3. WaitsInFilters' /\ OneOperation' /\ CallsAfterConnect' /\ Counted'
    BY DEF WaitsInFilters, OneOperation, CallsAfterConnect, Counted
  <2>4. ShutByTheStop'
    BY DEF ShutByTheStop
  <2> QED
    BY <2>2, <2>3, <2>4
<1>4. CASE Shutdown \/ RequestStop
  <2> USE <1>4 DEF Shutdown, RequestStop, callVars, batchVars, vars
  <2>1. /\ gui \in [at : {"shutdown", "request", "join", "relock", "clear"},
                    why : {"remove", "health", "clear"}, source : Caller]
        /\ gui' \in [at : {"shutdown", "request", "join", "relock", "clear"},
                     why : {"remove", "health", "clear"}, source : Caller]
        /\ gui.at \in {"shutdown", "request"} /\ gui'.at \in {"request", "join"}
        /\ gui'.source = gui.source
    BY <1>0
  <2>2. /\ queue' \in [Caller -> {"none", "open", "shut"}]
        /\ stopRequested' \in [Caller -> BOOLEAN]
        /\ \A s \in Caller : queue'[s] = "shut" =>
             queue[s] = "shut" \/ s = gui.source
    <3>1. gui.source \in Caller
      BY <2>1
    <3>2. CASE Shutdown
      BY <3>1, <3>2 DEF Types, SourcesTypeOK
    <3>3. CASE RequestStop
      BY <3>1, <3>3 DEF Types, SourcesTypeOK
    <3> QED
      BY <3>2, <3>3
  <2>3. Types'
    <3>1. gui' \in {Idle, Closed}
             \cup [at : {"shutdown", "request", "join", "relock", "clear"},
                   why : {"remove", "health", "clear"}, source : Caller]
      BY <2>1
    <3>2. UNCHANGED <<workers, thread, call, pending, calls, connected, total,
                      batch, processed, stored, alive>>
      OBVIOUS
    <3> QED
      BY <2>2, <3>1, <3>2 DEF Types, SourcesTypeOK
  <2>4. WaitsInFilters' /\ OneOperation' /\ CallsAfterConnect' /\ Counted'
    BY DEF WaitsInFilters, OneOperation, CallsAfterConnect, Counted
  <2>5. ShutByTheStop'
    BY <2>1, <2>2 DEF ShutByTheStop
  <2> QED
    BY <2>3, <2>4, <2>5
<1>5. CASE Join
  <2> USE <1>0, <1>5 DEF Join, Joined, callVars, batchVars, vars
  <2>1. Types'
    BY DEF Types, SourcesTypeOK
  <2>2. WaitsInFilters' /\ OneOperation' /\ CallsAfterConnect' /\ Counted'
    BY DEF WaitsInFilters, OneOperation, CallsAfterConnect, Counted
  <2>3. ShutByTheStop'
    BY DEF ShutByTheStop
  <2> QED
    BY <2>1, <2>2, <2>3
<1> QED
  BY <1>1, <1>2, <1>3, <1>4, <1>5 DEF Stopping

LEMMA FiltersInv ==
  ASSUME ThreadInv, FilterStep \/ ChangeFilters \/ UNCHANGED allVars
  PROVE  ThreadInv'
<1>1. UNCHANGED sourceVars
  BY DEF FilterStep, ChangeFilters, allVars
<1>2. waiting' = waiting
  BY DEF FilterStep, ChangeFilters, Filters, AddFilter, RemoveFilter,
         ProcessTransaction, FinishTask, RunJob, allVars, vars
<1> QED
  BY <1>1, <1>2 DEF sourceVars, ownerVars, callVars, batchVars, ThreadInv, Types,
     SourcesTypeOK, WaitsInFilters, OneOperation, ShutByTheStop,
     CallsAfterConnect, Counted

LEMMA SourcesNextInv == ThreadInv /\ [SourcesNext]_allVars => ThreadInv'
  BY WorkerStepInv, DeliveryInv, BatchReturnsInv, GuiInv, FiltersInv
     DEF SourcesNext

LEMMA ThreadInvAlways == SourcesSafe => []ThreadInv
  BY SourcesInitInv, SourcesNextInv, PTL DEF SourcesSafe

\* The window, the threads, the queues and the counters have their types.
THEOREM SourcesTypeCorrect == SourcesSafe => []SourcesTypeOK
  BY ThreadInvAlways, PTL DEF ThreadInv, Types

\* The queue of a thread that is in Next never drains.
THEOREM AlwaysOneOperation == SourcesSafe => []OneOperation
  BY ThreadInvAlways, PTL DEF ThreadInv

\* No transaction is stored twice, and all that were received are counted.
THEOREM AlwaysStoredOnce == SourcesSafe => []StoredOnce
<1>1. ThreadInv => StoredOnce
  BY DEF ThreadInv, Counted, StoredOnce
<1> QED
  BY <1>1, ThreadInvAlways, PTL
-----------------------------------------------------------------------------
\* A stop() that meets the thread before its next operation never returns.
THEOREM StopNeverReturns == SourcesSafe => NoWayOut
<1>1. ASSUME ThreadInv, [SourcesNext]_allVars, NEW s \in Caller, Doomed(s)
      PROVE  Doomed(s)' /\ workers' = workers
  <2>1. /\ queue[s] = "shut" /\ thread[s] \in {"initiate", "next", "filters"}
        /\ gui.at \in {"request", "join"} /\ gui.source = s
    BY <1>1 DEF ThreadInv, ShutByTheStop, Doomed
  <2>2. ASSUME NEW r \in Caller, WorkerStep(r)
        PROVE  Doomed(s)' /\ workers' = workers
    <3>1. queue'[s] = queue[s] /\ workers' = workers
      BY <1>1, <2>1, <2>2 DEF WorkerStep, CreateQueue, Connect, ConnectTimeout,
         InitiateAsyncCall, TestStop, At, ownerVars, ThreadInv, Types,
         SourcesTypeOK
    <3>2. thread'[s] = thread[s]
      <4>1. CASE r = s
        BY <1>1, <2>1, <2>2, <4>1 DEF WorkerStep, CreateQueue, Connect,
           ConnectTimeout, InitiateAsyncCall, TestStop, At, Post
      <4>2. CASE r # s
        BY <1>1, <2>2, <4>2, OtherThreads DEF ThreadInv
      <4> QED
        BY <4>1, <4>2
    <3> QED
      BY <2>1, <3>1, <3>2 DEF Doomed
  <2>3. ASSUME NEW r \in Caller, Delivery(r) \/ BatchReturnsFrom(r)
        PROVE  Doomed(s)' /\ workers' = workers
    <3>1. queue' = queue /\ workers' = workers
      BY <2>3 DEF Delivery, CallFails, Advance, Receive, BatchReturnsFrom,
         ownerVars
    <3>2. thread'[s] \in {"initiate", "next", "filters"}
      <4>1. CASE r = s
        BY <1>1, <2>1, <2>3, <4>1 DEF Delivery, CallFails, Advance, Receive,
           BatchReturnsFrom, GoTo, Post, ThreadInv, Types, SourcesTypeOK
      <4>2. CASE r # s
        BY <1>1, <2>1, <2>3, <4>2, OtherThreads DEF ThreadInv
      <4> QED
        BY <4>1, <4>2
    <3> QED
      BY <2>1, <3>1, <3>2 DEF Doomed
  <2>4. ~Clear /\ ~Shutdown /\ ~Join
        /\ \A r \in Caller : /\ ~AddDataSource(r) /\ ~RemoveDataSource(r)
                             /\ ~PerformHealthCheck(r)
    BY <2>1 DEF Clear, Shutdown, Join, Joined, AddDataSource, RemoveDataSource,
       PerformHealthCheck, GuiAt
  <2>5. CASE RequestStop
    BY <2>1, <2>5 DEF RequestStop, Doomed
  <2>6. CASE FilterStep \/ ChangeFilters \/ UNCHANGED allVars
    BY <2>1, <2>6 DEF FilterStep, ChangeFilters, allVars, sourceVars, ownerVars,
       Doomed
  <2> QED
    BY <1>1, <2>2, <2>3, <2>4, <2>5, <2>6 DEF SourcesNext, Stopping
<1>2. ThreadInv /\ [SourcesNext]_allVars =>
        [\A s \in Caller : Doomed(s) => Doomed(s)' /\ workers' = workers]_allVars
  BY <1>1
<1> QED
  BY <1>2, ThreadInvAlways, PTL DEF SourcesSafe, NoWayOut

\* A source that lost its first call stays unhealthy until it is removed, by
\* the user or at the cost of the program.
THEOREM NeverHealthyAgain == SourcesSafe => UnhealthyToTheEnd
<1>1. ASSUME ThreadInv, [SourcesNext]_allVars,
             NEW s \in workers, Unhealthy(s)
      PROVE  IF s \in workers' THEN Unhealthy(s)'
             ELSE gui.why \in {"remove", "clear"} \/ gui'.at = "relock" \/ ~alive'
  <2>1. s \in Caller
    BY <1>1 DEF ThreadInv, Types, SourcesTypeOK
  <2>2. ~connected[s] /\ thread[s] \notin {"create", "connect"}
    BY <1>1, <2>1 DEF Unhealthy, ThreadInv, CallsAfterConnect
  <2>3. ASSUME NEW r \in Caller,
               WorkerStep(r) \/ Delivery(r) \/ BatchReturnsFrom(r)
        PROVE  Unhealthy(s)' /\ workers' = workers
    <3>1. workers' = workers
      BY <2>3 DEF WorkerStep, CreateQueue, Connect, ConnectTimeout,
         InitiateAsyncCall, TestStop, Delivery, CallFails, Advance, Receive,
         BatchReturnsFrom, ownerVars
    <3>2. ~connected'[s]
      BY <1>1, <2>1, <2>2, <2>3 DEF WorkerStep, CreateQueue, Connect,
         ConnectTimeout, InitiateAsyncCall, TestStop, Delivery, CallFails,
         Advance, Receive, BatchReturnsFrom, At, callVars, ThreadInv, Types,
         SourcesTypeOK
    <3>3. calls[s] \in Nat /\ (calls'[s] = calls[s] \/ calls'[s] = calls[s] + 1)
      BY <1>1, <2>1, <2>3 DEF WorkerStep, CreateQueue, Connect,
         ConnectTimeout, InitiateAsyncCall, TestStop, Delivery, CallFails,
         Advance, Receive, BatchReturnsFrom, callVars, ThreadInv, Types,
         SourcesTypeOK
    <3>4. thread[s] = "ended" => thread'[s] = "ended"
      <4>1. Types /\ thread[r] # "ended"
        BY <1>1, <2>3 DEF ThreadInv, WorkerStep, CreateQueue, Connect,
           ConnectTimeout, InitiateAsyncCall, TestStop, Delivery, CallFails,
           Advance, Receive, BatchReturnsFrom, Delivered, At
      <4>2. r # s => thread'[s] = thread[s]
        BY <2>1, <2>3, <4>1, OtherThreads
      <4> QED
        BY <4>1, <4>2
    <3> QED
      BY <1>1, <3>1, <3>2, <3>3, <3>4 DEF Unhealthy
  <2>4. ASSUME NEW r \in Caller, AddDataSource(r)
        PROVE  Unhealthy(s)' /\ s \in workers'
    <3>1. r # s => thread'[s] = thread[s]
      BY <1>1, <2>1, <2>4 DEF AddDataSource, GoTo, ThreadInv, Types,
         SourcesTypeOK
    <3>2. r # s \/ calls[s] > 0
      BY <1>1, <2>4 DEF AddDataSource, Unhealthy
    <3> QED
      BY <1>1, <2>4, <3>1, <3>2 DEF AddDataSource, callVars, Unhealthy
  <2>5. CASE \/ \E r \in Caller : RemoveDataSource(r) \/ PerformHealthCheck(r)
             \/ Clear \/ Shutdown \/ RequestStop
    BY <1>1, <2>5 DEF RemoveDataSource, PerformHealthCheck, Clear, Shutdown,
       RequestStop, callVars, Unhealthy
  <2>6. CASE Join
    <3>1. /\ gui.why \in {"remove", "clear"} \/ gui'.at = "relock" \/ ~alive'
          /\ UNCHANGED <<connected, calls, thread>>
      BY <1>1, <2>6 DEF Join, Joined, GuiAt, GuiGoTo, callVars, ThreadInv, Types,
         SourcesTypeOK, Idle, Closed
    <3> QED
      BY <1>1, <3>1 DEF Unhealthy
  <2>7. CASE FilterStep \/ ChangeFilters \/ UNCHANGED allVars
    BY <1>1, <2>7 DEF FilterStep, ChangeFilters, allVars, sourceVars, ownerVars,
       callVars, Unhealthy
  <2> QED
    BY <1>1, <2>3, <2>4, <2>5, <2>6, <2>7 DEF SourcesNext, Stopping
<1>2. ThreadInv /\ [SourcesNext]_allVars =>
        [\A s \in workers : Unhealthy(s) =>
           IF s \in workers' THEN Unhealthy(s)'
           ELSE gui.why \in {"remove", "clear"} \/ gui'.at = "relock"
                  \/ ~alive']_allVars
  BY <1>1
<1> QED
  BY <1>2, ThreadInvAlways, PTL DEF SourcesSafe, UnhealthyToTheEnd

\* A filter that has returned holds every batch that is not through.
THEOREM BatchesNeverReturn == SourcesSafe => StuckForGood
<1>1. ASSUME ThreadInv, Inv, [SourcesNext]_allVars,
             NEW s \in Caller, Stuck(s)
      PROVE  Stuck(s)' /\ stored'[s] = stored[s] /\ thread'[s] = thread[s]
  <2> USE Pairs
  <2>1. PICK j \in Job : job[j] = "locking"
    BY <1>1 DEF Stuck
  <2>2. PICK t \in Tx : task[<<s, t>>] \in {"locking", "waiting"}
    BY <1>1 DEF Stuck
  <2>3. <<s, t>> \in Task /\ holder = j[1] /\ task[j[1]] = "waiting"
    BY <1>1, <2>1 DEF Inv, TypeOK, JobsAreInside, Task
  <2>4. s \in waiting
    BY <1>1, <2>2, <2>3 DEF Inv, TypeOK
  <2>5. ASSUME [Next]_vars, ~ProcessBatch(s), ~FinishBatch(s)
        PROVE  job'[j] = "locking" /\ task'[<<s, t>>] = task[<<s, t>>]
    <3>1. ASSUME NEW k \in Task, ProcessTransaction(k)
          PROVE  FALSE
      BY <2>3, <3>1 DEF ProcessTransaction
    <3>2. ASSUME NEW k \in Task, FinishTask(k)
          PROVE  FALSE
      BY <1>1, <2>1, <2>3, <3>2 DEF FinishTask, JobsOf, Inv, TypeOK
    <3>3. ASSUME NEW i \in Job, RunJob(i)
          PROVE  i # j
      BY <2>1, <2>3, <3>3 DEF RunJob
    <3>4. CASE \E i \in Job : RunJob(i)
      BY <1>1, <2>1, <3>3, <3>4 DEF RunJob, Inv, TypeOK
    <3>5. CASE \E c \in Caller : ProcessBatch(c) \/ FinishBatch(c)
      BY <1>1, <2>1, <2>3, <2>5, <3>5 DEF ProcessBatch, FinishBatch, Inv, TypeOK
    <3>6. CASE Filters \/ UNCHANGED vars
      BY <2>1, <3>6 DEF Filters, AddFilter, RemoveFilter, vars
    <3> QED
      BY <2>5, <3>1, <3>2, <3>4, <3>5, <3>6 DEF Next, Work
  <2>6. ~ProcessBatch(s) /\ ~FinishBatch(s)
    BY <2>2, <2>4 DEF ProcessBatch, FinishBatch
  <2>7. Stuck(s)'
    BY <1>1, <2>2, <2>5, <2>6, StepsOfFilters DEF Stuck
  <2>8. alive => thread[s] = "filters"
    BY <1>1, <2>4 DEF ThreadInv, WaitsInFilters
  <2>9. ASSUME NEW r \in Caller,
               WorkerStep(r) \/ Delivery(r) \/ BatchReturnsFrom(r)
                 \/ AddDataSource(r)
        PROVE  stored'[s] = stored[s] /\ thread'[s] = thread[s]
    <3>1. r # s /\ Types
      BY <1>1, <2>6, <2>8, <2>9 DEF ThreadInv, WorkerStep, CreateQueue, Connect,
         ConnectTimeout, InitiateAsyncCall, TestStop, Delivery, CallFails,
         Advance, Receive, BatchReturnsFrom, Delivered, At, AddDataSource, GuiAt
    <3>2. stored'[s] = stored[s]
      BY <2>9, <3>1 DEF WorkerStep, CreateQueue, Connect, ConnectTimeout,
         InitiateAsyncCall, TestStop, Delivery, CallFails, Advance, Receive,
         BatchReturnsFrom, AddDataSource, batchVars, Types, SourcesTypeOK
    <3>3. thread'[s] = thread[s]
      BY <2>9, <3>1, OtherThreads DEF AddDataSource, GoTo, Types, SourcesTypeOK
    <3> QED
      BY <3>2, <3>3
  <2>10. CASE \/ \E r \in Caller : RemoveDataSource(r) \/ PerformHealthCheck(r)
              \/ Clear \/ Stopping \/ FilterStep \/ ChangeFilters
              \/ UNCHANGED allVars
    <3>1. CASE \E r \in Caller : RemoveDataSource(r) \/ PerformHealthCheck(r)
      BY <2>7, <3>1 DEF RemoveDataSource, PerformHealthCheck, batchVars
    <3>2. CASE Clear \/ Stopping
      BY <2>7, <3>2 DEF Clear, Stopping, Shutdown, RequestStop, Join, batchVars
    <3>3. CASE FilterStep \/ ChangeFilters \/ UNCHANGED allVars
      BY <2>7, <3>3 DEF FilterStep, ChangeFilters, allVars, sourceVars, batchVars
    <3> QED
      BY <2>10, <3>1, <3>2, <3>3
  <2>11. stored'[s] = stored[s] /\ thread'[s] = thread[s]
    BY <1>1, <2>9, <2>10 DEF SourcesNext
  <2> QED
    BY <2>7, <2>11
<1>2. ThreadInv /\ Inv /\ [SourcesNext]_allVars =>
        [\A s \in Caller :
           Stuck(s) => /\ Stuck(s)'
                       /\ stored'[s] = stored[s]
                       /\ thread'[s] = thread[s]]_allVars
  BY <1>1
<1> QED
  BY <1>2, ThreadInvAlways, UsesFilterManager, InvAlways, PTL
     DEF SourcesSafe, StuckForGood
=============================================================================
