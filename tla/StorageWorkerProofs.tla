------------------------ MODULE StorageWorkerProofs -------------------------
(***************************************************************************)
(* The safety of the transaction store for every set of tasks, every       *)
(* number of them and of restarts.  The first part is about the worker     *)
(* thread alone (TaskWorker): its types, its invariants, and that each of  *)
(* its steps is a step of TaskQueue.  The second is about what the thread  *)
(* does to RocksDB, the statistics and the backups (StorageWorker).        *)
(***************************************************************************)
EXTENDS StorageWorker, FiniteSetTheorems, SequenceTheorems,
        WellFoundedInduction, TLAPS

-----------------------------------------------------------------------------
\* Induction, and sums by FoldLeft.

\* Every set of numbers has a least one.  With this, induction needs no
\* operator for its hypothesis: a set holds the numbers it is true of.
LEMMA Least ==
  ASSUME NEW T \in SUBSET Nat, T # {}
  PROVE  \E m \in T : \A n \in T : m <= n
<1> DEFINE R == OpToRel(<, Nat)
<1>1. IsWellFoundedOn(R, Nat)
  BY NatLessThanWellFounded
<1>2. \A x, y \in Nat : <<y, x>> \in R <=> y < x
  BY DEF OpToRel
<1> HIDE DEF R
<1>3. PICK m \in T : \A n \in T : ~ (<<n, m>> \in R)
  BY <1>1, WFMin
<1>4. ASSUME NEW n \in T
      PROVE  m <= n
  <2>1. m \in Nat /\ n \in Nat
    OBVIOUS
  <2>2. ~ (n < m)
    BY <1>2, <1>3, <2>1
  <2> QED
    BY ONLY <2>1, <2>2
<1> QED
  BY ONLY <1>4, m \in T

\* Induction over the natural numbers.
LEMMA Induction ==
  ASSUME NEW T \in SUBSET Nat, 0 \in T, \A n \in T : n + 1 \in T
  PROVE  T = Nat
<1> SUFFICES ASSUME Nat \ T # {}
             PROVE  FALSE
  OBVIOUS
<1>1. PICK m \in Nat \ T : \A n \in Nat \ T : m <= n
  BY Least
<1>2. m - 1 \in T
  BY <1>1
<1> QED
  BY <1>1, <1>2

\* g solves the recursion by which FoldLeft(+, 0, s) is defined, on the
\* subsets of D.
IsSum(g, s, D) ==
  g = [t \in SUBSET D |->
         IF t = {} THEN 0 ELSE g[t \ {Max(t)}] + s[Max(t)]]

\* What the recursion takes away first of a set with n + 1.
LEMMA MaxOfInterval ==
  ASSUME NEW n \in Nat, NEW t \in SUBSET (1..(n + 1)), n + 1 \in t
  PROVE  Max(t) = n + 1 /\ t \ {Max(t)} \in SUBSET (1..n)
<1>1. Max(t) = n + 1
  <2>1. \A y \in t : n + 1 >= y
    OBVIOUS
  <2>2. ASSUME NEW x \in t, \A y \in t : x >= y
        PROVE  x = n + 1
    BY <2>2
  <2> QED
    BY <2>1, <2>2 DEF Max
<1> QED
  BY <1>1

\* The recursion has a solution.
LEMMA SumExists ==
  ASSUME NEW s \in Seq(Nat)
  PROVE  \E g : IsSum(g, s, 1..Len(s))
<1> DEFINE Ok == {n \in Nat : \E g : IsSum(g, s, 1..n)}
<1>1. 0 \in Ok
  <2> DEFINE g == [t \in SUBSET (1..0) |-> 0]
  <2>1. \A t \in SUBSET (1..0) : t = {}
    OBVIOUS
  <2>2. IsSum(g, s, 1..0)
    BY <2>1 DEF IsSum
  <2> QED
    BY <2>2
<1>2. ASSUME NEW n \in Ok
      PROVE  n + 1 \in Ok
  <2>1. PICK g : IsSum(g, s, 1..n)
    OBVIOUS
  <2> DEFINE h == [t \in SUBSET (1..(n + 1)) |->
                     IF n + 1 \in t THEN g[t \ {n + 1}] + s[n + 1] ELSE g[t]]
  <2>2. ASSUME NEW t \in SUBSET (1..(n + 1))
        PROVE  h[t] = IF t = {} THEN 0 ELSE h[t \ {Max(t)}] + s[Max(t)]
    <3>1. CASE n + 1 \in t
      <4>1. Max(t) = n + 1 /\ t \ {Max(t)} \in SUBSET (1..n)
        BY <3>1, MaxOfInterval
      <4>2. h[t \ {Max(t)}] = g[t \ {Max(t)}]
        BY <4>1
      <4> QED
        BY <3>1, <4>1, <4>2
    <3>2. CASE n + 1 \notin t
      <4>1. t \in SUBSET (1..n)
        BY <3>2
      <4>2. g[t] = IF t = {} THEN 0 ELSE g[t \ {Max(t)}] + s[Max(t)]
        BY <2>1, <4>1 DEF IsSum
      <4>3. h[t \ {Max(t)}] = g[t \ {Max(t)}] /\ h[t] = g[t]
        BY <3>2, <4>1
      <4> QED
        BY <4>2, <4>3
    <3> QED
      BY <3>1, <3>2
  <2>3. IsSum(h, s, 1..(n + 1))
    <3>1. h = [t \in SUBSET (1..(n + 1)) |-> h[t]]
      OBVIOUS
    <3> HIDE DEF h
    <3>2. h = [t \in SUBSET (1..(n + 1)) |->
                 IF t = {} THEN 0 ELSE h[t \ {Max(t)}] + s[Max(t)]]
      BY <2>2, <3>1
    <3> QED
      BY <3>2 DEF IsSum
  <2> QED
    BY <2>3
<1> HIDE DEF Ok
<1>3. Ok = Nat
  BY <1>1, <1>2, Induction DEF Ok
<1> QED
  BY <1>3 DEF Ok

\* A solution adds the elements up from the first on.
LEMMA SumSteps ==
  ASSUME NEW s \in Seq(Nat), NEW g, IsSum(g, s, 1..Len(s))
  PROVE  /\ g[1..0] = 0
         /\ \A j \in 0..(Len(s) - 1) : g[1..(j + 1)] = g[1..j] + s[j + 1]
<1>1. \A t \in SUBSET (1..Len(s)) :
        g[t] = IF t = {} THEN 0 ELSE g[t \ {Max(t)}] + s[Max(t)]
  BY DEF IsSum
<1>2. 1..0 = {} /\ {} \in SUBSET (1..Len(s))
  OBVIOUS
<1>3. ASSUME NEW j \in 0..(Len(s) - 1)
      PROVE  g[1..(j + 1)] = g[1..j] + s[j + 1]
  <2>1. j \in Nat /\ j + 1 \in 1..(j + 1) /\ 1..(j + 1) \in SUBSET (1..Len(s))
    OBVIOUS
  <2>2. Max(1..(j + 1)) = j + 1
    BY <2>1, MaxOfInterval
  <2>3. (1..(j + 1)) \ {j + 1} = 1..j
    BY <2>1
  <2> QED
    BY <1>1, <2>1, <2>2, <2>3
<1> QED
  BY <1>1, <1>2, <1>3

\* FoldLeft(+, 0, s) is what a solution has for all of s.
LEMMA FoldIsSum ==
  ASSUME NEW s \in Seq(Nat)
  PROVE  \E g : IsSum(g, s, 1..Len(s)) /\ FoldLeft(+, 0, s) = g[1..Len(s)]
<1> DEFINE g == CHOOSE g : IsSum(g, s, 1..Len(s))
<1>1. IsSum(g, s, 1..Len(s))
  BY SumExists
<1>2. FoldLeft(+, 0, s) = g[1..Len(s)]
  <2>1. DOMAIN s = 1..Len(s)
    OBVIOUS
  <2> QED
    BY <2>1 DEF FoldLeft, MapThenFoldSet, IsSum
<1> QED
  BY <1>1, <1>2

Sum(s) == FoldLeft(+, 0, s)

\* The sum of no numbers, and of one number more.
LEMMA SumOfEmpty == Sum(<<>>) = 0
<1>1. <<>> \in Seq(Nat) /\ Len(<<>>) = 0
  OBVIOUS
<1>2. PICK g : IsSum(g, <<>>, 1..0) /\ FoldLeft(+, 0, <<>>) = g[1..0]
  BY <1>1, FoldIsSum
<1> QED
  BY <1>1, <1>2, SumSteps DEF Sum

LEMMA SumOfAppend ==
  ASSUME NEW s \in Seq(Nat), NEW e \in Nat
  PROVE  Sum(Append(s, e)) = Sum(s) + e
<1> DEFINE longer == Append(s, e)
           n == Len(s)
<1>1. longer \in Seq(Nat) /\ Len(longer) = n + 1 /\ n \in Nat
        /\ longer[n + 1] = e /\ \A i \in 1..n : longer[i] = s[i]
  OBVIOUS
<1> HIDE DEF longer
<1>2. PICK g : IsSum(g, s, 1..n) /\ FoldLeft(+, 0, s) = g[1..n]
  BY FoldIsSum
<1>3. PICK h : IsSum(h, longer, 1..(n + 1)) /\ FoldLeft(+, 0, longer) = h[1..(n + 1)]
  BY <1>1, FoldIsSum
<1> HIDE DEF n
<1>4. g[1..0] = 0 /\ \A j \in 0..(n - 1) : g[1..(j + 1)] = g[1..j] + s[j + 1]
  BY <1>2, SumSteps DEF n
<1>5. h[1..0] = 0 /\ \A j \in 0..n : h[1..(j + 1)] = h[1..j] + longer[j + 1]
  <2>1. IsSum(h, longer, 1..Len(longer))
    BY <1>1, <1>3
  <2>2. Len(longer) - 1 = n
    BY <1>1
  <2> QED
    BY ONLY <1>1, <2>1, <2>2, SumSteps
<1> DEFINE Same == {j \in Nat : j <= n => h[1..j] = g[1..j]}
<1>6. 0 \in Same
  BY <1>4, <1>5
<1>7. ASSUME NEW j \in Same
      PROVE  j + 1 \in Same
  BY <1>1, <1>4, <1>5
<1> HIDE DEF Same
<1>8. Same = Nat
  BY <1>6, <1>7, Induction DEF Same
<1>9. h[1..n] = g[1..n]
  BY <1>1, <1>8 DEF Same
<1>10. h[1..(n + 1)] = h[1..n] + e
  <2>1. n \in 0..n
    BY <1>1
  <2> QED
    BY ONLY <1>1, <1>5, <2>1
<1>11. FoldLeft(+, 0, longer) = FoldLeft(+, 0, s) + e
  BY ONLY <1>2, <1>3, <1>9, <1>10
<1> QED
  BY <1>11 DEF longer, Sum
-----------------------------------------------------------------------------
\* The worker thread.

USE TaskAssumption

\* What was enqueued, position by position: first what was taken, then what
\* is still queued.
Split ==
  /\ Len(submitted) = Len(taken) + Len(tasks)
  /\ \A i \in 1..Len(taken) : submitted[i] = taken[i]
  /\ \A i \in 1..Len(tasks) : submitted[Len(taken) + i] = tasks[i]

\* stop() clears shouldRun_ before it sets the stop token, and the thread
\* ends only after the first.
StopOrder ==
  /\ shouldRun <=> owner = "running"
  /\ stopRequested <=> owner \in {"requested", "joined"}
  /\ pc = "ended" => ~shouldRun

Inv ==
  /\ QueueTypeOK
  /\ Split
  /\ StopOrder
  /\ FrontIsDefined
  /\ SleeperHasNothingToDo
-----------------------------------------------------------------------------
\* A push at the back of both sequences keeps them in step.
LEMMA AppendKeepsSplit ==
  ASSUME NEW t \in Task,
         submitted \in Seq(Task), taken \in Seq(Task), tasks \in Seq(Task),
         Split, taken' = taken,
         tasks' = Append(tasks, t), submitted' = Append(submitted, t)
  PROVE  Split'
<1>1. /\ Len(tasks') = Len(tasks) + 1
      /\ Len(submitted') = Len(submitted) + 1
      /\ Len(taken) \in Nat /\ Len(tasks) \in Nat /\ Len(submitted) \in Nat
  OBVIOUS
<1>2. /\ \A i \in 1..Len(submitted) : submitted'[i] = submitted[i]
      /\ submitted'[Len(submitted) + 1] = t
      /\ \A i \in 1..Len(tasks) : tasks'[i] = tasks[i]
      /\ tasks'[Len(tasks) + 1] = t
  OBVIOUS
<1>3. Len(submitted) = Len(taken) + Len(tasks)
  BY DEF Split
<1>4. ASSUME NEW i \in 1..Len(taken)
      PROVE  submitted'[i] = taken'[i]
  BY <1>1, <1>2, <1>3 DEF Split
<1>5. ASSUME NEW i \in 1..Len(tasks')
      PROVE  submitted'[Len(taken') + i] = tasks'[i]
  <2>1. CASE i \in 1..Len(tasks)
    <3>1. Len(taken) + i \in 1..Len(submitted)
      BY <1>1, <1>3, <2>1
    <3>2. submitted[Len(taken) + i] = tasks[i]
      BY <2>1 DEF Split
    <3> QED
      BY <1>2, <2>1, <3>1, <3>2
  <2>2. CASE i = Len(tasks) + 1
    BY <1>1, <1>2, <1>3, <2>2
  <2>3. i \in 1..(Len(tasks) + 1)
    BY <1>1
  <2>4. i \in 1..Len(tasks) \/ i = Len(tasks) + 1
    BY ONLY <1>1, <2>3
  <2> QED
    BY ONLY <2>1, <2>2, <2>4
<1>6. Len(submitted') = Len(taken') + Len(tasks')
  BY <1>1, <1>3
<1>7. \A i \in 1..Len(tasks') : submitted'[Len(taken') + i] = tasks'[i]
  BY ONLY <1>5
<1>8. \A i \in 1..Len(taken') : submitted'[i] = taken'[i]
  BY <1>4
<1> QED
  BY ONLY <1>6, <1>7, <1>8 DEF Split

\* The split says what the concatenation is.
LEMMA SplitIsConcatenation ==
  ASSUME submitted \in Seq(Task), taken \in Seq(Task), tasks \in Seq(Task),
         Split
  PROVE  submitted = taken \o tasks
<1> DEFINE both == taken \o tasks
<1>1. /\ both \in Seq(Task)
      /\ Len(both) = Len(taken) + Len(tasks)
      /\ \A i \in 1..Len(both) :
           both[i] = IF i <= Len(taken) THEN taken[i]
                     ELSE tasks[i - Len(taken)]
  OBVIOUS
<1>2. Len(submitted) = Len(both)
  BY <1>1 DEF Split
<1>3. ASSUME NEW i \in 1..Len(both)
      PROVE  submitted[i] = both[i]
  <2>1. CASE i <= Len(taken)
    BY <1>1, <2>1 DEF Split
  <2>2. CASE i > Len(taken)
    <3>1. i - Len(taken) \in 1..Len(tasks)
            /\ Len(taken) + (i - Len(taken)) = i
      BY <1>1, <2>2
    <3> HIDE DEF both
    <3>2. submitted[Len(taken) + (i - Len(taken))] = tasks[i - Len(taken)]
      BY <3>1 DEF Split
    <3> QED
      BY <1>1, <2>2, <3>1, <3>2
  <2> QED
    BY <1>1, <2>1, <2>2
<1> HIDE DEF both
<1>4. submitted = both
  BY <1>1, <1>2, <1>3
<1> QED
  BY <1>4 DEF both

LEMMA InitInv == QueueInit => Inv
<1> SUFFICES ASSUME QueueInit
             PROVE  Inv
  OBVIOUS
<1> USE DEF QueueInit
<1>1. QueueTypeOK
  <2>1. <<>> \in Seq(Task)
    OBVIOUS
  <2> QED
    BY <2>1 DEF QueueTypeOK, WorkerPC, OwnerPC
<1>2. Split
  BY DEF Split
<1>3. StopOrder
  BY DEF StopOrder
<1>4. FrontIsDefined /\ SleeperHasNothingToDo
  BY DEF FrontIsDefined, SleeperHasNothingToDo
<1> QED
  BY <1>1, <1>2, <1>3, <1>4 DEF Inv

LEMMA NextInv == Inv /\ [QueueNext]_queueVars => Inv'
<1> SUFFICES ASSUME Inv, [QueueNext]_queueVars
             PROVE  Inv'
  OBVIOUS
<1> USE DEF Inv, QueueTypeOK, WorkerPC, OwnerPC, StopOrder, FrontIsDefined,
            SleeperHasNothingToDo
<1>1. ASSUME NEW t \in Task, Enqueue(t)
      PROVE  Inv'
  <2>1. tasks' = Append(tasks, t) /\ submitted' = Append(submitted, t)
    BY <1>1 DEF Enqueue
  <2>2. QueueTypeOK' /\ StopOrder' /\ FrontIsDefined'
          /\ SleeperHasNothingToDo'
    BY <1>1 DEF Enqueue, Notify
  <2>3. Split'
    <3>1. taken' = taken /\ taken \in Seq(Task) /\ tasks \in Seq(Task)
            /\ submitted \in Seq(Task) /\ Split
      BY <1>1 DEF Enqueue
    <3> QED
      BY ONLY <2>1, <3>1, t \in Task, AppendKeepsSplit
  <2> QED
    BY <2>2, <2>3
<1>2. CASE TestStop
  BY <1>2 DEF TestStop, Split
<1>3. CASE Sleep
  BY <1>3 DEF Sleep, MayProceed, Split
<1>4. CASE SpuriousWakeup
  BY <1>4 DEF SpuriousWakeup, Split
<1>5. CASE Break
  BY <1>5 DEF Break, Split
<1>6. CASE Pop
  \* A stop that is requested has its flag cleared, so the predicate cannot
  \* hold with shouldRun_ set and an empty queue.
  <2>1. tasks # <<>>
    BY <1>6 DEF Pop, MayProceed
  <2>2. /\ current' = Head(tasks)
        /\ tasks' = Tail(tasks)
        /\ taken' = Append(taken, Head(tasks))
        /\ submitted' = submitted
    BY <1>6, <2>1 DEF Pop
  <2>3. Head(tasks) \in Task /\ Head(tasks) = submitted[Len(taken) + 1]
    BY <2>1 DEF Split
  <2>4. QueueTypeOK' /\ StopOrder' /\ FrontIsDefined'
          /\ SleeperHasNothingToDo'
    BY <1>6, <2>1, <2>2, <2>3 DEF Pop
  <2>5. /\ Len(taken') = Len(taken) + 1
        /\ Len(tasks') = Len(tasks) - 1
        /\ \A i \in 1..Len(tasks') : tasks'[i] = tasks[i + 1]
        /\ \A i \in 1..Len(taken') :
             taken'[i] = IF i <= Len(taken) THEN taken[i] ELSE Head(tasks)
    BY <2>1, <2>2, <2>3
  <2>6. Split'
    <3>1. ASSUME NEW i \in 1..Len(tasks')
          PROVE  submitted'[Len(taken') + i] = tasks'[i]
      <4>1. i + 1 \in 1..Len(tasks)
        BY <2>5
      <4>2. submitted[Len(taken) + (i + 1)] = tasks[i + 1]
        BY <4>1 DEF Split
      <4> QED
        BY <2>2, <2>5, <4>2
    <3>2. ASSUME NEW i \in 1..Len(taken')
          PROVE  submitted'[i] = taken'[i]
      BY <2>2, <2>3, <2>5 DEF Split
    <3>3. Len(submitted') = Len(taken') + Len(tasks')
      <4>1. Len(submitted') = Len(submitted)
        BY <2>2
      <4>2. Len(taken) \in Nat /\ Len(tasks) \in Nat
        OBVIOUS
      <4> HIDE DEF Inv
      <4>3. Len(submitted) = Len(taken) + Len(tasks)
        BY DEF Inv, Split
      <4> QED
        BY ONLY <2>5, <4>1, <4>2, <4>3
    <3> QED
      BY <3>1, <3>2, <3>3 DEF Split
  <2> QED
    BY <2>4, <2>6
<1>7. CASE Finish
  BY <1>7 DEF Finish, Split
<1>8. CASE SetFlag
  BY <1>8 DEF SetFlag, Notify, Split
<1>9. CASE RequestStop
  BY <1>9 DEF RequestStop, Split
<1>10. CASE Join
  BY <1>10 DEF Join, Split
<1>11. CASE UNCHANGED queueVars
  BY <1>11 DEF queueVars, Split
<1> QED
  BY <1>1, <1>2, <1>3, <1>4, <1>5, <1>6, <1>7, <1>8, <1>9, <1>10, <1>11
     DEF QueueNext, QueueStep

LEMMA SafeSpecInv == QueueSafeSpec => []Inv
  BY InitInv, NextInv, PTL DEF QueueSafeSpec
-----------------------------------------------------------------------------
\* Every variable keeps its type.
THEOREM TypeCorrect == QueueSafeSpec => []QueueTypeOK
<1>1. Inv => QueueTypeOK
  BY DEF Inv
<1> QED
  BY <1>1, SafeSpecInv, PTL

\* StorageWorker::run never calls front() on an empty queue.
THEOREM FrontAlwaysDefined == QueueSafeSpec => []FrontIsDefined
<1>1. Inv => FrontIsDefined
  BY DEF Inv
<1> QED
  BY <1>1, SafeSpecInv, PTL

\* No wakeup is lost between enqueue, stop() and condition_.wait.
THEOREM NoLostWakeup == QueueSafeSpec => []SleeperHasNothingToDo
<1>1. Inv => SleeperHasNothingToDo
  BY DEF Inv
<1> QED
  BY <1>1, SafeSpecInv, PTL

\* The tasks taken and those still queued are the tasks enqueued, in order.
THEOREM FirstInFirstOut == QueueSafeSpec => []TakenThenQueued
<1>1. Inv => TakenThenQueued
  <2>1. Inv => /\ taken \in Seq(Task) /\ tasks \in Seq(Task)
               /\ submitted \in Seq(Task) /\ Split
    BY DEF Inv, QueueTypeOK
  <2> QED
    BY <2>1, SplitIsConcatenation DEF TakenThenQueued
<1> QED
  BY <1>1, SafeSpecInv, PTL
-----------------------------------------------------------------------------
LEMMA MailboxStep ==
  Inv /\ [QueueNext]_queueVars => [Mailbox!Next]_(Mailbox!vars)
<1> SUFFICES ASSUME Inv, [QueueNext]_queueVars
             PROVE  [Mailbox!Next]_(Mailbox!vars)
  OBVIOUS
<1> USE DEF Inv, QueueTypeOK, WorkerPC, OwnerPC, StopOrder, Mailbox!vars
<1>1. ASSUME NEW t \in Task, Enqueue(t)
      PROVE  Mailbox!Submit(t)
  BY <1>1 DEF Enqueue, Notify, Mailbox!Submit
<1>2. ASSUME TestStop
      PROVE  Mailbox!End \/ UNCHANGED Mailbox!vars
  BY <1>2 DEF TestStop, Mailbox!End
<1>3. ASSUME Sleep \/ SpuriousWakeup \/ Finish \/ RequestStop \/ Join
      PROVE  UNCHANGED Mailbox!vars
  BY <1>3 DEF Sleep, SpuriousWakeup, Finish, RequestStop, Join
<1>4. ASSUME Break
      PROVE  Mailbox!End
  BY <1>4 DEF Break, Mailbox!End
<1>5. ASSUME Pop
      PROVE  Mailbox!Take
  <2>1. tasks # <<>>
    BY <1>5 DEF Pop, MayProceed
  <2>2. Len(taken) < Len(submitted)
          /\ Head(tasks) = submitted[Len(taken) + 1]
    BY <2>1 DEF Split
  <2> QED
    BY <1>5, <2>1, <2>2 DEF Pop, Mailbox!Take
<1>6. ASSUME SetFlag
      PROVE  Mailbox!Close
  BY <1>6 DEF SetFlag, Notify, Mailbox!Close
<1>7. CASE UNCHANGED queueVars
  BY <1>7 DEF queueVars
<1> QED
  BY <1>1, <1>2, <1>3, <1>4, <1>5, <1>6, <1>7
     DEF QueueNext, QueueStep, Mailbox!Next

\* The thread, its queue and stop() implement the mailbox: every step of
\* theirs is a submission, a take, the closing, the end, or invisible.
THEOREM MailboxSafety == QueueSafeSpec => Mailbox!SafeSpec
<1>1. QueueInit => Mailbox!Init
  BY DEF QueueInit, Mailbox!Init
<1> QED
  BY <1>1, MailboxStep, SafeSpecInv, PTL DEF QueueSafeSpec, Mailbox!SafeSpec
-----------------------------------------------------------------------------
\* The store.

HIDE TaskAssumption

StorageTypes ==
  /\ db \in Seq(Batch)
  /\ backups \in [Path -> Seq(Batch)]
  /\ written \in BOOLEAN
  /\ totalBatches \in Nat /\ totalStored \in Nat
  /\ opened \in Nat /\ opened <= Len(db)
  /\ failed \subseteq 1..Len(taken)

\* The task that is processed is the last one taken, and has not failed yet;
\* only a batch is written before it is counted.
AtWork ==
  /\ pc = "process" => /\ Len(taken) > 0
                       /\ current = taken[Len(taken)]
                       /\ Len(taken) \notin failed
  /\ written => Processing("BATCH")

StoreInv ==
  Inv /\ StorageTypes /\ AtWork /\ DbFollowsQueue /\ CountersFollowDb

\* A batch's task carries the batch and its size.
LEMMA BatchFacts ==
  ASSUME NEW t \in Task, t.type = "BATCH"
  PROVE  t.batch \in Batch /\ BatchSize[t.batch] \in Nat
<1>1. t \in BatchTask
  BY StorageAssumption DEF BatchTask, GetTask, BackupTask
<1>2. t.batch \in Batch
  BY <1>1 DEF BatchTask
<1> QED
  BY <1>2, StorageAssumption

\* What a session wrote is the end of the database from where it opened it.
LEMMA EndOfSeq ==
  ASSUME NEW d \in Seq(Batch), NEW o \in Nat, o <= Len(d)
  PROVE  /\ SubSeq(d, o + 1, Len(d)) \in Seq(Batch)
         /\ Len(SubSeq(d, o + 1, Len(d))) = Len(d) - o
         /\ \A k \in 1..(Len(d) - o) : SubSeq(d, o + 1, Len(d))[k] = d[o + k]
<1> DEFINE e == SubSeq(d, o + 1, Len(d))
<1>1. Len(d) \in Nat /\ o + 1 \in Int /\ \A i \in (o + 1)..Len(d) : d[i] \in Batch
  OBVIOUS
<1>2. /\ e \in Seq(Batch)
      /\ Len(e) = IF o + 1 <= Len(d) THEN Len(d) - (o + 1) + 1 ELSE 0
      /\ \A k \in 1..(Len(d) - (o + 1) + 1) : e[k] = d[(o + 1) + k - 1]
  BY ONLY <1>1, SubSeqProperties
<1> HIDE DEF e
<1>3. Len(e) = Len(d) - o
  BY <1>1, <1>2
<1>4. ASSUME NEW k \in 1..(Len(d) - o)
      PROVE  e[k] = d[o + k]
  <2>1. k \in 1..(Len(d) - (o + 1) + 1) /\ (o + 1) + k - 1 = o + k
    BY <1>1
  <2> QED
    BY <1>2, <2>1
<1> QED
  BY <1>2, <1>3, <1>4 DEF e

\* Appending to the database appends to its end.
LEMMA EndOfAppend ==
  ASSUME NEW d \in Seq(Batch), NEW o \in Nat, o <= Len(d), NEW b \in Batch
  PROVE  SubSeq(Append(d, b), o + 1, Len(Append(d, b)))
           = Append(SubSeq(d, o + 1, Len(d)), b)
<1> DEFINE longer == Append(d, b)
           e == SubSeq(d, o + 1, Len(d))
           f == SubSeq(longer, o + 1, Len(longer))
<1>1. /\ longer \in Seq(Batch) /\ Len(d) \in Nat /\ Len(longer) = Len(d) + 1
      /\ longer[Len(d) + 1] = b /\ \A i \in 1..Len(d) : longer[i] = d[i]
  OBVIOUS
<1> HIDE DEF longer
<1>2. /\ e \in Seq(Batch) /\ Len(e) = Len(d) - o
      /\ \A k \in 1..(Len(d) - o) : e[k] = d[o + k]
  BY EndOfSeq
<1>3. /\ f \in Seq(Batch) /\ Len(f) = Len(longer) - o
      /\ \A k \in 1..(Len(longer) - o) : f[k] = longer[o + k]
  BY <1>1, EndOfSeq
<1> HIDE DEF e, f
<1>4. /\ Append(e, b) \in Seq(Batch) /\ Len(Append(e, b)) = Len(e) + 1
      /\ Append(e, b)[Len(e) + 1] = b
      /\ \A k \in 1..Len(e) : Append(e, b)[k] = e[k]
  BY <1>2, AppendProperties
<1>5. Len(f) = Len(Append(e, b))
  BY <1>1, <1>2, <1>3, <1>4
<1>6. ASSUME NEW k \in 1..Len(f)
      PROVE  f[k] = Append(e, b)[k]
  <2>1. Len(f) = Len(d) + 1 - o /\ Len(e) = Len(d) - o
    BY ONLY <1>1, <1>2, <1>3
  <2>2. f[k] = longer[o + k]
    BY ONLY <1>1, <1>3, k \in 1..Len(f)
  <2>3. CASE k = Len(e) + 1
    <3>1. o + k = Len(d) + 1
      BY ONLY <1>1, <2>1, <2>3, o \in Nat
    <3> QED
      BY ONLY <1>1, <1>4, <2>2, <2>3, <3>1
  <2>4. CASE k # Len(e) + 1
    <3>1. k \in 1..(Len(d) - o) /\ o + k \in 1..Len(d) /\ k \in 1..Len(e)
      BY ONLY <1>1, <2>1, <2>4, o \in Nat, o <= Len(d), k \in 1..Len(f)
    <3> QED
      BY ONLY <1>1, <1>2, <1>4, <2>2, <3>1
  <2> QED
    BY ONLY <2>3, <2>4
<1>7. f = Append(e, b)
  BY <1>3, <1>4, <1>5, <1>6, SeqEqual
<1> QED
  BY <1>7 DEF e, f, longer

\* All but the last of a sequence with something appended.
LEMMA FrontOfAppend ==
  ASSUME NEW S, NEW e \in Seq(S), NEW b \in S
  PROVE  Front(Append(e, b)) = e
<1> DEFINE f == Append(e, b)
<1>1. /\ Len(e) \in Nat /\ Len(f) = Len(e) + 1
      /\ \A k \in 1..Len(e) : f[k] = e[k] /\ f[k] \in S
  OBVIOUS
<1> HIDE DEF f
<1>2. /\ SubSeq(f, 1, Len(e)) \in Seq(S)
      /\ Len(SubSeq(f, 1, Len(e))) = IF 1 <= Len(e) THEN Len(e) - 1 + 1 ELSE 0
      /\ \A i \in 1..(Len(e) - 1 + 1) : SubSeq(f, 1, Len(e))[i] = f[1 + i - 1]
  BY ONLY <1>1, SubSeqProperties, 1 \in Int, Len(e) \in Int
<1>3. ASSUME NEW i \in 1..Len(e)
      PROVE  SubSeq(f, 1, Len(e))[i] = e[i]
  BY <1>1, <1>2
<1>4. SubSeq(f, 1, Len(e)) = e
  BY <1>1, <1>2, <1>3, SeqEqual
<1>5. Len(f) - 1 = Len(e)
  BY <1>1
<1> QED
  BY <1>4, <1>5 DEF Front, f

\* All but the last of a sequence that has one.
LEMMA FrontFacts ==
  ASSUME NEW S, NEW w \in Seq(S), Len(w) > 0
  PROVE  /\ Front(w) \in Seq(S)
         /\ Len(w) = Len(Front(w)) + 1
         /\ \A k \in 1..Len(Front(w)) : Front(w)[k] = w[k]
<1> DEFINE n == Len(w) - 1
<1>1. n \in Nat /\ Len(w) = n + 1 /\ \A i \in 1..n : w[i] \in S
  OBVIOUS
<1>2. /\ SubSeq(w, 1, n) \in Seq(S)
      /\ Len(SubSeq(w, 1, n)) = IF 1 <= n THEN n - 1 + 1 ELSE 0
      /\ \A i \in 1..(n - 1 + 1) : SubSeq(w, 1, n)[i] = w[1 + i - 1]
  BY ONLY <1>1, SubSeqProperties, 1 \in Int, n \in Int
<1>3. Front(w) = SubSeq(w, 1, n)
  BY DEF Front
<1> HIDE DEF n
<1> QED
  BY ONLY <1>1, <1>2, <1>3

\* The sizes of the batches of a sequence, taken apart at its last.
LEMMA SizesOfSeq ==
  ASSUME NEW w \in Seq(Batch), NEW e \in Seq(Batch), NEW b \in Batch,
         Len(w) = Len(e) + 1, w[Len(w)] = b, \A k \in 1..Len(e) : e[k] = w[k]
  PROVE  /\ [k \in DOMAIN w |-> BatchSize[w[k]]] \in Seq(Nat)
         /\ [k \in DOMAIN e |-> BatchSize[e[k]]] \in Seq(Nat)
         /\ [k \in DOMAIN w |-> BatchSize[w[k]]]
              = Append([k \in DOMAIN e |-> BatchSize[e[k]]], BatchSize[b])
<1> DEFINE sizes == [k \in DOMAIN w |-> BatchSize[w[k]]]
           before == [k \in DOMAIN e |-> BatchSize[e[k]]]
           longer == Append(before, BatchSize[b])
<1>1. \A c \in Batch : BatchSize[c] \in Nat
  BY StorageAssumption
<1>2. DOMAIN w = 1..Len(w) /\ DOMAIN e = 1..Len(e) /\ Len(e) \in Nat /\ Len(w) \in Nat
        /\ (\A k \in 1..Len(w) : w[k] \in Batch) /\ \A k \in 1..Len(e) : e[k] \in Batch
  OBVIOUS
<1>3. sizes \in Seq(Nat) /\ Len(sizes) = Len(w)
        /\ \A k \in 1..Len(w) : sizes[k] = BatchSize[w[k]]
  BY <1>1, <1>2
<1>4. before \in Seq(Nat) /\ Len(before) = Len(e)
        /\ \A k \in 1..Len(e) : before[k] = BatchSize[e[k]]
  BY <1>1, <1>2
<1> HIDE DEF sizes, before
<1>5. BatchSize[b] \in Nat
  BY <1>1
<1>6. longer \in Seq(Nat) /\ Len(longer) = Len(e) + 1
        /\ longer[Len(e) + 1] = BatchSize[b]
        /\ \A k \in 1..Len(e) : longer[k] = before[k]
  BY <1>4, <1>5, AppendProperties
<1> HIDE DEF longer
<1>7. ASSUME NEW k \in 1..Len(sizes)
      PROVE  sizes[k] = longer[k]
  <2>1. k \in 1..Len(e) \/ k = Len(e) + 1
    BY ONLY <1>2, <1>3, k \in 1..Len(sizes), Len(w) = Len(e) + 1
  <2>2. CASE k \in 1..Len(e)
    <3>1. longer[k] = BatchSize[e[k]]
      BY ONLY <1>4, <1>6, <2>2
    <3>2. sizes[k] = BatchSize[w[k]]
      BY ONLY <1>3, k \in 1..Len(sizes)
    <3> QED
      BY ONLY <2>2, <3>1, <3>2, \A j \in 1..Len(e) : e[j] = w[j]
  <2>3. CASE k = Len(e) + 1
    BY <1>2, <1>3, <1>6, <2>3
  <2> QED
    BY <2>1, <2>2, <2>3
<1>8. sizes = longer
  BY <1>3, <1>6, <1>7, SeqEqual
<1> QED
  BY <1>3, <1>4, <1>8 DEF sizes, before, longer

\* A number above all of a set comes last in it.
LEMMA RankOfLast ==
  ASSUME NEW n \in Nat, NEW W \in SUBSET (1..n), n \notin W, n > 0
  PROVE  /\ Cardinality(W) \in Nat
         /\ Cardinality(W \cup {n}) = Cardinality(W) + 1
         /\ {j \in W \cup {n} : j <= n} = W \cup {n}
         /\ \A i \in W : {j \in W \cup {n} : j <= i} = {j \in W : j <= i}
<1>1. IsFiniteSet(W)
  <2>1. IsFiniteSet(1..n) /\ W \subseteq 1..n
    BY FS_Interval
  <2> QED
    BY ONLY <2>1, FS_Subset
<1>2. Cardinality(W) \in Nat /\ Cardinality(W \cup {n}) = Cardinality(W) + 1
  BY <1>1, FS_CardinalityType, FS_AddElement
<1>3. {j \in W \cup {n} : j <= n} = W \cup {n}
  <2>1. \A j \in W \cup {n} : j <= n
    OBVIOUS
  <2> QED
    BY <2>1
<1>4. ASSUME NEW i \in W
      PROVE  {j \in W \cup {n} : j <= i} = {j \in W : j <= i}
  <2>1. i \in 1..n /\ i # n
    OBVIOUS
  <2>2. ~(n <= i)
    BY <2>1
  <2> QED
    BY <2>2
<1> QED
  BY <1>2, <1>3, <1>4

\* Every member of a set has its rank.
LEMMA RankInRange ==
  ASSUME NEW n \in Nat, NEW W \in SUBSET (1..n), NEW i \in W
  PROVE  /\ Cardinality(W) \in Nat
         /\ Cardinality({j \in W : j <= i}) \in 1..Cardinality(W)
<1> DEFINE upTo == {j \in W : j <= i}
<1>1. IsFiniteSet(W)
  <2>1. IsFiniteSet(1..n) /\ W \subseteq 1..n
    BY FS_Interval
  <2> QED
    BY ONLY <2>1, FS_Subset
<1>2. IsFiniteSet(upTo) /\ Cardinality(upTo) <= Cardinality(W)
  BY <1>1, FS_Subset
<1>3. upTo # {}
  BY i \in upTo
<1> HIDE DEF upTo
<1>4. Cardinality(upTo) \in Nat /\ Cardinality(upTo) # 0 /\ Cardinality(W) \in Nat
  BY <1>1, <1>2, <1>3, FS_CardinalityType, FS_EmptySet
<1> QED
  BY <1>2, <1>4 DEF upTo

\* Neither the database nor what is written of the queue changes.
LEMMA DbKept ==
  ASSUME DbFollowsQueue, Written' = Written,
         \A i \in Written : taken'[i] = taken[i],
         UNCHANGED <<db, opened>>
  PROVE  DbFollowsQueue'
<1>1. SessionWrites' = SessionWrites
  BY DEF SessionWrites
<1>2. ASSUME NEW i \in Written
      PROVE  SessionWrites'[Cardinality({j \in Written' : j <= i})] = taken'[i].batch
  BY <1>1 DEF DbFollowsQueue
<1> QED
  BY <1>1, <1>2 DEF DbFollowsQueue

LEMMA CountersKept ==
  ASSUME CountersFollowDb,
         UNCHANGED <<db, opened, written, totalBatches, totalStored>>
  PROVE  CountersFollowDb'
<1>1. Counted' = Counted
  BY DEF Counted, SessionWrites
<1>2. Sizes' = Sizes
  BY <1>1 DEF Sizes
<1>3. Sum(Sizes)' = Sum(Sizes)
  BY <1>2
<1> QED
  BY <1>1, <1>3 DEF CountersFollowDb, Sum

\* A step that takes no task and is not about one that is processed.
LEMMA QuietStep ==
  ASSUME StoreInv, Inv', UNCHANGED storageVars, taken' = taken,
         \/ pc' = pc /\ current' = current
         \/ pc # "process" /\ pc' # "process"
  PROVE  StoreInv'
<1> USE DEF StoreInv, storageVars
<1>1. StorageTypes'
  BY DEF StorageTypes
<1>2. AtWork'
  BY DEF AtWork, Processing
<1>3. Written' = Written
  BY DEF Written, IsWritten
<1>4. DbFollowsQueue'
  BY <1>3, DbKept
<1>5. CountersFollowDb'
  BY CountersKept
<1> QED
  BY <1>1, <1>2, <1>4, <1>5

LEMMA InitStore == Init => StoreInv
<1> SUFFICES ASSUME Init
             PROVE  StoreInv
  OBVIOUS
<1> USE DEF Init, QueueInit
<1>1. Inv
  BY InitInv
<1>2. <<>> \in Seq(Batch) /\ Len(<<>>) = 0
  OBVIOUS
<1>3. StorageTypes
  <2>1. db \in Seq(Batch) /\ backups \in [Path -> Seq(Batch)]
    BY <1>2
  <2>2. written \in BOOLEAN
    OBVIOUS
  <2>3. totalBatches \in Nat /\ totalStored \in Nat /\ opened \in Nat /\ opened <= Len(db)
    BY <1>2
  <2>4. failed \subseteq 1..Len(taken)
    OBVIOUS
  <2> QED
    BY ONLY <2>1, <2>2, <2>3, <2>4 DEF StorageTypes
<1>7. AtWork
  BY DEF AtWork
<1>4. Written = {} /\ SessionWrites = <<>>
  BY <1>2, SubSeqEmpty DEF Written, SessionWrites
<1>5. DbFollowsQueue
  BY <1>2, <1>4, FS_EmptySet DEF DbFollowsQueue
<1>6. CountersFollowDb
  <2>1. Counted = <<>>
    BY <1>4 DEF Counted
  <2>2. Sizes = <<>>
    BY <2>1 DEF Sizes
  <2>3. Sum(Sizes) = 0
    BY <2>2, SumOfEmpty
  <2> QED
    BY <1>2, <2>1, <2>3 DEF CountersFollowDb, Sum
<1> QED
  BY <1>1, <1>3, <1>5, <1>6, <1>7 DEF StoreInv

\* Taking a task writes nothing: its position is new, and not written yet.
LEMMA PopStep ==
  ASSUME StoreInv, Inv', UNCHANGED storageVars, Pop
  PROVE  StoreInv'
<1> USE DEF storageVars
<1>1. /\ tasks \in Seq(Task) /\ taken \in Seq(Task) /\ tasks # <<>>
      /\ pc = "lock" /\ pc' = "process" /\ ~written
  BY DEF StoreInv, Inv, QueueTypeOK, StopOrder, Pop, MayProceed, AtWork, Processing
<1>2. current' = Head(tasks) /\ taken' = Append(taken, Head(tasks))
        /\ Head(tasks) \in Task
  BY <1>1 DEF Pop
<1>3. /\ Len(taken) \in Nat /\ Len(taken') = Len(taken) + 1
      /\ taken'[Len(taken')] = current'
      /\ \A i \in 1..Len(taken) : taken'[i] = taken[i]
      /\ DOMAIN taken = 1..Len(taken) /\ DOMAIN taken' = 1..Len(taken')
  BY <1>1, <1>2
<1>4. failed \subseteq 1..Len(taken)
  BY DEF StoreInv, StorageTypes
<1>5. StorageTypes'
  BY <1>3, <1>4 DEF StoreInv, StorageTypes
<1>6. AtWork'
  BY <1>1, <1>3, <1>4 DEF AtWork, Processing
<1>7. Written' = Written
  <2>1. ASSUME NEW i \in 1..Len(taken)
        PROVE  IsWritten(i)' <=> IsWritten(i)
    BY <1>1, <1>3 DEF IsWritten
  <2>2. PICK n : n = Len(taken) + 1
    OBVIOUS
  <2>3. ~IsWritten(n)'
    BY <1>1, <1>3, <2>2 DEF IsWritten
  <2>4. 1..Len(taken') = 1..Len(taken) \cup {n}
    BY <1>3, <2>2
  <2> QED
    BY <1>3, <2>1, <2>3, <2>4 DEF Written
<1>8. DbFollowsQueue'
  <2>1. \A i \in Written : taken'[i] = taken[i]
    BY <1>3 DEF Written
  <2> QED
    BY <1>7, <2>1, DbKept DEF StoreInv
<1>9. CountersFollowDb'
  BY CountersKept DEF StoreInv
<1> QED
  BY <1>5, <1>6, <1>8, <1>9 DEF StoreInv

\* The end of a task that leaves the database and the counters alone, and does
\* not change whether the task's position is written.
LEMMA FinishStep ==
  ASSUME StoreInv, Inv', Finish, ~written,
         failed' = failed \/ Fail,
         failed' = failed => current.type # "BATCH" \/ Fail,
         backups' \in [Path -> Seq(Batch)],
         UNCHANGED <<db, written, totalBatches, totalStored, opened>>
  PROVE  StoreInv'
<1>1. /\ pc = "process" /\ pc' = "test" /\ taken' = taken
      /\ taken \in Seq(Task) /\ DOMAIN taken = 1..Len(taken)
      /\ Len(taken) \in 1..Len(taken) /\ current = taken[Len(taken)]
  BY DEF StoreInv, Inv, QueueTypeOK, AtWork, Finish
<1>2. failed' \in {failed, failed \cup {Len(taken)}}
  BY DEF Fail
<1>3. StorageTypes'
  BY <1>1, <1>2 DEF StoreInv, StorageTypes
<1>4. AtWork'
  BY <1>1 DEF AtWork
<1>5. Written' = Written
  <2>1. ASSUME NEW i \in 1..Len(taken), i # Len(taken)
        PROVE  IsWritten(i)' <=> IsWritten(i)
    BY <1>1, <1>2, <2>1 DEF IsWritten
  <2>2. ~IsWritten(Len(taken))
    BY <1>1 DEF IsWritten
  <2>3. ~IsWritten(Len(taken))'
    BY <1>1 DEF IsWritten, Fail
  <2> QED
    BY <1>1, <2>1, <2>2, <2>3 DEF Written
<1>6. DbFollowsQueue'
  BY <1>1, <1>5, DbKept DEF StoreInv
<1>7. CountersFollowDb'
  BY CountersKept DEF StoreInv
<1> QED
  BY <1>3, <1>4, <1>6, <1>7 DEF StoreInv

\* The write puts the last batch taken behind the others, where its rank is.
LEMMA WriteStep ==
  ASSUME StoreInv, Inv', WriteBatch
  PROVE  StoreInv'
<1>0. PICK n, b : n = Len(taken) /\ b = current.batch
  OBVIOUS
<1>1. /\ pc = "process" /\ pc' = pc /\ current' = current /\ taken' = taken
      /\ current.type = "BATCH" /\ ~written /\ written' = TRUE
      /\ db' = Append(db, b) /\ opened' = opened /\ failed' = failed
      /\ totalBatches' = totalBatches /\ totalStored' = totalStored
      /\ backups' = backups
  BY <1>0 DEF WriteBatch, Processing, queueVars
<1>2. /\ taken \in Seq(Task) /\ DOMAIN taken = 1..n /\ n \in Nat /\ n > 0
      /\ current = taken[n] /\ current \in Task /\ n \notin failed
  BY <1>0, <1>1 DEF StoreInv, Inv, QueueTypeOK, AtWork
<1>3. b \in Batch
  BY <1>0, <1>1, <1>2, BatchFacts
<1>4. /\ db \in Seq(Batch) /\ opened \in Nat /\ opened <= Len(db)
      /\ Len(db) \in Nat /\ Append(db, b) \in Seq(Batch)
      /\ Len(Append(db, b)) = Len(db) + 1
  BY <1>3 DEF StoreInv, StorageTypes
<1>5. StorageTypes'
  BY <1>1, <1>4 DEF StoreInv, StorageTypes
<1>6. AtWork'
  BY <1>1 DEF StoreInv, AtWork, Processing
<1>7. SessionWrites \in Seq(Batch) /\ SessionWrites' = Append(SessionWrites, b)
  BY <1>1, <1>3, <1>4, EndOfSeq, EndOfAppend DEF SessionWrites
<1>8. Written \in SUBSET (1..n) /\ n \notin Written /\ Written' = Written \cup {n}
  <2>1. ASSUME NEW i \in 1..n, i # n
        PROVE  IsWritten(i)' <=> IsWritten(i)
    BY <1>0, <1>1, <2>1 DEF IsWritten
  <2>2. ~IsWritten(n) /\ IsWritten(n)'
    BY <1>0, <1>1, <1>2 DEF IsWritten
  <2> QED
    BY <1>1, <1>2, <2>1, <2>2 DEF Written
<1>9. DbFollowsQueue'
  <2>1. /\ Cardinality(Written) \in Nat
        /\ Cardinality(Written') = Cardinality(Written) + 1
        /\ {j \in Written' : j <= n} = Written'
        /\ \A i \in Written : {j \in Written' : j <= i} = {j \in Written : j <= i}
    BY <1>2, <1>8, RankOfLast
  <2>2. Len(SessionWrites) = Cardinality(Written)
    BY DEF StoreInv, DbFollowsQueue
  <2>3. /\ Len(SessionWrites') = Len(SessionWrites) + 1
        /\ SessionWrites'[Len(SessionWrites) + 1] = b
        /\ \A k \in 1..Len(SessionWrites) : SessionWrites'[k] = SessionWrites[k]
    BY <1>3, <1>7, AppendProperties
  <2>4. ASSUME NEW i \in Written
        PROVE  SessionWrites'[Cardinality({j \in Written' : j <= i})] = taken'[i].batch
    <3>1. Cardinality({j \in Written : j <= i}) \in 1..Len(SessionWrites)
      BY <1>2, <1>8, <2>2, RankInRange
    <3>2. SessionWrites[Cardinality({j \in Written : j <= i})] = taken[i].batch
      BY DEF StoreInv, DbFollowsQueue
    <3> QED
      BY <1>1, <2>1, <2>3, <3>1, <3>2
  <2>5. SessionWrites'[Cardinality({j \in Written' : j <= n})] = taken'[n].batch
    BY <1>0, <1>1, <1>2, <2>1, <2>2, <2>3
  <2> QED
    BY <1>8, <2>1, <2>2, <2>3, <2>4, <2>5 DEF DbFollowsQueue
<1>10. CountersFollowDb'
  <2>1. Counted = SessionWrites /\ Counted' = SessionWrites
    BY <1>1, <1>3, <1>7, FrontOfAppend DEF Counted
  <2>2. Sizes' = Sizes
    BY <2>1 DEF Sizes
  <2>3. Sum(Sizes)' = Sum(Sizes)
    BY <2>2
  <2> QED
    BY <1>1, <2>1, <2>3 DEF StoreInv, CountersFollowDb, Sum
<1> QED
  BY <1>5, <1>6, <1>9, <1>10 DEF StoreInv

\* The statistics take in the batch just written.
LEMMA CountStep ==
  ASSUME StoreInv, Inv', CountBatch
  PROVE  StoreInv'
<1>0. PICK n, b : n = Len(taken) /\ b = current.batch
  OBVIOUS
<1>1. /\ pc = "process" /\ pc' = "test" /\ taken' = taken
      /\ current.type = "BATCH" /\ written /\ written' = FALSE
      /\ db' = db /\ opened' = opened /\ failed' = failed /\ backups' = backups
      /\ totalBatches' = totalBatches + 1
      /\ totalStored' = totalStored + BatchSize[b]
  BY <1>0 DEF CountBatch, Processing, Finish
<1>2. /\ taken \in Seq(Task) /\ DOMAIN taken = 1..n /\ n \in Nat /\ n > 0
      /\ current = taken[n] /\ current \in Task /\ n \notin failed
  BY <1>0, <1>1 DEF StoreInv, Inv, QueueTypeOK, AtWork
<1>3. b \in Batch /\ BatchSize[b] \in Nat
  BY <1>0, <1>1, <1>2, BatchFacts
<1>4. StorageTypes'
  <2>1. totalBatches' \in Nat /\ totalStored' \in Nat
    BY <1>1, <1>3 DEF StoreInv, StorageTypes
  <2> QED
    BY <1>1, <2>1 DEF StoreInv, StorageTypes
<1>5. AtWork'
  BY <1>1 DEF AtWork
<1>6. Written' = Written /\ n \in Written
  <2>1. ASSUME NEW i \in 1..n
        PROVE  IsWritten(i)' <=> IsWritten(i)
    BY <1>0, <1>1 DEF IsWritten
  <2>2. IsWritten(n)
    BY <1>1, <1>2 DEF IsWritten
  <2> QED
    BY <1>1, <1>2, <2>1, <2>2 DEF Written
<1>7. DbFollowsQueue'
  BY <1>1, <1>6, DbKept DEF StoreInv
\* What is counted now is all this session wrote, and its last is b.
<1>8. PICK w : w = SessionWrites
  OBVIOUS
<1>9. w \in Seq(Batch) /\ Len(w) \in Nat /\ Len(w) > 0 /\ w[Len(w)] = b
  <2>1. w \in Seq(Batch)
    BY <1>8, EndOfSeq DEF StoreInv, StorageTypes, SessionWrites
  <2>2. Written \in SUBSET (1..n)
    BY <1>2 DEF Written
  <2>3. {j \in Written : j <= n} = Written
    <3>1. \A j \in Written : j <= n
      BY <1>2, <2>2
    <3> QED
      BY <3>1
  <2>4. Cardinality(Written) \in 1..Cardinality(Written)
    BY <1>2, <1>6, <2>2, <2>3, RankInRange
  <2>5. Len(w) = Cardinality(Written) /\ w[Cardinality(Written)] = taken[n].batch
    BY <1>6, <1>8, <2>3 DEF StoreInv, DbFollowsQueue
  <2> QED
    BY <1>0, <1>2, <2>1, <2>4, <2>5
<1>10. Counted = Front(w) /\ Counted' = w
  BY <1>1, <1>8 DEF Counted, SessionWrites
<1>11. CountersFollowDb'
  <2>1. Front(w) \in Seq(Batch) /\ Len(w) = Len(Front(w)) + 1
          /\ \A k \in 1..Len(Front(w)) : Front(w)[k] = w[k]
    BY <1>9, FrontFacts
  <2> DEFINE sizes == [k \in DOMAIN w |-> BatchSize[w[k]]]
             before == [k \in DOMAIN Front(w) |-> BatchSize[Front(w)[k]]]
  <2>2. sizes \in Seq(Nat) /\ before \in Seq(Nat) /\ sizes = Append(before, BatchSize[b])
    BY <1>3, <1>9, <2>1, SizesOfSeq
  <2>3. Sizes = before /\ Sizes' = sizes
    BY <1>10 DEF Sizes
  <2> HIDE DEF sizes, before
  <2>4. Sum(sizes) = Sum(before) + BatchSize[b]
    BY <1>3, <2>2, SumOfAppend
  <2>5. totalBatches = Len(Front(w)) /\ totalStored = Sum(before)
    BY <1>10, <2>3 DEF StoreInv, CountersFollowDb, Sum
  <2>6. totalBatches' = Len(w) /\ totalStored' = Sum(sizes)
    BY <1>1, <2>1, <2>4, <2>5
  <2>7. Sum(Sizes)' = Sum(sizes)
    BY <2>3
  <2> QED
    BY <1>10, <2>6, <2>7 DEF CountersFollowDb, Sum
<1> QED
  BY <1>4, <1>5, <1>7, <1>11 DEF StoreInv

\* A new session has written, counted and taken nothing yet.
LEMMA ReopenStep ==
  ASSUME StoreInv, Inv', Reopen
  PROVE  StoreInv'
<1> USE DEF Reopen
<1>1. db \in Seq(Batch) /\ Len(db) \in Nat /\ backups \in [Path -> Seq(Batch)]
  BY DEF StoreInv, StorageTypes
<1>2. <<>> \in Seq(Task) /\ Len(<<>>) = 0 /\ DOMAIN <<>> = {}
  OBVIOUS
<1>3. StorageTypes'
  <2>1. db' \in Seq(Batch) /\ backups' \in [Path -> Seq(Batch)]
    BY <1>1
  <2>2. opened' \in Nat /\ opened' <= Len(db')
    BY <1>1
  <2>3. /\ written' \in BOOLEAN /\ totalBatches' \in Nat /\ totalStored' \in Nat
        /\ failed' \subseteq 1..Len(taken')
    OBVIOUS
  <2> QED
    BY ONLY <2>1, <2>2, <2>3 DEF StorageTypes
<1>4. AtWork'
  BY DEF AtWork
<1>5. Written' = {}
  BY <1>2 DEF Written
<1>6. SessionWrites' = <<>>
  <2>1. Len(db) + 1 \in Int /\ Len(db) \in Int /\ Len(db) + 1 > Len(db)
    BY <1>1
  <2> QED
    BY <2>1, SubSeqEmpty DEF SessionWrites
<1>7. DbFollowsQueue'
  BY <1>2, <1>5, <1>6, FS_EmptySet DEF DbFollowsQueue
<1>8. CountersFollowDb'
  <2>1. Counted' = <<>>
    BY <1>6 DEF Counted
  <2>2. Sizes' = <<>>
    BY <2>1 DEF Sizes
  <2>3. Sum(Sizes)' = 0
    BY <2>2, SumOfEmpty
  <2> QED
    BY <1>2, <2>1, <2>3 DEF CountersFollowDb, Sum
<1> QED
  BY <1>3, <1>4, <1>7, <1>8 DEF StoreInv

LEMMA NextStore == StoreInv /\ [Next]_vars => StoreInv'
<1> SUFFICES ASSUME StoreInv, [Next]_vars
             PROVE  StoreInv'
  OBVIOUS
<1>0. QueueInit' => Inv'
  BY InitInv, PTL
<1>1. Inv /\ ([QueueNext]_queueVars => Inv')
  BY NextInv DEF StoreInv
<1>2. ASSUME NEW t \in Task, Request(t)
      PROVE  StoreInv'
  <2>1. Enqueue(t) /\ UNCHANGED storageVars
    BY <1>2 DEF Request
  <2>2. Inv'
    BY <1>1, <2>1 DEF QueueNext
  <2>3. taken' = taken /\ current' = current
          /\ (pc' = pc \/ (pc # "process" /\ pc' # "process"))
    BY ONLY <2>1 DEF Enqueue, Notify
  <2> QED
    BY <2>1, <2>2, <2>3, QuietStep
<1>3. ASSUME QueueOnly(QueueStep) \/ QueueOnly(SpuriousWakeup) \/ QueueOnly(SetFlag)
               \/ QueueOnly(RequestStop) \/ QueueOnly(Join)
      PROVE  StoreInv'
  <2>1. UNCHANGED storageVars
    BY <1>3 DEF QueueOnly
  <2>2. Inv'
    BY <1>1, <1>3 DEF QueueOnly, QueueNext
  <2>3. CASE Pop
    BY <2>1, <2>2, <2>3, PopStep
  <2>4. CASE TestStop \/ Sleep \/ Break \/ SpuriousWakeup
    BY <2>1, <2>2, <2>4, QuietStep DEF TestStop, Sleep, Break, SpuriousWakeup
  <2>5. CASE SetFlag \/ RequestStop \/ Join
    BY <2>1, <2>2, <2>5, QuietStep DEF SetFlag, Notify, RequestStop, Join
  <2> QED
    BY <1>3, <2>3, <2>4, <2>5 DEF QueueOnly, QueueStep
<1>4. CASE WriteBatch
  <2>1. Inv'
    BY <1>1, <1>4 DEF WriteBatch
  <2> QED
    BY <1>4, <2>1, WriteStep
<1>5. CASE CountBatch
  <2>1. Inv'
    BY <1>1, <1>5 DEF CountBatch, QueueNext
  <2> QED
    BY <1>5, <2>1, CountStep
<1>6. CASE WriteFails \/ Get \/ Backup \/ BackupFails
  <2>1. Finish /\ UNCHANGED <<db, written, totalBatches, totalStored, opened>>
    BY <1>6 DEF WriteFails, Get, Backup, BackupFails
  <2>2. Inv'
    BY <1>1, <2>1 DEF QueueNext
  <2>3. ~written
    BY <1>6 DEF StoreInv, AtWork, Processing, WriteFails, Get, Backup, BackupFails
  <2>4. /\ failed' = failed \/ Fail
        /\ failed' = failed => current.type # "BATCH" \/ Fail
    BY <1>6 DEF Processing, WriteFails, Get, Backup, BackupFails
  <2>5. backups' \in [Path -> Seq(Batch)]
    BY <1>6 DEF StoreInv, StorageTypes, WriteFails, Get, Backup, BackupFails
  <2> QED
    BY <2>1, <2>2, <2>3, <2>4, <2>5, FinishStep
<1>7. CASE Reopen
  <2>1. Inv'
    BY <1>0, <1>7 DEF Reopen, QueueInit
  <2> QED
    BY <1>7, <2>1, ReopenStep
<1>8. CASE UNCHANGED vars
  <2>1. UNCHANGED storageVars /\ UNCHANGED queueVars
    BY <1>8 DEF vars
  <2>2. Inv' /\ taken' = taken /\ pc' = pc /\ current' = current
    BY <1>1, <2>1 DEF queueVars
  <2> QED
    BY <2>1, <2>2, QuietStep
<1> QED
  BY <1>2, <1>3, <1>4, <1>5, <1>6, <1>7, <1>8 DEF Next, Process

LEMMA StoreAlways == SafeSpec => []StoreInv
  BY InitStore, NextStore, PTL DEF SafeSpec
-----------------------------------------------------------------------------
\* Every variable of the store keeps its type, through kills and restarts.
THEOREM StorageTypeCorrect == SafeSpec => []StorageTypes
<1>1. StoreInv => StorageTypes
  BY DEF StoreInv
<1> QED
  BY <1>1, StoreAlways, PTL

\* RocksDB holds the batches taken whose write succeeded, once each and in
\* their order, and the statistics are those of what it holds.
THEOREM StoreFollowsQueue == SafeSpec => []StorageFollowsQueue
<1>1. StoreInv => StorageFollowsQueue
  BY DEF StoreInv, StorageFollowsQueue
<1> QED
  BY <1>1, StoreAlways, PTL

\* Where a batch of the queue is found in the database.
LEMMA WrittenIsStored ==
  ASSUME StoreInv, NEW i \in Written
  PROVE  taken[i].batch \in Range(db)
<1> DEFINE k == Cardinality({j \in Written : j <= i})
           n == Len(taken)
<1>1. n \in Nat /\ Written \in SUBSET (1..n)
  BY DEF StoreInv, Inv, QueueTypeOK, Written
<1> HIDE DEF n
<1>2. Len(SessionWrites) = Cardinality(Written) /\ SessionWrites[k] = taken[i].batch
  BY DEF StoreInv, DbFollowsQueue
<1>3. k \in 1..Len(SessionWrites)
  BY <1>1, <1>2, RankInRange
<1>4. db \in Seq(Batch) /\ opened \in Nat /\ opened <= Len(db) /\ Len(db) \in Nat
  BY DEF StoreInv, StorageTypes
<1> HIDE DEF k
<1>5. k \in 1..(Len(db) - opened) /\ SessionWrites[k] = db[opened + k]
  BY <1>3, <1>4, EndOfSeq DEF SessionWrites
<1>6. opened + k \in DOMAIN db
  BY <1>4, <1>5
<1> QED
  BY <1>2, <1>5, <1>6 DEF Range

\* A task that was taken was enqueued no later than where it was taken from.
LEMMA FirstIsNoLater ==
  ASSUME Inv, NEW n \in 1..Len(taken)
  PROVE  FirstAt(taken[n]) \in 1..n
<1> DEFINE T == {k \in DOMAIN submitted : submitted[k] = taken[n]}
<1>1. /\ submitted \in Seq(Task) /\ taken \in Seq(Task) /\ tasks \in Seq(Task)
      /\ Len(submitted) = Len(taken) + Len(tasks) /\ submitted[n] = taken[n]
  BY DEF Inv, QueueTypeOK, Split
<1>2. DOMAIN submitted = 1..Len(submitted) /\ n \in 1..Len(submitted)
  BY <1>1
<1>3. PICK m \in T : \A k \in T : m <= k
  <2>1. T \in SUBSET Nat /\ n \in T
    BY <1>1, <1>2
  <2> QED
    BY <2>1, Least
<1>4. /\ m \in DOMAIN submitted /\ submitted[m] = taken[n]
      /\ \A j \in 1..(m - 1) : submitted[j] # taken[n]
  BY <1>2, <1>3
<1>5. PICK f : f = FirstAt(taken[n])
  OBVIOUS
<1>6. /\ f \in DOMAIN submitted /\ submitted[f] = taken[n]
      /\ \A j \in 1..(f - 1) : submitted[j] # taken[n]
  BY <1>4, <1>5 DEF FirstAt
<1>7. f <= n
  BY <1>1, <1>2, <1>6
<1> QED
  BY <1>2, <1>5, <1>6, <1>7

\* A backup holds every batch enqueued before the first request for its directory
\* whose write did not fail: the worker is first in, first out, and it takes the
\* backup only when what came before is written.
THEOREM BackupsAreComplete == SafeSpec => BackupHoldsEarlierBatches
<1>1. ASSUME StoreInv, [Next]_vars, NEW p \in Path, backups'[p] # backups[p],
             NEW j \in 1..(FirstAt(current) - 1),
             submitted[j].type = "BATCH", j \notin failed
      PROVE  submitted[j].batch \in Range(backups'[p])
  <2>1. Backup
    BY <1>1 DEF Next, Process, vars, storageVars, Request, QueueOnly, WriteBatch,
                WriteFails, CountBatch, Get, BackupFails, Reopen
  <2>2. backups'[p] = db
    BY <1>1, <2>1 DEF Backup, StoreInv, StorageTypes
  <2>3. PICK n : n = Len(taken)
    OBVIOUS
  <2>4. /\ pc = "process" /\ current.type = "BACKUP" /\ n \in 1..n
        /\ current = taken[n] /\ Inv
        /\ taken \in Seq(Task)
    BY <1>1, <2>1, <2>3 DEF Backup, Processing, StoreInv, AtWork, Inv, QueueTypeOK
  <2>5. FirstAt(current) \in 1..n
    BY <2>3, <2>4, FirstIsNoLater
  <2>6. j \in 1..n /\ j # n
    BY <2>4, <2>5
  <2>7. submitted[j] = taken[j]
    BY <2>3, <2>4, <2>6 DEF Inv, Split
  <2>8. j \in Written
    BY <1>1, <2>3, <2>4, <2>6, <2>7 DEF Written, IsWritten
  <2> QED
    BY <1>1, <2>2, <2>7, <2>8, WrittenIsStored
<1>2. StoreInv /\ [Next]_vars =>
        [\A p \in Path :
           backups'[p] # backups[p] =>
             \A j \in 1..(FirstAt(current) - 1) :
               submitted[j].type = "BATCH" /\ j \notin failed
                 => submitted[j].batch \in Range(backups'[p])]_vars
  BY <1>1
<1> QED
  BY <1>2, StoreAlways, PTL DEF SafeSpec, BackupHoldsEarlierBatches
=============================================================================
