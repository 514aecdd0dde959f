----------------------------- MODULE TaskQueue -----------------------------
(***************************************************************************)
(* What a background worker of the Solana monitor promises its callers:    *)
(* tasks are taken one at a time, in the order in which they were          *)
(* submitted, none twice and none skipped; once the queue is closed the    *)
(* worker ends, with whatever it has not taken by then left untouched.     *)
(* TaskWorker is shown to implement this module.                           *)
(***************************************************************************)
EXTENDS Naturals, Sequences

CONSTANT Task

VARIABLES
  submitted,  \* every task handed to the queue, oldest first
  taken,      \* the tasks the worker has taken, oldest first
  open,       \* FALSE once the owner has begun to stop the worker
  ended       \* TRUE once the worker's thread function has returned

vars == <<submitted, taken, open, ended>>

Init ==
  /\ submitted = <<>>
  /\ taken = <<>>
  /\ open = TRUE
  /\ ended = FALSE

Submit(t) ==
  /\ open
  /\ submitted' = Append(submitted, t)
  /\ UNCHANGED <<taken, open, ended>>

Take ==
  /\ ~ended
  /\ Len(taken) < Len(submitted)
  /\ taken' = Append(taken, submitted[Len(taken) + 1])
  /\ UNCHANGED <<submitted, open, ended>>

Close ==
  /\ open
  /\ open' = FALSE
  /\ UNCHANGED <<submitted, taken, ended>>

End ==
  /\ ~open
  /\ ~ended
  /\ ended' = TRUE
  /\ UNCHANGED <<submitted, taken, open>>

Next ==
  \/ \E t \in Task : Submit(t)
  \/ Take
  \/ Close
  \/ End

SafeSpec == Init /\ [][Next]_vars

\* A submitted task is taken unless the worker ends first, and a closed
\* queue's worker does end.
Spec == SafeSpec /\ WF_vars(Take) /\ WF_vars(End)
=============================================================================
