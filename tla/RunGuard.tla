------------------------------ MODULE RunGuard ------------------------------
(***************************************************************************)
(* Utils/RunGuard.cpp as Main.cpp uses it: a process of the wallet runs    *)
(* only if it creates a shared memory segment; a system semaphore guards   *)
(* every look at the segment.  Processes start, are refused, run, quit and *)
(* are killed, in any order and at any step.                               *)
(*                                                                         *)
(* QSharedMemory and QSystemSemaphore are modelled from their use.  Under  *)
(* Unix a killed process leaves the segment behind with nobody attached    *)
(* and the kernel gives its semaphore back; under Windows the segment goes *)
(* with its last handle, and a semaphore that was held stays taken as long *)
(* as any process has it open.                                             *)
(***************************************************************************)
EXTENDS Naturals

CONSTANTS
  Proc,       \* the processes that may be started
  Nobody,     \* the semaphore is free
  Lost,       \* the semaphore's holder was killed and its count is gone
  MaxStarts   \* bound on the number of starts of one process

ASSUME GuardAssumption ==
  /\ Nobody \notin Proc
  /\ Lost \notin Proc \cup {Nobody}
  /\ MaxStarts \in Nat

VARIABLES
  unix,      \* the processes run under Unix, or under Windows; it never changes
  pc,        \* where each process is in main()
  holder,    \* who has acquired memLock_
  exists,    \* the shared memory segment exists
  attached,  \* the processes attached to it
  starts,    \* how often each process was started
  sawOwner   \* history: since its start, somebody else held the guard

vars == <<unix, pc, holder, exists, attached, starts, sawOwner>>

\* "ctor", "check", "try": the three critical sections of a start; "bail":
\* release() after create failed; "leave": ~RunGuard of the owner; "refused":
\* ~RunGuard of a process that was turned away.
PC == {"off", "ctor", "check", "try", "bail", "running", "leave", "refused"}

TypeOK ==
  /\ unix \in BOOLEAN
  /\ pc \in [Proc -> PC]
  /\ holder \in Proc \cup {Nobody, Lost}
  /\ holder \in Proc => pc[holder] \notin {"off", "running"}
  /\ exists \in BOOLEAN
  /\ attached \subseteq Proc
  /\ starts \in [Proc -> 0..MaxStarts]
  /\ sawOwner \in [Proc -> BOOLEAN]

Init ==
  /\ unix \in BOOLEAN
  /\ pc = [p \in Proc |-> "off"]
  /\ holder = Nobody
  /\ exists = FALSE
  /\ attached = {}
  /\ starts = [p \in Proc |-> 0]
  /\ sawOwner = [p \in Proc |-> FALSE]
-----------------------------------------------------------------------------
\* The processes that hold the guard: tryToRun has returned true and
\* ~RunGuard has not released it yet.
Owners(where) == {p \in Proc : where[p] \in {"running", "leave"}}

\* Process p goes to place to; everybody remembers whether there is an owner.
Go(p, to) ==
  /\ pc' = [pc EXCEPT ![p] = to]
  /\ sawOwner' = [q \in Proc |->
                    \/ Owners(pc') \ {q} # {}
                    \/ sawOwner[q] /\ ~(q = p /\ pc[p] = "off")]
  /\ UNCHANGED unix

Alive == {p \in Proc : pc[p] # "off"}

\* memLock_.acquire(), at the entry of each critical section.
Acquire(p) ==
  /\ pc[p] \in {"ctor", "check", "try", "bail", "leave", "refused"}
  /\ holder = Nobody
  /\ holder' = p
  /\ UNCHANGED <<unix, pc, exists, attached, starts, sawOwner>>

\* memLock_.release() with p detached: a detach that leaves nobody attached
\* removes the segment.
DetachAndRelease(p) ==
  /\ holder' = Nobody
  /\ attached' = attached \ {p}
  /\ exists' = IF p \in attached THEN attached' # {} ELSE exists

\* attach(), by the constructor's local fix or by isRunning.
Attach(p) ==
  /\ holder = p
  /\ pc[p] \in {"ctor", "check"}
  /\ exists
  /\ p \notin attached
  /\ attached' = attached \cup {p}
  /\ UNCHANGED <<unix, pc, holder, exists, starts, sawOwner>>
-----------------------------------------------------------------------------
\* main() constructs the guard.
Start(p) ==
  /\ pc[p] = "off"
  /\ starts[p] < MaxStarts
  /\ starts' = [starts EXCEPT ![p] = @ + 1]
  /\ Go(p, "ctor")
  /\ UNCHANGED <<holder, exists, attached>>

\* A mutant of Fix: the block-scoped fix is a member and stays attached.
FixStaysAttached(p) ==
  /\ holder = p
  /\ pc[p] = "ctor"
  /\ exists => p \in attached
  /\ holder' = Nobody
  /\ Go(p, "check")
  /\ UNCHANGED <<exists, attached, starts>>

\* The constructor: fix attaches if it can, and detaches when it goes.
Fix(p) ==
  /\ holder = p
  /\ pc[p] = "ctor"
  /\ exists => p \in attached
  /\ DetachAndRelease(p)
  /\ Go(p, "check")
  /\ UNCHANGED starts

\* isRunning(): attached to the segment means that somebody has created it.
\* (Its first test is false here: sharedMem_ has not been attached before.)
IsRunning(p) ==
  /\ holder = p
  /\ pc[p] = "check"
  /\ exists => p \in attached
  /\ DetachAndRelease(p)
  /\ Go(p, IF p \in attached THEN "refused" ELSE "try")
  /\ UNCHANGED starts

\* Mutants of Create: the result is not looked at; the semaphore is kept.
CreateUnchecked(p) ==
  /\ holder = p
  /\ pc[p] = "try"
  /\ holder' = Nobody
  /\ exists' = TRUE
  /\ attached' = attached \cup {p}
  /\ Go(p, "running")
  /\ UNCHANGED starts

CreateKeepsSemaphore(p) ==
  /\ holder = p
  /\ pc[p] = "try"
  /\ exists' = TRUE
  /\ attached' = IF exists THEN attached ELSE attached \cup {p}
  /\ Go(p, IF exists THEN "bail" ELSE "running")
  /\ UNCHANGED <<holder, starts>>

\* tryToRun(): create() fails if the segment exists by now.
Create(p) ==
  /\ holder = p
  /\ pc[p] = "try"
  /\ holder' = Nobody
  /\ exists' = TRUE
  /\ attached' = IF exists THEN attached ELSE attached \cup {p}
  /\ Go(p, IF exists THEN "bail" ELSE "running")
  /\ UNCHANGED starts

\* a.exec() returns something other than EXIT_CODE_REBOOT; a reboot goes
\* round main()'s loop with the guard held.
Quit(p) ==
  /\ pc[p] = "running"
  /\ Go(p, "leave")
  /\ UNCHANGED <<holder, exists, attached, starts>>

\* release(): called by tryToRun after a failed create and by ~RunGuard.
Release(p) ==
  /\ holder = p
  /\ pc[p] \in {"bail", "leave", "refused"}
  /\ DetachAndRelease(p)
  /\ Go(p, IF pc[p] = "bail" THEN "refused" ELSE "off")
  /\ UNCHANGED starts

\* The process is killed.
Kill(p) ==
  /\ pc[p] # "off"
  /\ Go(p, "off")
  /\ attached' = attached \ {p}
  /\ exists' = IF unix THEN exists ELSE attached' # {}
  /\ holder' = IF unix THEN IF holder = p THEN Nobody ELSE holder
               ELSE IF Alive = {p} THEN Nobody
               ELSE IF holder = p THEN Lost ELSE holder
  /\ UNCHANGED starts
-----------------------------------------------------------------------------
Step(p) ==
  Acquire(p) \/ Attach(p) \/ Fix(p) \/ IsRunning(p) \/ Create(p) \/ Release(p)

Next == \E p \in Proc : Start(p) \/ Step(p) \/ Quit(p) \/ Kill(p)

SafeSpec == Init /\ [][Next]_vars

\* A started process keeps running its own code; starting, quitting and
\* being killed are up to the user and the system.
Spec == SafeSpec /\ \A p \in Proc : WF_vars(Step(p))
-----------------------------------------------------------------------------
\* Properties.

\* Two wallets never run side by side, whatever the interleaving of starts,
\* exits and kills: isRunning and create are separate critical sections.
OneInstance == \A p, q \in Owners(pc) : p = q

\* A process is turned away only if, at some time since its own start, another
\* process held the guard: what a killed instance leaves behind does not keep
\* the next one out, for the constructor's fix removes it.
RefusedBesideOwner ==
  \A p \in Proc : pc[p] \in {"bail", "refused"} => sawOwner[p]

\* Under Unix no start hangs on the semaphore: it ends in running, in a refusal
\* that leaves main(), or in being killed.  Under Windows the semaphore of a
\* process that was killed with it stays taken while another has it open.
StartIsDecided ==
  unix => \A p \in Proc : (pc[p] = "ctor") ~> (pc[p] \in {"running", "off"})
=============================================================================
