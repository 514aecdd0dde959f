--------------------------- MODULE RunGuardProofs ---------------------------
(***************************************************************************)
(* One instance at a time, and no refusal without an owner, for any number *)
(* of processes and starts and under both systems' rules.                  *)
(***************************************************************************)
EXTENDS RunGuard, TLAPS

USE GuardAssumption

\* Whoever is attached is an owner, or is the semaphore's holder looking; an
\* owner is always attached; and an attached segment exists.
Attachment ==
  /\ \A p \in attached : \/ p \in Owners(pc)
                         \/ holder = p /\ pc[p] \in {"ctor", "check"}
  /\ \A p \in Owners(pc) : p \in attached
  /\ attached # {} => exists

\* Past its constructor, a process that could find the segment has seen an
\* owner since its start.
Witnessed ==
  \A p \in Proc :
    /\ pc[p] \in {"check", "try"} => (exists => sawOwner[p])
    /\ pc[p] \in {"bail", "refused"} => sawOwner[p]

Inv ==
  /\ TypeOK
  /\ Attachment
  /\ OneInstance
  /\ Witnessed
-----------------------------------------------------------------------------
LEMMA InitInv == Init => Inv
<1> SUFFICES ASSUME Init
             PROVE  Inv
  OBVIOUS
<1> USE DEF Init
<1>1. TypeOK
  <2>1. pc \in [Proc -> PC] /\ sawOwner \in [Proc -> BOOLEAN]
    BY DEF PC
  <2>2. starts \in [Proc -> 0..MaxStarts]
    BY GuardAssumption
  <2>3. holder \in Proc \cup {Nobody, Lost} /\ exists \in BOOLEAN
          /\ attached \subseteq Proc
    OBVIOUS
  <2> QED
    BY <2>1, <2>2, <2>3 DEF TypeOK
<1>2. Owners(pc) = {}
  BY DEF Owners
<1>3. Attachment /\ OneInstance
  BY <1>2 DEF Attachment, OneInstance
<1>4. Witnessed
  BY DEF Witnessed
<1> QED
  BY <1>1, <1>3, <1>4 DEF Inv

\* What remembering an owner amounts to.
LEMMA GoFacts ==
  ASSUME TypeOK, NEW p \in Proc, NEW to \in PC, Go(p, to)
  PROVE  /\ unix' = unix
         /\ pc' = [pc EXCEPT ![p] = to]
         /\ pc' \in [Proc -> PC]
         /\ sawOwner' \in [Proc -> BOOLEAN]
         /\ \A q \in Proc : (\E r \in Owners(pc') : r # q) => sawOwner'[q]
         /\ \A q \in Proc \ {p} : sawOwner[q] => sawOwner'[q]
         /\ pc[p] # "off" => (sawOwner[p] => sawOwner'[p])
<1>1. unix' = unix /\ pc' = [pc EXCEPT ![p] = to] /\ pc' \in [Proc -> PC]
  BY DEF Go, TypeOK
<1>2. sawOwner' = [q \in Proc |->
                     \/ Owners(pc') \ {q} # {}
                     \/ sawOwner[q] /\ ~(q = p /\ pc[p] = "off")]
  BY DEF Go
<1>3. ASSUME NEW q \in Proc
      PROVE  sawOwner'[q] = (\/ Owners(pc') \ {q} # {}
                             \/ sawOwner[q] /\ ~(q = p /\ pc[p] = "off"))
  BY <1>2
<1>4. sawOwner' \in [Proc -> BOOLEAN]
  BY <1>2
<1> QED
  BY <1>1, <1>3, <1>4

LEMMA NextInv == Inv /\ [Next]_vars => Inv'
<1> SUFFICES ASSUME Inv, [Next]_vars
             PROVE  Inv'
  OBVIOUS
<1> USE DEF Inv, TypeOK, PC
<1>1. ASSUME NEW p \in Proc, Start(p)
      PROVE  Inv'
  <2>1. Go(p, "ctor")
    BY <1>1 DEF Start
  <2>2. /\ pc[p] = "off"
        /\ UNCHANGED <<holder, exists, attached>>
        /\ starts' \in [Proc -> 0..MaxStarts]
    BY <1>1 DEF Start
  <2>3. Owners(pc') = Owners(pc)
    BY <2>1, <2>2, GoFacts DEF Owners
  <2> QED
    BY <2>1, <2>2, <2>3, GoFacts DEF Attachment, OneInstance, Witnessed, Owners
<1>2. ASSUME NEW p \in Proc, Acquire(p)
      PROVE  Inv'
  BY <1>2 DEF Acquire, Attachment, OneInstance, Witnessed, Owners
<1>3. ASSUME NEW p \in Proc, Attach(p)
      PROVE  Inv'
  BY <1>3 DEF Attach, Attachment, OneInstance, Witnessed, Owners
<1>4. ASSUME NEW p \in Proc, Fix(p)
      PROVE  Inv'
  <2>1. Go(p, "check") /\ DetachAndRelease(p) /\ starts' = starts
          /\ pc[p] = "ctor" /\ holder = p /\ (exists => p \in attached)
    BY <1>4 DEF Fix
  <2>2. Owners(pc') = Owners(pc) /\ p \notin Owners(pc)
    BY <2>1, GoFacts DEF Owners
  <2>3. \A q \in attached' : q \in Owners(pc') /\ q # p
    BY <2>1, <2>2 DEF DetachAndRelease, Attachment
  <2>4. Attachment' /\ OneInstance' /\ TypeOK'
    BY <2>1, <2>2, <2>3, GoFacts
       DEF DetachAndRelease, Attachment, OneInstance, Owners
  <2>5. exists' => sawOwner'[p]
    <3>1. exists' => attached' # {}
      BY <2>1 DEF DetachAndRelease
    <3> QED
      BY <2>1, <2>3, <3>1, GoFacts
  <2>6. exists' => exists
    BY <2>1, <2>3 DEF DetachAndRelease, Attachment
  <2>7. Witnessed'
    BY <2>1, <2>5, <2>6, GoFacts DEF Witnessed
  <2> QED
    BY <2>4, <2>7
<1>5. ASSUME NEW p \in Proc, IsRunning(p)
      PROVE  Inv'
  <2> DEFINE to == IF p \in attached THEN "refused" ELSE "try"
  <2>1. Go(p, to) /\ DetachAndRelease(p) /\ starts' = starts
          /\ pc[p] = "check" /\ holder = p /\ (exists => p \in attached)
    BY <1>5 DEF IsRunning
  <2>2. to \in PC /\ to \notin {"running", "leave", "off", "bail"}
    OBVIOUS
  <2> HIDE DEF to
  <2>3. Owners(pc') = Owners(pc) /\ p \notin Owners(pc)
    BY <2>1, <2>2, GoFacts DEF Owners
  <2>4. \A q \in attached' : q \in Owners(pc') /\ q # p
    BY <2>1, <2>3 DEF DetachAndRelease, Attachment
  <2>5. Attachment' /\ OneInstance' /\ TypeOK'
    <3>1. TypeOK'
      BY <2>1, <2>2, GoFacts DEF DetachAndRelease
    <3>2. \A q \in Owners(pc') : q \in attached'
      BY <2>1, <2>3 DEF DetachAndRelease, Attachment
    <3>3. attached' # {} => exists'
      BY <2>1 DEF DetachAndRelease, Attachment
    <3> QED
      BY <2>3, <2>4, <3>1, <3>2, <3>3 DEF Attachment, OneInstance
  <2>6. exists' => exists
    BY <2>1, <2>4 DEF DetachAndRelease, Attachment
  <2>7. to = "refused" => sawOwner[p]
    BY <2>1 DEF to, Attachment, Witnessed
  <2>8. Witnessed'
    BY <2>1, <2>2, <2>6, <2>7, GoFacts DEF Witnessed
  <2> QED
    BY <2>5, <2>8
<1>6. ASSUME NEW p \in Proc, Create(p)
      PROVE  Inv'
  <2>1. holder = p /\ pc[p] = "try" /\ holder' = Nobody /\ exists' = TRUE
          /\ starts' = starts
    BY <1>6 DEF Create
  <2>2. CASE exists
    <3>1. Go(p, "bail") /\ attached' = attached
      BY <1>6, <2>2 DEF Create
    <3>2. Owners(pc') = Owners(pc) /\ p \notin Owners(pc)
      BY <2>1, <3>1, GoFacts DEF Owners
    <3>3. Attachment' /\ OneInstance' /\ TypeOK'
      BY <2>1, <3>1, <3>2, GoFacts DEF Attachment, OneInstance, Owners
    <3>4. Witnessed'
      BY <2>1, <2>2, <3>1, GoFacts DEF Witnessed
    <3> QED
      BY <3>3, <3>4
  <2>3. CASE ~exists
    <3>1. Go(p, "running") /\ attached' = attached \cup {p}
      BY <1>6, <2>3 DEF Create
    <3>2. attached = {} /\ Owners(pc) = {}
      BY <2>3 DEF Attachment
    <3>3. Owners(pc') = {p}
      BY <3>1, <3>2, GoFacts DEF Owners
    <3>4. Attachment' /\ OneInstance' /\ TypeOK'
      BY <2>1, <3>1, <3>2, <3>3, GoFacts DEF Attachment, OneInstance
    <3>5. \A q \in Proc \ {p} : sawOwner'[q]
      BY <3>1, <3>3, GoFacts
    <3>6. pc'[p] = "running"
      BY <3>1, GoFacts
    <3>7. Witnessed'
      BY <3>5, <3>6 DEF Witnessed
    <3> QED
      BY <3>4, <3>7
  <2> QED
    BY <2>2, <2>3
<1>7. ASSUME NEW p \in Proc, Release(p)
      PROVE  Inv'
  <2> DEFINE to == IF pc[p] = "bail" THEN "refused" ELSE "off"
  <2>1. Go(p, to) /\ DetachAndRelease(p) /\ starts' = starts
          /\ pc[p] \in {"bail", "leave", "refused"} /\ holder = p
    BY <1>7 DEF Release
  <2>2. to \in {"refused", "off"} /\ (to = "refused" => pc[p] = "bail")
    OBVIOUS
  <2> HIDE DEF to
  <2>3. Owners(pc') = Owners(pc) \ {p}
    BY <2>1, <2>2, GoFacts DEF Owners
  <2>4. \A q \in attached' : q \in Owners(pc') /\ q # p
    BY <2>1, <2>3 DEF DetachAndRelease, Attachment
  <2>5. Attachment' /\ OneInstance' /\ TypeOK'
    <3>1. TypeOK'
      BY <2>1, <2>2, GoFacts DEF DetachAndRelease
    <3>2. \A q \in Owners(pc') : q \in attached'
      BY <2>1, <2>3 DEF DetachAndRelease, Attachment
    <3>3. attached' # {} => exists'
      BY <2>1 DEF DetachAndRelease, Attachment
    <3> QED
      BY <2>3, <2>4, <3>1, <3>2, <3>3 DEF Attachment, OneInstance
  <2>6. exists' => exists
    BY <2>1 DEF DetachAndRelease, Attachment
  <2>7. Witnessed'
    BY <2>1, <2>2, <2>6, GoFacts DEF Witnessed
  <2> QED
    BY <2>5, <2>7
<1>8. ASSUME NEW p \in Proc, Quit(p)
      PROVE  Inv'
  <2>1. Go(p, "leave") /\ pc[p] = "running"
          /\ UNCHANGED <<holder, exists, attached, starts>>
    BY <1>8 DEF Quit
  <2>2. Owners(pc') = Owners(pc)
    BY <2>1, GoFacts DEF Owners
  <2> QED
    BY <2>1, <2>2, GoFacts DEF Attachment, OneInstance, Witnessed, Owners
<1>9. ASSUME NEW p \in Proc, Kill(p)
      PROVE  Inv'
  <2>1. Go(p, "off") /\ attached' = attached \ {p} /\ starts' = starts
          /\ exists' = (IF unix THEN exists ELSE attached' # {})
    BY <1>9 DEF Kill
  <2>2. /\ holder' \in Proc \cup {Nobody, Lost}
        /\ \A q \in Proc \ {p} : holder = q => holder' = q \/ Alive = {p}
    BY <1>9 DEF Kill
  <2>3. Owners(pc') = Owners(pc) \ {p}
    BY <2>1, GoFacts DEF Owners
  <2>4. exists' => exists
    BY <2>1 DEF Attachment
  <2>5. Attachment'
    BY <2>1, <2>2, <2>3, GoFacts DEF Attachment, Alive
  <2>6. OneInstance' /\ TypeOK'
    <3>1. holder' \in Proc => holder' = holder /\ holder' # p
      BY <1>9 DEF Kill
    <3>2. holder' \in Proc => pc'[holder'] \notin {"off", "running"}
      BY <2>1, <3>1, GoFacts
    <3>3. OneInstance'
      BY <2>3 DEF OneInstance
    <3> QED
      BY <2>1, <2>2, <3>2, <3>3, GoFacts
  <2>7. Witnessed'
    BY <2>1, <2>4, GoFacts DEF Witnessed
  <2> QED
    BY <2>5, <2>6, <2>7
<1>10. CASE UNCHANGED vars
  BY <1>10 DEF vars, Attachment, OneInstance, Witnessed, Owners
<1> QED
  BY <1>1, <1>2, <1>3, <1>4, <1>5, <1>6, <1>7, <1>8, <1>9, <1>10
     DEF Next, Step

LEMMA SafeSpecInv == SafeSpec => []Inv
  BY InitInv, NextInv, PTL DEF SafeSpec
-----------------------------------------------------------------------------
\* Every variable keeps its type.
THEOREM TypeCorrect == SafeSpec => []TypeOK
<1>1. Inv => TypeOK
  BY DEF Inv
<1> QED
  BY <1>1, SafeSpecInv, PTL

\* tryToRun never lets two processes run side by side.
THEOREM OneInstanceAlways == SafeSpec => []OneInstance
<1>1. Inv => OneInstance
  BY DEF Inv
<1> QED
  BY <1>1, SafeSpecInv, PTL

\* A process is turned away only if somebody held the guard since its start.
THEOREM RefusedOnlyBesideOwner == SafeSpec => []RefusedBesideOwner
<1>1. Inv => RefusedBesideOwner
  BY DEF Inv, Witnessed, RefusedBesideOwner
<1> QED
  BY <1>1, SafeSpecInv, PTL
=============================================================================
