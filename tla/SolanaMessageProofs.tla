------------------------ MODULE SolanaMessageProofs ------------------------
(***************************************************************************)
(* What TransactionBuilder::build() yields for any instructions, any       *)
(* number of accounts and any width of a byte: which accounts are in the   *)
(* list and in what order, which roles the header gives them, what the     *)
(* numbers in the compiled instructions stand for, and what is read from   *)
(* the bytes of it all.                                                    *)
(***************************************************************************)
EXTENDS SolanaMessage, FiniteSetTheorems, SequenceTheorems,
        WellFoundedInduction, TLAPS

-----------------------------------------------------------------------------
\* Induction.

\* Every set of numbers has a least one.  With this, induction needs no
\* operator for its hypothesis: a set holds the numbers it is true of.
LEMMA Least ==
  ASSUME NEW T \in SUBSET Nat, T # {}
  PROVE  \E m \in T : \A n \in T : m <= n
<1> DEFINE R == OpToRel(<, Nat)
<1>1. IsWellFoundedOn(R, Nat)
  BY NatLessThanWellFounded
<1>2. \A x, y \in Nat : <<y, x>> \in R <=> y < x
  BY DEF OpToRel
<1> HIDE DEF R
<1>3. PICK m \in T : \A n \in T : ~ (<<n, m>> \in R)
  BY <1>1, WFMin
<1>4. ASSUME NEW n \in T
      PROVE  m <= n
  <2>1. m \in Nat /\ n \in Nat
    OBVIOUS
  <2>2. ~ (n < m)
    BY <1>2, <1>3, <2>1
  <2> QED
    BY ONLY <2>1, <2>2
<1> QED
  BY ONLY <1>4, m \in T

\* Induction over the natural numbers.
LEMMA Induction ==
  ASSUME NEW T \in SUBSET Nat, 0 \in T, \A n \in T : n + 1 \in T
  PROVE  T = Nat
<1> SUFFICES ASSUME Nat \ T # {}
             PROVE  FALSE
  OBVIOUS
<1>1. PICK m \in Nat \ T : \A n \in Nat \ T : m <= n
  BY Least
<1>2. m - 1 \in T
  BY <1>1
<1> QED
  BY <1>1, <1>2
-----------------------------------------------------------------------------
\* The metas that build() goes through.

\* f solves the recursion by which FlattenSeq is defined.
IsJoined(f, seqs, n) ==
  f = [i \in 1..n |-> IF i = 1 THEN seqs[i] ELSE f[i - 1] \o seqs[i]]

\* The recursion has a solution.
LEMMA JoinedExists ==
  ASSUME NEW seqs, NEW n \in Nat
  PROVE  \E f : IsJoined(f, seqs, n)
<1> DEFINE Ok == {m \in Nat : \E f : IsJoined(f, seqs, m)}
<1>1. 0 \in Ok
  <2> DEFINE f == [i \in 1..0 |-> seqs[i]]
  <2>1. IsJoined(f, seqs, 0)
    BY DEF IsJoined
  <2> QED
    BY <2>1
<1>2. ASSUME NEW m \in Ok
      PROVE  m + 1 \in Ok
  <2>1. PICK f : IsJoined(f, seqs, m)
    OBVIOUS
  <2> DEFINE h == [i \in 1..(m + 1) |->
                     IF i = m + 1
                     THEN IF i = 1 THEN seqs[i] ELSE f[i - 1] \o seqs[i]
                     ELSE f[i]]
  <2>2. ASSUME NEW i \in 1..(m + 1)
        PROVE  h[i] = IF i = 1 THEN seqs[i] ELSE h[i - 1] \o seqs[i]
    <3>1. CASE i = m + 1
      <4>1. i = 1 \/ i - 1 \in 1..m
        BY <3>1
      <4>2. i - 1 \in 1..m => h[i - 1] = f[i - 1]
        BY <3>1
      <4> QED
        BY <3>1, <4>1, <4>2
    <3>2. CASE i \in 1..m
      <4>1. i # m + 1 /\ (i = 1 \/ i - 1 \in 1..m)
        BY <3>2
      <4>2. h[i] = f[i] /\ (i - 1 \in 1..m => h[i - 1] = f[i - 1])
        BY <3>2, <4>1
      <4>3. f[i] = IF i = 1 THEN seqs[i] ELSE f[i - 1] \o seqs[i]
        BY <2>1, <3>2 DEF IsJoined
      <4> QED
        BY <4>1, <4>2, <4>3
    <3> QED
      BY <3>1, <3>2
  <2>3. IsJoined(h, seqs, m + 1)
    <3>1. h = [i \in 1..(m + 1) |-> h[i]]
      OBVIOUS
    <3> HIDE DEF h
    <3> QED
      BY <2>2, <3>1 DEF IsJoined
  <2> QED
    BY <2>3
<1> HIDE DEF Ok
<1>3. Ok = Nat
  BY <1>1, <1>2, Induction DEF Ok
<1> QED
  BY <1>3 DEF Ok

\* Flattening joins one sequence after the other: f[i] is the first i of them.
LEMMA FlattenSteps ==
  ASSUME NEW T, NEW seqs \in Seq(Seq(T)), Len(seqs) # 0
  PROVE  \E f : /\ f[1] = seqs[1]
                /\ \A i \in 2..Len(seqs) : f[i] = f[i - 1] \o seqs[i]
                /\ FlattenSeq(seqs) = f[Len(seqs)]
<1> DEFINE n == Len(seqs)
           f == CHOOSE f : IsJoined(f, seqs, n)
<1>1. n \in Nat /\ n # 0
  OBVIOUS
<1>2. IsJoined(f, seqs, n)
  BY <1>1, JoinedExists
<1>3. FlattenSeq(seqs) = f[n]
  BY <1>1 DEF FlattenSeq, IsJoined
<1> HIDE DEF f
<1>4. \A i \in 1..n : f[i] = IF i = 1 THEN seqs[i] ELSE f[i - 1] \o seqs[i]
  BY <1>2 DEF IsJoined
<1> HIDE DEF n
<1>5. f[1] = seqs[1]
  BY <1>1, <1>4
<1>6. ASSUME NEW i \in 2..n
      PROVE  f[i] = f[i - 1] \o seqs[i]
  <2>1. i \in 1..n /\ i # 1
    BY <1>1
  <2> QED
    BY <1>4, <2>1
<1> QED
  BY <1>3, <1>5, <1>6 DEF n

\* What is in a concatenation.
LEMMA ToSetOfConcat ==
  ASSUME NEW T, NEW s \in Seq(T), NEW t \in Seq(T)
  PROVE  s \o t \in Seq(T) /\ ToSet(s \o t) = ToSet(s) \cup ToSet(t)
<1>1. s \o t \in Seq(T) /\ Len(s \o t) = Len(s) + Len(t)
  OBVIOUS
<1>2. ASSUME NEW x \in ToSet(s \o t)
      PROVE  x \in ToSet(s) \cup ToSet(t)
  <2>1. PICK i \in 1..(Len(s) + Len(t)) : x = (s \o t)[i]
    BY <1>1 DEF ToSet
  <2>2. CASE i <= Len(s)
    BY <2>1, <2>2 DEF ToSet
  <2>3. CASE i > Len(s)
    <3>1. i - Len(s) \in 1..Len(t) /\ x = t[i - Len(s)]
      BY <2>1, <2>3
    <3> QED
      BY <3>1 DEF ToSet
  <2> QED
    BY <2>1, <2>2, <2>3
<1>3. ASSUME NEW x \in ToSet(s)
      PROVE  x \in ToSet(s \o t)
  <2>1. PICK i \in 1..Len(s) : x = s[i]
    BY DEF ToSet
  <2>2. i \in 1..(Len(s) + Len(t)) /\ (s \o t)[i] = x
    BY <2>1
  <2> QED
    BY <1>1, <2>2 DEF ToSet
<1>4. ASSUME NEW x \in ToSet(t)
      PROVE  x \in ToSet(s \o t)
  <2>1. PICK i \in 1..Len(t) : x = t[i]
    BY DEF ToSet
  <2>2. i + Len(s) \in 1..(Len(s) + Len(t)) /\ (s \o t)[i + Len(s)] = x
    BY <2>1
  <2> QED
    BY <1>1, <2>2 DEF ToSet
<1> QED
  BY <1>1, <1>2, <1>3, <1>4

\* Flattening keeps what is in the sequences and adds nothing.
LEMMA FlattenFacts ==
  ASSUME NEW T, NEW seqs \in Seq(Seq(T))
  PROVE  /\ FlattenSeq(seqs) \in Seq(T)
         /\ ToSet(FlattenSeq(seqs)) = UNION {ToSet(seqs[i]) : i \in DOMAIN seqs}
<1>1. CASE Len(seqs) = 0
  <2>1. seqs = <<>> /\ FlattenSeq(seqs) = <<>> /\ <<>> \in Seq(T)
    BY <1>1 DEF FlattenSeq
  <2>2. DOMAIN FlattenSeq(seqs) = {} /\ DOMAIN seqs = {}
    BY <2>1
  <2>3. FlattenSeq(seqs) \in Seq(T)
    BY <2>1
  <2> QED
    BY <2>2, <2>3 DEF ToSet
<1>2. CASE Len(seqs) # 0
  <2> DEFINE n == Len(seqs)
             Up(i) == UNION {ToSet(seqs[j]) : j \in 1..i}
  <2>1. n \in Nat \ {0} /\ DOMAIN seqs = 1..n /\ \A i \in 1..n : seqs[i] \in Seq(T)
    BY <1>2
  <2>2. PICK f : /\ f[1] = seqs[1]
                 /\ \A i \in 2..n : f[i] = f[i - 1] \o seqs[i]
                 /\ FlattenSeq(seqs) = f[n]
    BY <1>2, FlattenSteps
  <2> HIDE DEF n
  <2> DEFINE Ok == {m \in Nat : m + 1 \in 1..n =>
                      f[m + 1] \in Seq(T) /\ ToSet(f[m + 1]) = Up(m + 1)}
  <2>3. 0 \in Ok
    <3>1. 1 \in 1..n /\ 1..1 = {1}
      BY <2>1
    <3>2. Up(1) = ToSet(seqs[1])
      BY <3>1
    <3> QED
      BY <2>1, <2>2, <3>1, <3>2
  <2>4. ASSUME NEW m \in Ok
        PROVE  m + 1 \in Ok
    <3>1. m \in Nat /\ (m + 1) + 1 = m + 2 /\ m + 2 # 1
      OBVIOUS
    <3> SUFFICES ASSUME m + 2 \in 1..n
                 PROVE  f[m + 2] \in Seq(T) /\ ToSet(f[m + 2]) = Up(m + 2)
      BY <3>1
    <3>2. m + 1 \in 1..n /\ m + 2 \in 2..n /\ (m + 2) - 1 = m + 1
      BY <2>1, <3>1
    <3>3. f[m + 1] \in Seq(T) /\ ToSet(f[m + 1]) = Up(m + 1)
      BY <3>2
    <3>4. f[m + 2] = f[m + 1] \o seqs[m + 2]
      BY <2>2, <3>2
    <3>5. f[m + 2] \in Seq(T) /\ ToSet(f[m + 2]) = Up(m + 1) \cup ToSet(seqs[m + 2])
      BY <2>1, <3>3, <3>4, ToSetOfConcat
    <3>6. 1..(m + 2) = 1..(m + 1) \cup {m + 2}
      BY <3>1
    <3>7. Up(m + 2) = Up(m + 1) \cup ToSet(seqs[m + 2])
      BY ONLY <3>6
    <3> QED
      BY <3>5, <3>7
  <2> HIDE DEF Ok
  <2>5. Ok = Nat
    BY <2>3, <2>4, Induction DEF Ok
  <2>6. f[n] \in Seq(T) /\ ToSet(f[n]) = Up(n)
    <3>1. n - 1 \in Ok /\ (n - 1) + 1 = n /\ n \in 1..n
      BY <2>1, <2>5
    <3> QED
      BY <3>1 DEF Ok
  <2> QED
    BY <2>1, <2>2, <2>6
<1> QED
  BY <1>1, <1>2
-----------------------------------------------------------------------------
\* The map of accounts.

\* g solves the recursion by which FoldLeft(Merge, base, metas) is defined, on
\* the subsets of D.
IsMerged(g, base, metas, D) ==
  g = [t \in SUBSET D |->
         IF t = {} THEN base ELSE Merge(g[t \ {Max(t)}], metas[Max(t)])]

\* What the recursion takes away first of a set with n + 1.
LEMMA MaxOfInterval ==
  ASSUME NEW n \in Nat, NEW t \in SUBSET (1..(n + 1)), n + 1 \in t
  PROVE  Max(t) = n + 1 /\ t \ {Max(t)} \in SUBSET (1..n)
<1>1. Max(t) = n + 1
  <2>1. \A y \in t : n + 1 >= y
    OBVIOUS
  <2>2. ASSUME NEW x \in t, \A y \in t : x >= y
        PROVE  x = n + 1
    BY <2>2
  <2> QED
    BY <2>1, <2>2 DEF Max
<1> QED
  BY <1>1

\* The recursion has a solution.
LEMMA MergedExists ==
  ASSUME NEW base, NEW metas, NEW l \in Nat
  PROVE  \E g : IsMerged(g, base, metas, 1..l)
<1> DEFINE Ok == {n \in Nat : \E g : IsMerged(g, base, metas, 1..n)}
<1>1. 0 \in Ok
  <2> DEFINE g == [t \in SUBSET (1..0) |-> base]
  <2>1. \A t \in SUBSET (1..0) : t = {}
    OBVIOUS
  <2>2. IsMerged(g, base, metas, 1..0)
    BY <2>1 DEF IsMerged
  <2> QED
    BY <2>2
<1>2. ASSUME NEW n \in Ok
      PROVE  n + 1 \in Ok
  <2>1. PICK g : IsMerged(g, base, metas, 1..n)
    OBVIOUS
  <2> DEFINE h == [t \in SUBSET (1..(n + 1)) |->
                     IF n + 1 \in t THEN Merge(g[t \ {n + 1}], metas[n + 1]) ELSE g[t]]
  <2>2. ASSUME NEW t \in SUBSET (1..(n + 1))
        PROVE  h[t] = IF t = {} THEN base ELSE Merge(h[t \ {Max(t)}], metas[Max(t)])
    <3>1. CASE n + 1 \in t
      <4>1. Max(t) = n + 1 /\ t \ {Max(t)} \in SUBSET (1..n)
        BY <3>1, MaxOfInterval
      <4>2. h[t \ {Max(t)}] = g[t \ {Max(t)}]
        BY <4>1
      <4> QED
        BY <3>1, <4>1, <4>2
    <3>2. CASE n + 1 \notin t
      <4>1. t \in SUBSET (1..n)
        BY <3>2
      <4>2. g[t] = IF t = {} THEN base ELSE Merge(g[t \ {Max(t)}], metas[Max(t)])
        BY <2>1, <4>1 DEF IsMerged
      <4>3. h[t \ {Max(t)}] = g[t \ {Max(t)}] /\ h[t] = g[t]
        BY <3>2, <4>1
      <4> QED
        BY <4>2, <4>3
    <3> QED
      BY <3>1, <3>2
  <2>3. IsMerged(h, base, metas, 1..(n + 1))
    <3>1. h = [t \in SUBSET (1..(n + 1)) |-> h[t]]
      OBVIOUS
    <3> HIDE DEF h
    <3> QED
      BY <2>2, <3>1 DEF IsMerged
  <2> QED
    BY <2>3
<1> HIDE DEF Ok
<1>3. Ok = Nat
  BY <1>1, <1>2, Induction DEF Ok
<1> QED
  BY <1>3 DEF Ok

Merged(base, metas) == FoldLeft(Merge, base, metas)

\* The metas are merged from the first on.
LEMMA MergeSteps ==
  ASSUME NEW T, NEW base, NEW metas \in Seq(T)
  PROVE  \E g : /\ g[1..0] = base
                /\ \A j \in 0..(Len(metas) - 1) :
                     g[1..(j + 1)] = Merge(g[1..j], metas[j + 1])
                /\ Merged(base, metas) = g[1..Len(metas)]
<1> DEFINE g == CHOOSE g : IsMerged(g, base, metas, 1..Len(metas))
<1>1. IsMerged(g, base, metas, 1..Len(metas))
  <2>1. Len(metas) \in Nat
    OBVIOUS
  <2> QED
    BY <2>1, MergedExists
<1>2. Merged(base, metas) = g[1..Len(metas)]
  <2>1. DOMAIN metas = 1..Len(metas)
    OBVIOUS
  <2> QED
    BY <2>1 DEF Merged, FoldLeft, MapThenFoldSet, IsMerged
<1> HIDE DEF g
<1>3. \A t \in SUBSET (1..Len(metas)) :
        g[t] = IF t = {} THEN base ELSE Merge(g[t \ {Max(t)}], metas[Max(t)])
  BY <1>1 DEF IsMerged
<1>4. g[1..0] = base
  <2>1. 1..0 = {} /\ {} \in SUBSET (1..Len(metas))
    OBVIOUS
  <2> QED
    BY <1>3, <2>1
<1>5. ASSUME NEW j \in 0..(Len(metas) - 1)
      PROVE  g[1..(j + 1)] = Merge(g[1..j], metas[j + 1])
  <2>1. j \in Nat /\ j + 1 \in 1..(j + 1) /\ 1..(j + 1) \in SUBSET (1..Len(metas))
    OBVIOUS
  <2>2. Max(1..(j + 1)) = j + 1
    BY <2>1, MaxOfInterval
  <2>3. (1..(j + 1)) \ {j + 1} = 1..j
    BY <2>1
  <2>4. 1..(j + 1) # {}
    BY <2>1
  <2> QED
    BY <1>3, <2>1, <2>2, <2>3, <2>4
<1> QED
  BY <1>2, <1>4, <1>5

\* The map for p, who pays, and the metas ms: their keys, each with every role
\* that one of them asks for.
HasRoles(map, p, ms) ==
  /\ map \in [{p} \cup {m.key : m \in ms} -> AccountMeta]
  /\ \A k \in DOMAIN map :
       /\ map[k].signer <=> k = p \/ \E m \in ms : m.key = k /\ m.signer
       /\ map[k].writable <=> k = p \/ \E m \in ms : m.key = k /\ m.writable

LEMMA MetaFields ==
  ASSUME NEW k, NEW s, NEW w
  PROVE  /\ Meta(k, s, w).key = k
         /\ Meta(k, s, w).signer = s
         /\ Meta(k, s, w).writable = w
BY DEF Meta

LEMMA MergeKeepsRoles ==
  ASSUME NEW p \in Key, NEW ms \in SUBSET AccountMeta, NEW map,
         HasRoles(map, p, ms), NEW meta \in AccountMeta
  PROVE  HasRoles(Merge(map, meta), p, ms \cup {meta})
<1> DEFINE next == Merge(map, meta)
           D == {p} \cup {m.key : m \in ms}
           after == ms \cup {meta}
<1>1. /\ map \in [D -> AccountMeta] /\ DOMAIN map = D
      /\ \A k \in D :
           /\ map[k].signer <=> k = p \/ \E m \in ms : m.key = k /\ m.signer
           /\ map[k].writable <=> k = p \/ \E m \in ms : m.key = k /\ m.writable
  BY DEF HasRoles
<1>2. D \cup {meta.key} = {p} \cup {m.key : m \in after}
  OBVIOUS
<1>3. ASSUME NEW k \in D \cup {meta.key}
      PROVE  /\ next[k] \in AccountMeta
             /\ next[k].signer <=> k = p \/ \E m \in after : m.key = k /\ m.signer
             /\ next[k].writable <=> k = p \/ \E m \in after : m.key = k /\ m.writable
  <2>1. CASE k # meta.key
    <3>1. k \in D /\ next[k] = map[k]
      BY <1>1, <2>1 DEF Merge
    <3> QED
      BY <1>1, <2>1, <3>1
  <2>2. CASE k = meta.key /\ k \notin D
    <3>1. next[k] = meta
      BY <1>1, <2>2 DEF Merge
    <3>2. k # p /\ \A m \in ms : m.key # k
      BY <2>2
    <3> QED
      BY <2>2, <3>1, <3>2
  <2>3. CASE k = meta.key /\ k \in D
    <3>1. map[k] \in AccountMeta
      BY <1>1, <2>3
    <3> DEFINE s == map[k].signer \/ meta.signer
               w == map[k].writable \/ meta.writable
    <3>2. next[k] = Meta(k, s, w)
      BY <1>1, <2>3 DEF Merge
    <3> HIDE DEF next, s, w
    <3>3. next[k].signer = s /\ next[k].writable = w
      BY <3>2, MetaFields
    <3>4. next[k] \in AccountMeta
      <4>1. s \in BOOLEAN /\ w \in BOOLEAN
        BY <3>1 DEF s, w, AccountMeta
      <4> QED
        BY <2>3, <3>2, <4>1 DEF Meta, AccountMeta
    <3>5. map[k].signer <=> k = p \/ \E m \in ms : m.key = k /\ m.signer
      BY <1>1, <2>3
    <3>6. map[k].writable <=> k = p \/ \E m \in ms : m.key = k /\ m.writable
      BY <1>1, <2>3
    <3>7. next[k].signer <=> k = p \/ \E m \in after : m.key = k /\ m.signer
      BY <2>3, <3>3, <3>5 DEF s
    <3>8. next[k].writable <=> k = p \/ \E m \in after : m.key = k /\ m.writable
      BY <2>3, <3>3, <3>6 DEF w
    <3> QED
      BY <3>4, <3>7, <3>8
  <2> QED
    BY <2>1, <2>2, <2>3
<1>4. next \in [D \cup {meta.key} -> AccountMeta]
  <2>1. next = [k \in D \cup {meta.key} |-> next[k]]
    BY <1>1 DEF Merge
  <2> HIDE DEF next, D
  <2> QED
    BY <1>3, <2>1
<1>5. DOMAIN next = D \cup {meta.key}
  BY <1>4
<1> QED
  BY <1>2, <1>3, <1>4, <1>5 DEF HasRoles

\* The map that a payer and a sequence of metas lead to.
LEMMA FoldHasRoles ==
  ASSUME NEW p \in Key, NEW metas \in Seq(AccountMeta)
  PROVE  HasRoles(Merged([k \in {p} |-> Meta(p, TRUE, TRUE)], metas), p, ToSet(metas))
<1> DEFINE base == [k \in {p} |-> Meta(p, TRUE, TRUE)]
           Up(j) == {metas[i] : i \in 1..j}
           l == Len(metas)
<1>1. l \in Nat /\ DOMAIN metas = 1..l /\ \A i \in 1..l : metas[i] \in AccountMeta
  OBVIOUS
<1>2. PICK g : /\ g[1..0] = base
               /\ \A j \in 0..(l - 1) : g[1..(j + 1)] = Merge(g[1..j], metas[j + 1])
               /\ Merged(base, metas) = g[1..l]
  <2> HIDE DEF base
  <2> QED
    BY MergeSteps
<1> DEFINE Ok == {j \in Nat : j <= l => HasRoles(g[1..j], p, Up(j))}
<1> HIDE DEF l
<1>3. 0 \in Ok
  <2>1. Up(0) = {}
    OBVIOUS
  <2>2. base[p] = Meta(p, TRUE, TRUE) /\ Meta(p, TRUE, TRUE) \in AccountMeta
    BY DEF Meta, AccountMeta
  <2>3. base[p].signer = TRUE /\ base[p].writable = TRUE
    BY <2>2 DEF Meta
  <2>4. base \in [{p} -> AccountMeta]
    BY <2>2
  <2>5. HasRoles(base, p, {})
    BY <2>3, <2>4 DEF HasRoles
  <2> QED
    BY <1>2, <2>1, <2>5
<1>4. ASSUME NEW j \in Ok
      PROVE  j + 1 \in Ok
  <2> SUFFICES ASSUME j + 1 <= l
               PROVE  HasRoles(g[1..(j + 1)], p, Up(j + 1))
    OBVIOUS
  <2>1. j \in Nat /\ j <= l /\ j \in 0..(l - 1) /\ j + 1 \in 1..l
    BY <1>1
  <2>2. HasRoles(g[1..j], p, Up(j)) /\ Up(j) \in SUBSET AccountMeta
    BY <1>1, <2>1
  <2>3. g[1..(j + 1)] = Merge(g[1..j], metas[j + 1]) /\ metas[j + 1] \in AccountMeta
    BY <1>1, <1>2, <2>1
  <2>4. 1..(j + 1) = 1..j \cup {j + 1}
    BY <2>1
  <2>5. Up(j + 1) = Up(j) \cup {metas[j + 1]}
    BY ONLY <2>4
  <2> HIDE DEF Up
  <2> QED
    BY <2>2, <2>3, <2>5, MergeKeepsRoles
<1> HIDE DEF Ok
<1>5. Ok = Nat
  BY <1>3, <1>4, Induction DEF Ok
<1>6. HasRoles(g[1..l], p, Up(l))
  <2>1. l \in Ok /\ l <= l
    BY <1>1, <1>5
  <2> QED
    BY <2>1 DEF Ok
<1>7. Up(l) = ToSet(metas)
  BY <1>1 DEF ToSet
<1> QED
  BY <1>2, <1>6, <1>7
LEMMA MetasOfFacts ==
  ASSUME NEW x \in Instruction
  PROVE  /\ MetasOf(x) \in Seq(AccountMeta)
         /\ ToSet(MetasOf(x)) = {Meta(x.program, FALSE, FALSE)} \cup ToSet(x.accounts)
<1>1. x.program \in Key /\ x.accounts \in Seq(AccountMeta)
  BY MessageAssumption
<1>2. Meta(x.program, FALSE, FALSE) \in AccountMeta
  BY <1>1 DEF Meta, AccountMeta
<1> DEFINE m == Meta(x.program, FALSE, FALSE)
           head == <<m>>
<1>3. head \in Seq(AccountMeta) /\ ToSet(head) = {m}
  <2> HIDE DEF m
  <2>1. m \in AccountMeta
    BY <1>2 DEF m
  <2>2. head \in Seq(AccountMeta) /\ DOMAIN head = {1} /\ head[1] = m
    BY <2>1
  <2> QED
    BY <2>2 DEF ToSet
<1>4. MetasOf(x) = head \o x.accounts
  BY DEF MetasOf
<1> HIDE DEF m, head
<1>5. /\ MetasOf(x) \in Seq(AccountMeta)
      /\ ToSet(MetasOf(x)) = {m} \cup ToSet(x.accounts)
  BY <1>1, <1>3, <1>4, ToSetOfConcat
<1> QED
  BY <1>5 DEF m

\* What a sequence of instructions asks for.
AllMetas(xs) == UNION {ToSet(MetasOf(xs[i])) : i \in DOMAIN xs}

\* build() merges the roles that the instructions ask for.
LEMMA MapHasRoles ==
  ASSUME NEW p \in Key, NEW xs \in Seq(Instruction)
  PROVE  HasRoles(AccountMap(p, xs), p, AllMetas(xs))
<1> DEFINE seqs == [i \in DOMAIN xs |-> MetasOf(xs[i])]
<1>1. seqs \in Seq(Seq(AccountMeta))
  <2>1. DOMAIN xs = 1..Len(xs) /\ Len(xs) \in Nat /\ \A i \in DOMAIN xs : xs[i] \in Instruction
    OBVIOUS
  <2>2. \A i \in DOMAIN xs : MetasOf(xs[i]) \in Seq(AccountMeta)
    BY <2>1, MetasOfFacts
  <2> QED
    BY <2>1, <2>2
<1>2. DOMAIN seqs = DOMAIN xs /\ \A i \in DOMAIN xs : seqs[i] = MetasOf(xs[i])
  OBVIOUS
<1>3. AccountMap(p, xs) = Merged([k \in {p} |-> Meta(p, TRUE, TRUE)], FlattenSeq(seqs))
  BY DEF AccountMap, Merged, Metas
<1> HIDE DEF seqs
<1>4. /\ FlattenSeq(seqs) \in Seq(AccountMeta)
      /\ ToSet(FlattenSeq(seqs)) = UNION {ToSet(seqs[i]) : i \in DOMAIN seqs}
  BY <1>1, FlattenFacts
<1>5. ToSet(FlattenSeq(seqs)) = AllMetas(xs)
  BY <1>2, <1>4 DEF AllMetas
<1> QED
  BY <1>3, <1>4, <1>5, FoldHasRoles
-----------------------------------------------------------------------------
\* Sorting.

LEMMA BelowFacts ==
  ASSUME NEW S \in SUBSET Nat, IsFiniteSet(S), NEW k \in S
  PROVE  /\ IsFiniteSet(Below(S, k)) /\ Cardinality(Below(S, k)) \in Nat
         /\ Cardinality(Below(S, k)) < Cardinality(S)
<1>1. Below(S, k) \subseteq S /\ k \notin Below(S, k)
  BY DEF Below
<1>2. /\ IsFiniteSet(Below(S, k)) /\ Cardinality(Below(S, k)) <= Cardinality(S)
      /\ Cardinality(Below(S, k)) = Cardinality(S) => Below(S, k) = S
  BY <1>1, FS_Subset
<1>3. Cardinality(Below(S, k)) \in Nat /\ Cardinality(S) \in Nat
  BY <1>2, FS_CardinalityType
<1> QED
  BY <1>1, <1>2, <1>3

\* A lesser number has fewer below it.
LEMMA BelowIsMonotone ==
  ASSUME NEW S \in SUBSET Nat, IsFiniteSet(S), NEW k \in S, NEW l \in S, k < l
  PROVE  Cardinality(Below(S, k)) < Cardinality(Below(S, l))
<1> DEFINE B == Below(S, l)
<1>1. B \in SUBSET Nat /\ IsFiniteSet(B) /\ k \in B
  BY BelowFacts DEF Below
<1>2. Below(B, k) = Below(S, k)
  <2>1. k \in Nat /\ l \in Nat /\ \A x \in S : x \in Nat /\ (x < k => x < l)
    OBVIOUS
  <2> QED
    BY <2>1 DEF Below
<1> HIDE DEF B
<1>3. Cardinality(Below(B, k)) < Cardinality(B)
  BY <1>1, BelowFacts
<1> QED
  BY <1>2, <1>3 DEF B

\* There is a number at each position.
LEMMA PositionsAreTaken ==
  ASSUME NEW n \in Nat
  PROVE  \A S \in SUBSET Nat :
           IsFiniteSet(S) /\ Cardinality(S) = n =>
             \A i \in 1..n : \E k \in S : Cardinality(Below(S, k)) = i - 1
<1> DEFINE Ok == {m \in Nat : \A S \in SUBSET Nat :
             IsFiniteSet(S) /\ Cardinality(S) = m =>
               \A i \in 1..m : \E k \in S : Cardinality(Below(S, k)) = i - 1}
<1>1. 0 \in Ok
  OBVIOUS
<1>2. ASSUME NEW m \in Ok
      PROVE  m + 1 \in Ok
  <2> SUFFICES ASSUME NEW S \in SUBSET Nat, IsFiniteSet(S), Cardinality(S) = m + 1,
                      NEW i \in 1..(m + 1)
               PROVE  \E k \in S : Cardinality(Below(S, k)) = i - 1
    OBVIOUS
  <2>1. m \in Nat
    OBVIOUS
  <2>2. S # {}
    BY <2>1, FS_EmptySet
  <2>3. PICK least \in S : \A l \in S : least <= l
    BY <2>2, Least
  <2> DEFINE R == S \ {least}
  <2>4. IsFiniteSet(R) /\ Cardinality(R) = m /\ R \in SUBSET Nat
    BY <2>1, FS_RemoveElement
  <2>5. CASE i = 1
    <3>1. \A l \in S : ~ (l < least)
      BY <2>3
    <3>2. Below(S, least) = {}
      BY <3>1 DEF Below
    <3> QED
      BY <2>5, <3>2, FS_EmptySet
  <2>6. CASE i # 1
    <3>1. i - 1 \in 1..m
      BY <2>1, <2>6
    <3>2. PICK k \in R : Cardinality(Below(R, k)) = (i - 1) - 1
      BY <2>4, <3>1
    <3>3. Below(S, k) = Below(R, k) \cup {least} /\ least \notin Below(R, k)
      <4>1. least < k
        BY <2>3, <3>2
      <4> QED
        BY <4>1 DEF Below
    <3>4. IsFiniteSet(Below(R, k))
      BY <2>4, <3>2, BelowFacts
    <3>5. Cardinality(Below(S, k)) = Cardinality(Below(R, k)) + 1
      <4> DEFINE B == Below(R, k)
      <4> HIDE DEF B
      <4>1. Cardinality(B \cup {least}) = Cardinality(B) + 1
        BY <3>3, <3>4, FS_AddElement DEF B
      <4> QED
        BY <3>3, <4>1 DEF B
    <3>6. k \in S /\ Cardinality(Below(S, k)) = i - 1
      BY <2>1, <3>1, <3>2, <3>5
    <3> QED
      BY <3>6
  <2> QED
    BY <2>5, <2>6
<1> HIDE DEF Ok
<1>3. Ok = Nat
  BY <1>1, <1>2, Induction DEF Ok
<1>4. n \in Ok
  BY <1>3
<1> QED
  BY <1>4 DEF Ok

\* Sorted(S) has every number of S once, in ascending order, and behind as many
\* as are less.
LEMMA SortedFacts ==
  ASSUME NEW S \in SUBSET Nat, IsFiniteSet(S)
  PROVE  /\ Cardinality(S) \in Nat
         /\ Sorted(S) \in Seq(S) /\ Len(Sorted(S)) = Cardinality(S)
         /\ \A i \in 1..Cardinality(S) :
              Sorted(S)[i] \in S /\ Cardinality(Below(S, Sorted(S)[i])) = i - 1
         /\ \A i, j \in 1..Cardinality(S) : i < j <=> Sorted(S)[i] < Sorted(S)[j]
         /\ ToSet(Sorted(S)) = S
<1> DEFINE n == Cardinality(S)
           s == Sorted(S)
<1>1. n \in Nat
  BY FS_CardinalityType
<1>2. s = [i \in 1..n |-> CHOOSE k \in S : Cardinality(Below(S, k)) = i - 1]
  BY DEF Sorted
<1> HIDE DEF n, s
<1>3. \A i \in 1..n : \E k \in S : Cardinality(Below(S, k)) = i - 1
  BY <1>1, PositionsAreTaken DEF n
<1>4. \A i \in 1..n : s[i] \in S /\ Cardinality(Below(S, s[i])) = i - 1
  BY <1>2, <1>3
<1>5. s \in Seq(S) /\ Len(s) = n /\ DOMAIN s = 1..n
  BY <1>1, <1>2, <1>4
<1>6. ASSUME NEW i \in 1..n, NEW j \in 1..n, s[i] < s[j]
      PROVE  i < j
  <2>1. Cardinality(Below(S, s[i])) < Cardinality(Below(S, s[j]))
    BY <1>4, <1>6, BelowIsMonotone
  <2> QED
    BY <1>4, <2>1
<1>7. ASSUME NEW i \in 1..n, NEW j \in 1..n, i < j
      PROVE  s[i] < s[j]
  <2>1. s[i] \in Nat /\ s[j] \in Nat
    BY <1>4
  <2>2. s[i] # s[j]
    BY <1>4, <1>7
  <2>3. ~ (s[j] < s[i])
    BY <1>6, <1>7
  <2> QED
    BY <2>1, <2>2, <2>3
<1>8. ASSUME NEW k \in S
      PROVE  k \in ToSet(s)
  <2> DEFINE i == Cardinality(Below(S, k)) + 1
  <2>1. i \in 1..n /\ Cardinality(Below(S, k)) = i - 1
    BY <1>1, BelowFacts DEF n
  <2> HIDE DEF i
  <2>2. s[i] \in S /\ Cardinality(Below(S, s[i])) = i - 1
    BY <1>4, <2>1
  <2>3. s[i] \in Nat /\ k \in Nat /\ i - 1 \in Nat
    <3>1. s[i] \in Nat
      BY <2>2
    <3>2. k \in Nat
      OBVIOUS
    <3>3. i - 1 \in Nat
      BY <1>1, <2>1
    <3> QED
      BY <3>1, <3>2, <3>3
  <2>4. ~ (s[i] < k)
    <3> SUFFICES ASSUME s[i] < k
                 PROVE  FALSE
      OBVIOUS
    <3>1. Cardinality(Below(S, s[i])) < Cardinality(Below(S, k))
      BY <2>2, BelowIsMonotone
    <3> QED
      BY <2>1, <2>2, <2>3, <3>1
  <2>5. ~ (k < s[i])
    <3> SUFFICES ASSUME k < s[i]
                 PROVE  FALSE
      OBVIOUS
    <3>1. Cardinality(Below(S, k)) < Cardinality(Below(S, s[i]))
      BY <2>2, BelowIsMonotone
    <3> QED
      BY <2>1, <2>2, <2>3, <3>1
  <2>6. s[i] = k
    BY <2>3, <2>4, <2>5
  <2> QED
    BY <1>5, <2>1, <2>6 DEF ToSet
<1>9. ToSet(s) \subseteq S
  BY <1>4, <1>5 DEF ToSet
<1> QED
  BY <1>1, <1>4, <1>5, <1>6, <1>7, <1>8, <1>9 DEF n, s

\* In a sorted list the numbers of W fill the first positions if and only if
\* they are less than the others.
LEMMA FirstPositions ==
  ASSUME NEW S \in SUBSET Nat, IsFiniteSet(S), NEW W \in SUBSET S
  PROVE  (\A i \in 1..Cardinality(S) : i <= Cardinality(W) <=> Sorted(S)[i] \in W)
           <=> (\A k \in S \ W, l \in W : k > l)
<1> DEFINE n == Cardinality(S)
           w == Cardinality(W)
           s == Sorted(S)
<1>1. /\ n \in Nat /\ s \in Seq(S) /\ Len(s) = n /\ ToSet(s) = S
      /\ \A i \in 1..n : s[i] \in S /\ Cardinality(Below(S, s[i])) = i - 1
      /\ \A i, j \in 1..n : i < j <=> s[i] < s[j]
  BY SortedFacts
<1>2. IsFiniteSet(W) /\ w \in Nat /\ w <= n
  BY FS_Subset, FS_CardinalityType
<1> HIDE DEF n, w, s
<1>3. ASSUME \A i \in 1..n : i <= w <=> s[i] \in W,
             NEW k \in S \ W, NEW l \in W
      PROVE  k > l
  <2>1. PICK i \in 1..n : s[i] = k
    BY <1>1 DEF ToSet
  <2>2. PICK j \in 1..n : s[j] = l
    BY <1>1 DEF ToSet
  <2>3. ~ (i <= w) /\ j <= w
    BY <1>3, <2>1, <2>2
  <2>4. j < i
    BY <1>1, <1>2, <2>3
  <2>5. s[j] < s[i] /\ k \in Nat /\ l \in Nat
    BY <1>1, <2>4
  <2> QED
    BY <2>1, <2>2, <2>5
<1>4. ASSUME \A k \in S \ W, l \in W : k > l,
             NEW i \in 1..n
      PROVE  i <= w <=> s[i] \in W
  <2> DEFINE k == s[i]
             B == Below(S, k)
  <2>1. k \in S /\ k \in Nat /\ Cardinality(B) = i - 1 /\ IsFiniteSet(B)
    BY <1>1, BelowFacts
  <2> HIDE DEF k
  <2>2. CASE k \in W
    <3>1. B \subseteq W \ {k}
      <4>1. ASSUME NEW l \in B
            PROVE  l \in W \ {k}
        <5>1. l \in S /\ l \in Nat /\ l < k
          BY DEF Below
        <5>2. l \in S \ W => l > k
          BY <1>4, <2>2
        <5> QED
          BY <2>1, <5>1, <5>2
      <4> QED
        BY <4>1
    <3>2. IsFiniteSet(W \ {k}) /\ Cardinality(W \ {k}) = w - 1
      BY <1>2, <2>2, FS_RemoveElement DEF w
    <3> HIDE DEF B
    <3>3. Cardinality(B) <= Cardinality(W \ {k})
      BY <3>1, <3>2, FS_Subset
    <3>4. i <= w
      BY <1>1, <1>2, <2>1, <3>2, <3>3
    <3> QED
      BY <2>2, <3>4 DEF k
  <2>3. CASE k \notin W
    <3>1. W \subseteq B
      <4>1. ASSUME NEW l \in W
            PROVE  l \in B
        <5>1. k > l /\ l \in S /\ l \in Nat
          BY <1>4, <2>1, <2>3
        <5> QED
          BY <2>1, <5>1 DEF Below
      <4> QED
        BY <4>1
    <3> HIDE DEF B
    <3>2. w <= Cardinality(B)
      BY <2>1, <3>1, FS_Subset DEF w
    <3>3. ~ (i <= w)
      BY <1>1, <1>2, <2>1, <3>2
    <3> QED
      BY <2>3, <3>3 DEF k
  <2> QED
    BY <2>2, <2>3
<1> QED
  BY <1>3, <1>4 DEF n, w, s
-----------------------------------------------------------------------------
\* The builder.

\* The builder and the last message it built have their types.
THEOREM BuilderTypes == Spec => []BuilderTypeOK
<1>1. Init => BuilderTypeOK
  <2>1. <<>> \in Seq(Instruction)
    OBVIOUS
  <2> QED
    BY <2>1 DEF Init, BuilderTypeOK
<1>2. BuilderTypeOK /\ [Next]_vars => BuilderTypeOK'
  <2> SUFFICES ASSUME BuilderTypeOK, [Next]_vars
               PROVE  BuilderTypeOK'
    OBVIOUS
  <2> USE DEF BuilderTypeOK
  <2>1. ASSUME NEW x \in Instruction, AddInstruction(x)
        PROVE  BuilderTypeOK'
    BY <2>1 DEF AddInstruction
  <2>2. ASSUME NEW k \in Wallet, SetPayer(k)
        PROVE  BuilderTypeOK'
    BY <2>2 DEF SetPayer
  <2>3. ASSUME NEW k \in Wallet, BuildWith(k)
        PROVE  BuilderTypeOK'
    BY <2>3 DEF BuildWith
  <2>4. CASE SetRecentBlockhash
    BY <2>4 DEF SetRecentBlockhash
  <2>5. CASE UNCHANGED vars
    BY <2>5 DEF vars
  <2> QED
    BY <2>1, <2>2, <2>3, <2>4, <2>5 DEF Next
<1> QED
  BY <1>1, <1>2, PTL DEF Spec

Map == AccountMap(built.payer, Asked)
Signers == {k \in DOMAIN Map : AskedToSign(k)}
Others == {k \in DOMAIN Map : ~AskedToSign(k)}

\* The program of an instruction adds a key and no role.
LEMMA AllMetasFacts ==
  ASSUME NEW xs \in Seq(Instruction)
  PROVE  /\ AllMetas(xs) \in SUBSET AccountMeta
         /\ \A m \in AllMetas(xs) :
              \/ \E i \in DOMAIN xs : m = Meta(xs[i].program, FALSE, FALSE)
              \/ m \in UNION {ToSet(xs[i].accounts) : i \in DOMAIN xs}
         /\ UNION {ToSet(xs[i].accounts) : i \in DOMAIN xs} \subseteq AllMetas(xs)
         /\ \A i \in DOMAIN xs : Meta(xs[i].program, FALSE, FALSE) \in AllMetas(xs)
<1>1. \A i \in DOMAIN xs : xs[i] \in Instruction
  OBVIOUS
<1>2. \A i \in DOMAIN xs :
        /\ ToSet(MetasOf(xs[i]))
             = {Meta(xs[i].program, FALSE, FALSE)} \cup ToSet(xs[i].accounts)
        /\ MetasOf(xs[i]) \in Seq(AccountMeta)
  BY <1>1, MetasOfFacts
<1>3. \A s \in Seq(AccountMeta) : ToSet(s) \subseteq AccountMeta
  BY DEF ToSet
<1>4. AllMetas(xs) \in SUBSET AccountMeta
  BY <1>2, <1>3 DEF AllMetas
<1> QED
  BY <1>2, <1>4 DEF AllMetas

LEMMA Roles ==
  ASSUME BuilderTypeOK, HasBuilt
  PROVE  /\ built.payer \in Wallet /\ built.payer \in DOMAIN Map
         /\ AskedToSign(built.payer) /\ AskedToWrite(built.payer)
         /\ DOMAIN Map \in SUBSET Nat /\ IsFiniteSet(DOMAIN Map)
         /\ \A k \in DOMAIN Map :
              /\ Map[k].signer = AskedToSign(k)
              /\ Map[k].writable = AskedToWrite(k)
         /\ \A i \in DOMAIN Asked :
              /\ Asked[i].program \in DOMAIN Map
              /\ \A a \in DOMAIN Asked[i].accounts :
                   Asked[i].accounts[a].key \in DOMAIN Map
         /\ \A k \in DOMAIN Map :
              \/ k = built.payer
              \/ \E i \in DOMAIN Asked :
                   \/ k = Asked[i].program
                   \/ \E a \in DOMAIN Asked[i].accounts : k = Asked[i].accounts[a].key
<1> DEFINE p == built.payer
           ms == AllMetas(Asked)
           us == UNION {ToSet(Asked[i].accounts) : i \in DOMAIN Asked}
<1>1. p \in Wallet /\ Asked \in Seq(Instruction)
  BY DEF BuilderTypeOK, HasBuilt, Asked
<1>2. p \in Key
  BY <1>1, MessageAssumption
<1>3. HasRoles(Map, p, ms)
  BY <1>1, <1>2, MapHasRoles DEF Map
<1>4. /\ ms \in SUBSET AccountMeta /\ us \subseteq ms
      /\ \A m \in ms : (\E i \in DOMAIN Asked : m = Meta(Asked[i].program, FALSE, FALSE))
                         \/ m \in us
      /\ \A i \in DOMAIN Asked : Meta(Asked[i].program, FALSE, FALSE) \in ms
  BY <1>1, AllMetasFacts
<1>5. MetasAsked = {Meta(p, TRUE, TRUE)} \cup us
  BY DEF MetasAsked
<1>6. /\ DOMAIN Map = {p} \cup {m.key : m \in ms}
      /\ Map \in [DOMAIN Map -> AccountMeta]
      /\ \A k \in DOMAIN Map :
           /\ Map[k].signer <=> k = p \/ \E m \in ms : m.key = k /\ m.signer
           /\ Map[k].writable <=> k = p \/ \E m \in ms : m.key = k /\ m.writable
  BY <1>3 DEF HasRoles
<1> HIDE DEF p, ms
<1>7. \A m \in us : \E i \in DOMAIN Asked : m \in ToSet(Asked[i].accounts)
  OBVIOUS
<1>8. \A i \in DOMAIN Asked :
        \A a \in DOMAIN Asked[i].accounts : Asked[i].accounts[a] \in us
  BY DEF ToSet
<1> HIDE DEF us
<1>9. ASSUME NEW k
      PROVE  /\ AskedToSign(k) <=> k = p \/ \E m \in ms : m.key = k /\ m.signer
             /\ AskedToWrite(k) <=> k = p \/ \E m \in ms : m.key = k /\ m.writable
  <2>1. ASSUME NEW m \in ms, m \notin us
        PROVE  ~m.signer /\ ~m.writable
    <3>1. PICK i \in DOMAIN Asked : m = Meta(Asked[i].program, FALSE, FALSE)
      BY <1>4, <2>1
    <3>2. m.signer = FALSE /\ m.writable = FALSE
      BY <3>1 DEF Meta
    <3> QED
      BY <3>2
  <2>2. /\ Meta(p, TRUE, TRUE).key = p
        /\ Meta(p, TRUE, TRUE).signer = TRUE
        /\ Meta(p, TRUE, TRUE).writable = TRUE
    BY DEF Meta
  <2>3. AskedToSign(k) <=> k = p \/ \E m \in us : m.key = k /\ m.signer
    BY <1>5, <2>2 DEF AskedToSign
  <2>4. AskedToWrite(k) <=> k = p \/ \E m \in us : m.key = k /\ m.writable
    BY <1>5, <2>2 DEF AskedToWrite
  <2> QED
    BY <1>4, <2>1, <2>3, <2>4
<1>10. DOMAIN Map \in SUBSET Key
  BY <1>2, <1>4, <1>6 DEF AccountMeta
<1>11. DOMAIN Map \in SUBSET Nat /\ IsFiniteSet(DOMAIN Map)
  BY <1>10, MessageAssumption, FS_Subset
<1>12. ASSUME NEW k \in DOMAIN Map
       PROVE  Map[k].signer = AskedToSign(k) /\ Map[k].writable = AskedToWrite(k)
  <2>1. Map[k].signer \in BOOLEAN /\ Map[k].writable \in BOOLEAN
    BY <1>6 DEF AccountMeta
  <2>2. AskedToSign(k) \in BOOLEAN /\ AskedToWrite(k) \in BOOLEAN
    BY DEF AskedToSign, AskedToWrite
  <2>3. Map[k].signer <=> AskedToSign(k)
    BY <1>6, <1>9
  <2>4. Map[k].writable <=> AskedToWrite(k)
    BY <1>6, <1>9
  <2> QED
    BY <2>1, <2>2, <2>3, <2>4
<1>13. \A i \in DOMAIN Asked :
         /\ Asked[i].program \in DOMAIN Map
         /\ \A a \in DOMAIN Asked[i].accounts : Asked[i].accounts[a].key \in DOMAIN Map
  <2>1. \A m \in ms : m.key \in DOMAIN Map
    BY <1>6
  <2>2. ASSUME NEW i \in DOMAIN Asked
        PROVE  Asked[i].program \in DOMAIN Map
    <3>1. Meta(Asked[i].program, FALSE, FALSE) \in ms
      BY <1>4
    <3>2. Meta(Asked[i].program, FALSE, FALSE).key = Asked[i].program
      BY DEF Meta
    <3> QED
      BY <2>1, <3>1, <3>2
  <2> QED
    BY <1>4, <1>8, <2>1, <2>2
<1>14. ASSUME NEW k \in DOMAIN Map, k # p
       PROVE  \E i \in DOMAIN Asked :
                \/ k = Asked[i].program
                \/ \E a \in DOMAIN Asked[i].accounts : k = Asked[i].accounts[a].key
  <2>1. PICK m \in ms : k = m.key
    BY <1>6, <1>14
  <2>2. CASE m \in us
    <3>1. PICK i \in DOMAIN Asked : m \in ToSet(Asked[i].accounts)
      BY <1>7, <2>2
    <3>2. PICK a \in DOMAIN Asked[i].accounts : m = Asked[i].accounts[a]
      BY <3>1 DEF ToSet
    <3> QED
      BY <2>1, <3>2
  <2>3. CASE m \notin us
    <3>1. PICK i \in DOMAIN Asked : m = Meta(Asked[i].program, FALSE, FALSE)
      BY <1>4, <2>3
    <3>2. m.key = Asked[i].program
      BY <3>1 DEF Meta
    <3> QED
      BY <2>1, <3>2
  <2> QED
    BY <2>2, <2>3
<1> QED
  BY <1>1, <1>6, <1>9, <1>11, <1>12, <1>13, <1>14 DEF p

LEMMA MessageParts ==
  /\ Message.keys = AccountKeys(Map)
  /\ Message.header = Header(Map)
  /\ Message.signatures = <<built.payer>>
  /\ \A i \in DOMAIN Asked : Message.instructions[i] = Compile(Message.keys, Asked[i])
BY DEF Message, Build, Map, Asked

LEMMA SeqOfMore ==
  ASSUME NEW S, NEW T, S \subseteq T, NEW s \in Seq(S)
  PROVE  s \in Seq(T)
<1>1. Len(s) \in Nat /\ DOMAIN s = 1..Len(s) /\ s \in [1..Len(s) -> S]
  OBVIOUS
<1>2. s \in [1..Len(s) -> T]
  BY <1>1
<1> QED
  BY <1>1, <1>2

\* The list of accounts: those who sign, then the others, each group sorted.
LEMMA KeyList ==
  ASSUME BuilderTypeOK, HasBuilt
  PROVE  /\ Signers \in SUBSET Nat /\ IsFiniteSet(Signers)
         /\ Others \in SUBSET Nat /\ IsFiniteSet(Others)
         /\ Cardinality(Signers) \in Nat /\ Cardinality(Others) \in Nat
         /\ Message.keys = Sorted(Signers) \o Sorted(Others)
         /\ Message.keys \in Seq(Nat)
         /\ DOMAIN Message.keys = 1..(Cardinality(Signers) + Cardinality(Others))
         /\ Len(Message.keys) = Cardinality(Signers) + Cardinality(Others)
         /\ \A i \in 1..Cardinality(Signers) :
              Message.keys[i] = Sorted(Signers)[i] /\ Message.keys[i] \in Signers
         /\ \A i \in 1..Cardinality(Others) :
              /\ Message.keys[Cardinality(Signers) + i] = Sorted(Others)[i]
              /\ Message.keys[Cardinality(Signers) + i] \in Others
         /\ ToSet(Message.keys) = DOMAIN Map
         /\ \A i, j \in DOMAIN Message.keys : Message.keys[i] = Message.keys[j] => i = j
<1> DEFINE s == Cardinality(Signers)
           o == Cardinality(Others)
           a == Sorted(Signers)
           b == Sorted(Others)
<1>1. /\ DOMAIN Map \in SUBSET Nat /\ IsFiniteSet(DOMAIN Map)
      /\ \A k \in DOMAIN Map : Map[k].signer = AskedToSign(k)
  BY Roles
<1>2. /\ Signers \in SUBSET Nat /\ IsFiniteSet(Signers)
      /\ Others \in SUBSET Nat /\ IsFiniteSet(Others)
      /\ Signers \cup Others = DOMAIN Map /\ Signers \cap Others = {}
  BY <1>1, FS_Subset DEF Signers, Others
<1>3. /\ {k \in DOMAIN Map : Map[k].signer} = Signers
      /\ {k \in DOMAIN Map : ~Map[k].signer} = Others
  BY <1>1 DEF Signers, Others
<1>4. Message.keys = a \o b
  BY <1>3, MessageParts DEF AccountKeys
<1>5. /\ s \in Nat /\ a \in Seq(Signers) /\ Len(a) = s /\ ToSet(a) = Signers
      /\ \A i \in 1..s : a[i] \in Signers
      /\ \A i, j \in 1..s : i < j <=> a[i] < a[j]
  BY <1>2, SortedFacts
<1>6. /\ o \in Nat /\ b \in Seq(Others) /\ Len(b) = o /\ ToSet(b) = Others
      /\ \A i \in 1..o : b[i] \in Others
      /\ \A i, j \in 1..o : i < j <=> b[i] < b[j]
  BY <1>2, SortedFacts
<1> DEFINE keys == Message.keys
<1> HIDE DEF s, o, a, b, keys
<1>7. a \in Seq(Nat) /\ b \in Seq(Nat)
  BY <1>2, <1>5, <1>6, SeqOfMore
<1>8. keys \in Seq(Nat) /\ ToSet(keys) = DOMAIN Map
  <2>1. keys = a \o b
    BY <1>4 DEF keys
  <2>2. a \o b \in Seq(Nat) /\ ToSet(a \o b) = ToSet(a) \cup ToSet(b)
    BY ONLY <1>7, ToSetOfConcat
  <2> QED
    BY <1>2, <1>5, <1>6, <2>1, <2>2
<1>9. Len(keys) = s + o /\ DOMAIN keys = 1..(s + o)
  <2>1. keys = a \o b
    BY <1>4 DEF keys
  <2>2. Len(a \o b) = Len(a) + Len(b)
    BY <1>7
  <2>3. DOMAIN keys = 1..Len(keys)
    BY <1>8
  <2> QED
    BY <1>5, <1>6, <2>1, <2>2, <2>3
<1>10. \A i \in 1..s : keys[i] = a[i] /\ keys[i] \in Signers
  BY <1>4, <1>5, <1>6, <1>7 DEF keys
<1>11. \A i \in 1..o : keys[s + i] = b[i] /\ keys[s + i] \in Others
  BY <1>4, <1>5, <1>6, <1>7 DEF keys
<1>12. \A i, j \in 1..s : a[i] = a[j] => i = j
  <2> SUFFICES ASSUME NEW i \in 1..s, NEW j \in 1..s, a[i] = a[j]
               PROVE  i = j
    OBVIOUS
  <2>1. a[i] \in Nat /\ a[j] \in Nat
    BY <1>2, <1>5
  <2>2. ~ (i < j) /\ ~ (j < i)
    BY <1>5, <2>1
  <2> QED
    BY <1>5, <2>2
<1>13. \A i, j \in 1..o : b[i] = b[j] => i = j
  <2> SUFFICES ASSUME NEW i \in 1..o, NEW j \in 1..o, b[i] = b[j]
               PROVE  i = j
    OBVIOUS
  <2>1. b[i] \in Nat /\ b[j] \in Nat
    BY <1>2, <1>6
  <2>2. ~ (i < j) /\ ~ (j < i)
    BY <1>6, <2>1
  <2> QED
    BY <1>6, <2>2
<1>14. ASSUME NEW i \in 1..(s + o), NEW j \in 1..(s + o), keys[i] = keys[j]
       PROVE  i = j
  <2>1. i \in 1..s \/ (i - s \in 1..o /\ s + (i - s) = i)
    BY <1>5, <1>6
  <2>2. j \in 1..s \/ (j - s \in 1..o /\ s + (j - s) = j)
    BY <1>5, <1>6
  <2>3. CASE i \in 1..s /\ j \in 1..s
    BY <1>10, <1>12, <1>14, <2>3
  <2>4. CASE i \in 1..s /\ j - s \in 1..o /\ s + (j - s) = j
    <3>1. keys[i] \in Signers /\ keys[j] \in Others
      BY <1>10, <1>11, <2>4
    <3> QED
      BY <1>2, <1>14, <3>1
  <2>5. CASE j \in 1..s /\ i - s \in 1..o /\ s + (i - s) = i
    <3>1. keys[j] \in Signers /\ keys[i] \in Others
      BY <1>10, <1>11, <2>5
    <3> QED
      BY <1>2, <1>14, <3>1
  <2>6. CASE i - s \in 1..o /\ s + (i - s) = i /\ j - s \in 1..o /\ s + (j - s) = j
    <3>1. b[i - s] = b[j - s]
      BY <1>11, <1>14, <2>6
    <3>2. i - s = j - s
      BY <1>13, <2>6, <3>1
    <3> QED
      BY <2>6, <3>2
  <2> QED
    BY <2>1, <2>2, <2>3, <2>4, <2>5, <2>6
<1> QED
  BY <1>2, <1>4, <1>5, <1>6, <1>8, <1>9, <1>10, <1>11, <1>14 DEF s, o, a, b, keys

ReadOnly(keys) == {k \in keys : ~AskedToWrite(k)}

\* The header's counts, as numbers of keys.
LEMMA HeaderCounts ==
  ASSUME BuilderTypeOK, HasBuilt
  PROVE  /\ Message.header.required = Byte(Cardinality(Signers))
         /\ Message.header.readOnlySigned = Byte(Cardinality(ReadOnly(Signers)))
         /\ Message.header.readOnlyUnsigned = Byte(Cardinality(ReadOnly(Others)))
<1> DEFINE W == {k \in Signers : AskedToWrite(k)}
           R == ReadOnly(Signers)
<1>1. IsFiniteSet(Signers)
  BY KeyList
<1>2. /\ \A k \in DOMAIN Map : Map[k].signer = AskedToSign(k)
      /\ \A k \in DOMAIN Map : Map[k].writable = AskedToWrite(k)
  BY Roles
<1>3. Count(Map, TRUE, TRUE) = Cardinality(W)
  <2>1. {k \in DOMAIN Map : Map[k].signer = TRUE /\ Map[k].writable = TRUE} = W
    BY <1>2 DEF Signers, AskedToSign, AskedToWrite
  <2> QED
    BY <2>1 DEF Count
<1>4. Count(Map, TRUE, FALSE) = Cardinality(R)
  <2>1. {k \in DOMAIN Map : Map[k].signer = TRUE /\ Map[k].writable = FALSE} = R
    BY <1>2 DEF Signers, ReadOnly, AskedToSign, AskedToWrite
  <2> QED
    BY <2>1 DEF Count
<1>5. Count(Map, FALSE, FALSE) = Cardinality(ReadOnly(Others))
  <2>1. {k \in DOMAIN Map : Map[k].signer = FALSE /\ Map[k].writable = FALSE}
          = ReadOnly(Others)
    BY <1>2 DEF Others, ReadOnly, AskedToSign, AskedToWrite
  <2> QED
    BY <2>1 DEF Count
<1>6. W \in SUBSET Signers /\ R \in SUBSET Signers /\ W \cup R = Signers /\ W \cap R = {}
  BY DEF ReadOnly
<1> HIDE DEF W, R
<1>7. Cardinality(W) + Cardinality(R) = Cardinality(Signers)
  <2>1. IsFiniteSet(W) /\ IsFiniteSet(R)
    BY <1>1, <1>6, FS_Subset
  <2>2. Cardinality(W) \in Nat /\ Cardinality(R) \in Nat /\ Cardinality({}) = 0
    BY <2>1, FS_CardinalityType, FS_EmptySet
  <2>3. Cardinality(W \cup R) = Cardinality(W) + Cardinality(R) - Cardinality(W \cap R)
    BY <2>1, FS_Union
  <2>4. Cardinality(W \cup R) = Cardinality(Signers) /\ Cardinality(W \cap R) = 0
    BY <1>6, <2>2
  <2> QED
    BY <2>2, <2>3, <2>4
<1>8. /\ Header(Map).required = Byte(Count(Map, TRUE, TRUE) + Count(Map, TRUE, FALSE))
      /\ Header(Map).readOnlySigned = Byte(Count(Map, TRUE, FALSE))
      /\ Header(Map).readOnlyUnsigned = Byte(Count(Map, FALSE, FALSE))
  BY DEF Header
<1> QED
  BY <1>3, <1>4, <1>5, <1>7, <1>8, MessageParts DEF R
-----------------------------------------------------------------------------
\* What the indices stand for.

LEMMA ByteOfLittle ==
  ASSUME NEW n \in Nat
  PROVE  Byte(n) \in 0..(ByteValues - 1) /\ (Byte(n) = n <=> n < ByteValues)
<1>1. ByteValues \in Nat \ {0}
  BY MessageAssumption
<1> QED
  BY <1>1 DEF Byte

\* A key has one position.
LEMMA PositionOf ==
  ASSUME BuilderTypeOK, HasBuilt, NEW k \in DOMAIN Map
  PROVE  LET i == CHOOSE j \in DOMAIN Message.keys : Message.keys[j] = k
         IN  /\ i \in DOMAIN Message.keys /\ Message.keys[i] = k
             /\ \A j \in DOMAIN Message.keys : Message.keys[j] = k => j = i
<1>1. /\ ToSet(Message.keys) = DOMAIN Map
      /\ \A i, j \in DOMAIN Message.keys : Message.keys[i] = Message.keys[j] => i = j
  BY KeyList
<1>2. \E j \in DOMAIN Message.keys : Message.keys[j] = k
  BY <1>1 DEF ToSet
<1> QED
  BY <1>1, <1>2

LEMMA IndexResolves ==
  ASSUME BuilderTypeOK, HasBuilt, NEW k \in DOMAIN Map
  PROVE  Resolves(IndexOf(Message.keys, k), k) <=> WithinAByte(k)
<1> DEFINE keys == Message.keys
           i == CHOOSE j \in DOMAIN keys : keys[j] = k
           n == IndexOf(keys, k)
<1>1. /\ i \in DOMAIN keys /\ keys[i] = k
      /\ \A j \in DOMAIN keys : keys[j] = k => j = i
  BY PositionOf
<1>2. \E l \in Nat : DOMAIN keys = 1..l
  <2>1. Cardinality(Signers) + Cardinality(Others) \in Nat
    BY KeyList
  <2> QED
    BY <2>1, KeyList
<1>3. n = Byte(i - 1)
  BY DEF IndexOf
<1>4. Resolves(n, k) <=> n + 1 \in DOMAIN keys /\ keys[n + 1] = k
  BY DEF Resolves
<1>5. WithinAByte(k) <=> \E j \in DOMAIN keys : j <= ByteValues /\ keys[j] = k
  BY DEF WithinAByte
<1> HIDE DEF keys, i, n
<1>6. i \in Nat /\ i - 1 \in Nat /\ ByteValues \in Nat
  BY <1>1, <1>2, MessageAssumption
<1>7. n \in Nat /\ (n = i - 1 <=> i - 1 < ByteValues)
  BY <1>3, <1>6, ByteOfLittle
<1>8. Resolves(n, k) <=> n + 1 = i
  BY <1>1, <1>4
<1>9. WithinAByte(k) <=> i <= ByteValues
  BY <1>1, <1>5
<1>10. n + 1 = i <=> i <= ByteValues
  BY <1>6, <1>7
<1> QED
  BY <1>8, <1>9, <1>10 DEF n, keys

\* The network finds the account that an instruction named under the number
\* that build() gave it as long as a byte can number its position: for any
\* instructions and any number of accounts.
THEOREM IndicesAlwaysResolve == Spec => []IndicesResolve
<1>1. BuilderTypeOK => IndicesResolve
  <2> SUFFICES ASSUME BuilderTypeOK, HasBuilt, NEW i \in DOMAIN Asked
               PROVE  /\ Resolves(Message.instructions[i].program, Asked[i].program)
                           <=> WithinAByte(Asked[i].program)
                      /\ \A a \in DOMAIN Asked[i].accounts :
                           Resolves(Message.instructions[i].accounts[a],
                                    Asked[i].accounts[a].key)
                             <=> WithinAByte(Asked[i].accounts[a].key)
    BY DEF IndicesResolve
  <2>1. /\ Asked[i].program \in DOMAIN Map
        /\ \A a \in DOMAIN Asked[i].accounts : Asked[i].accounts[a].key \in DOMAIN Map
    BY Roles
  <2>2. Message.instructions[i] = Compile(Message.keys, Asked[i])
    BY MessageParts
  <2>3. /\ Message.instructions[i].program = IndexOf(Message.keys, Asked[i].program)
        /\ \A a \in DOMAIN Asked[i].accounts :
             Message.instructions[i].accounts[a]
               = IndexOf(Message.keys, Asked[i].accounts[a].key)
    BY <2>2 DEF Compile
  <2> QED
    BY <2>1, <2>3, IndexResolves
<1> QED
  BY <1>1, BuilderTypes, PTL
-----------------------------------------------------------------------------
\* Roles.

\* Counts that fit into a byte are those of the header.
LEMMA HeaderIsExact ==
  ASSUME BuilderTypeOK, HasBuilt, HeaderFits
  PROVE  /\ Message.header.required = Cardinality(Signers)
         /\ Message.header.readOnlySigned = Cardinality(ReadOnly(Signers))
         /\ Message.header.readOnlyUnsigned = Cardinality(ReadOnly(Others))
         /\ Cardinality(ReadOnly(Signers)) \in Nat /\ Cardinality(ReadOnly(Others)) \in Nat
         /\ Cardinality(Signers \ ReadOnly(Signers))
              = Cardinality(Signers) - Cardinality(ReadOnly(Signers))
         /\ Cardinality(Others \ ReadOnly(Others))
              = Cardinality(Others) - Cardinality(ReadOnly(Others))
<1>1. /\ IsFiniteSet(Signers) /\ IsFiniteSet(Others) /\ ToSet(Message.keys) = DOMAIN Map
      /\ Cardinality(Signers) \in Nat /\ Cardinality(Others) \in Nat
  BY KeyList
<1>2. ByteValues \in Nat
  BY MessageAssumption
<1>3. Cardinality(Signers) < ByteValues /\ Cardinality(ReadOnly(Others)) < ByteValues
  <2>1. {k \in DOMAIN Map : AskedToSign(k)} = Signers
    BY DEF Signers
  <2>2. {k \in DOMAIN Map : ~AskedToSign(k) /\ ~AskedToWrite(k)} = ReadOnly(Others)
    BY DEF Others, ReadOnly
  <2> QED
    BY <1>1, <2>1, <2>2 DEF HeaderFits
<1>4. ReadOnly(Signers) \subseteq Signers /\ ReadOnly(Others) \subseteq Others
  BY DEF ReadOnly
<1> DEFINE rs == ReadOnly(Signers)
           ro == ReadOnly(Others)
<1> HIDE DEF rs, ro
<1>5. /\ IsFiniteSet(rs) /\ IsFiniteSet(ro)
      /\ Cardinality(rs) \in Nat /\ Cardinality(ro) \in Nat
      /\ Cardinality(rs) <= Cardinality(Signers)
  BY <1>1, <1>4, FS_Subset, FS_CardinalityType DEF rs, ro
<1>6. Cardinality(Signers \ rs) = Cardinality(Signers) - Cardinality(rs)
  <2>1. Signers \cap rs = rs
    BY <1>4 DEF rs
  <2> QED
    BY <1>1, <1>5, <2>1, FS_Difference
<1>7. Cardinality(Others \ ro) = Cardinality(Others) - Cardinality(ro)
  <2>1. Others \cap ro = ro
    BY <1>4 DEF ro
  <2> QED
    BY <1>1, <1>5, <2>1, FS_Difference
<1>8. /\ Byte(Cardinality(Signers)) = Cardinality(Signers)
      /\ Byte(Cardinality(rs)) = Cardinality(rs)
      /\ Byte(Cardinality(ro)) = Cardinality(ro)
  <2>1. Cardinality(ro) < ByteValues
    BY <1>3 DEF ro
  <2>2. Cardinality(rs) < ByteValues
    BY <1>1, <1>2, <1>3, <1>5
  <2> QED
    BY <1>1, <1>3, <1>5, <2>1, <2>2, ByteOfLittle
<1> QED
  BY <1>5, <1>6, <1>7, <1>8, HeaderCounts DEF rs, ro
\* The roles that the header gives to a position, for each group.
LEMMA RolesByPosition ==
  ASSUME BuilderTypeOK, HasBuilt, HeaderFits
  PROVE  /\ \A i \in DOMAIN Message.keys :
              /\ i \in Nat
              /\ Signs(Message, i) <=> i <= Cardinality(Signers)
              /\ Signs(Message, i) <=> AskedToSign(Message.keys[i])
         /\ \A i \in 1..Cardinality(Signers) :
              Writable(Message, i) <=> i <= Cardinality(Signers \ ReadOnly(Signers))
         /\ \A i \in 1..Cardinality(Others) :
              Writable(Message, Cardinality(Signers) + i)
                <=> i <= Cardinality(Others \ ReadOnly(Others))
<1> DEFINE s == Cardinality(Signers)
           o == Cardinality(Others)
           rs == Cardinality(ReadOnly(Signers))
           ro == Cardinality(ReadOnly(Others))
           keys == Message.keys
<1>1. /\ s \in Nat /\ o \in Nat /\ DOMAIN keys = 1..(s + o) /\ Len(keys) = s + o
      /\ \A i \in 1..s : keys[i] \in Signers
      /\ \A i \in 1..o : keys[s + i] \in Others
  BY KeyList
<1>2. /\ Message.header.required = s /\ Message.header.readOnlySigned = rs
      /\ Message.header.readOnlyUnsigned = ro
      /\ rs \in Nat /\ ro \in Nat
      /\ Cardinality(Signers \ ReadOnly(Signers)) = s - rs
      /\ Cardinality(Others \ ReadOnly(Others)) = o - ro
  BY HeaderIsExact
<1>3. \A i : Signs(Message, i) <=> i <= s
  BY <1>2 DEF Signs
<1>4. \A i : Writable(Message, i) <=> IF i <= s THEN i <= s - rs ELSE i <= (s + o) - ro
  BY <1>1, <1>2, <1>3 DEF Writable
<1>5. /\ \A k \in Signers : AskedToSign(k)
      /\ \A k \in Others : ~AskedToSign(k)
  BY DEF Signers, Others
<1> HIDE DEF s, o, rs, ro, keys
<1>6. ASSUME NEW i \in DOMAIN keys
      PROVE  i \in Nat /\ (i <= s <=> AskedToSign(keys[i]))
  <2>1. i \in Nat /\ (i \in 1..s \/ (i - s \in 1..o /\ s + (i - s) = i /\ ~ (i <= s)))
    BY <1>1
  <2>2. CASE i \in 1..s
    <3>1. i <= s
      BY <1>1, <2>2
    <3> QED
      BY <1>1, <1>5, <2>1, <2>2, <3>1
  <2>3. CASE i - s \in 1..o /\ s + (i - s) = i /\ ~ (i <= s)
    <3>1. keys[s + (i - s)] \in Others
      BY <1>1, <2>3
    <3> QED
      BY <1>5, <2>1, <2>3, <3>1
  <2> QED
    BY <2>1, <2>2, <2>3
<1>7. ASSUME NEW i \in 1..s
      PROVE  Writable(Message, i) <=> i <= s - rs
  <2>1. i <= s
    BY <1>1
  <2> QED
    BY <1>4, <2>1
<1>8. ASSUME NEW i \in 1..o
      PROVE  Writable(Message, s + i) <=> i <= o - ro
  <2>1. ~ (s + i <= s) /\ (s + i <= (s + o) - ro <=> i <= o - ro)
    BY <1>1, <1>2
  <2> QED
    BY <1>4, <2>1
<1> QED
  BY <1>2, <1>3, <1>6, <1>7, <1>8 DEF s, o, rs, ro, keys

\* The header's roles, by position, are those asked for exactly if the base58
\* strings leave the read-only keys of either group for its end: for any
\* instructions whose counts fit into the header.
THEOREM RolesAreLuck == Spec => []RolesIffOrdered
<1>1. BuilderTypeOK => RolesIffOrdered
  <2> DEFINE s == Cardinality(Signers)
             o == Cardinality(Others)
             keys == Message.keys
             ws == Signers \ ReadOnly(Signers)
             wo == Others \ ReadOnly(Others)
             Right(i) == /\ Signs(Message, i) <=> AskedToSign(keys[i])
                         /\ Writable(Message, i) <=> AskedToWrite(keys[i])
  <2> SUFFICES ASSUME BuilderTypeOK, HasBuilt, HeaderFits
               PROVE  (\A i \in DOMAIN keys : Right(i))
                        <=> ReadOnlyLast(TRUE) /\ ReadOnlyLast(FALSE)
    BY DEF RolesIffOrdered
  <2>1. /\ Signers \in SUBSET Nat /\ IsFiniteSet(Signers)
        /\ Others \in SUBSET Nat /\ IsFiniteSet(Others)
        /\ s \in Nat /\ o \in Nat /\ DOMAIN keys = 1..(s + o)
        /\ \A i \in 1..s : keys[i] = Sorted(Signers)[i] /\ keys[i] \in Signers
        /\ \A i \in 1..o : keys[s + i] = Sorted(Others)[i] /\ keys[s + i] \in Others
        /\ ToSet(keys) = DOMAIN Map
    BY KeyList
  <2>2. /\ \A i \in DOMAIN keys : Signs(Message, i) <=> AskedToSign(keys[i])
        /\ \A i \in 1..s : Writable(Message, i) <=> i <= Cardinality(ws)
        /\ \A i \in 1..o : Writable(Message, s + i) <=> i <= Cardinality(wo)
    BY RolesByPosition
  <2>3. /\ \A k \in Signers : k \in ws <=> AskedToWrite(k)
        /\ \A k \in Others : k \in wo <=> AskedToWrite(k)
    BY DEF ReadOnly
  <2>4. (\A i \in 1..s : i <= Cardinality(ws) <=> Sorted(Signers)[i] \in ws)
          <=> (\A k \in Signers \ ws, l \in ws : k > l)
    BY <2>1, FirstPositions
  <2>5. (\A i \in 1..o : i <= Cardinality(wo) <=> Sorted(Others)[i] \in wo)
          <=> (\A k \in Others \ wo, l \in wo : k > l)
    BY <2>1, FirstPositions
  <2>6. (\A k \in Signers \ ws, l \in ws : k > l) <=> ReadOnlyLast(TRUE)
    <3>1. \A k \in DOMAIN Map : k \in Signers <=> AskedToSign(k) = TRUE
      BY DEF Signers, AskedToSign
    <3>2. Signers \subseteq DOMAIN Map /\ ws \subseteq Signers
      BY DEF Signers
    <3> QED
      BY <2>1, <2>3, <3>1, <3>2 DEF ReadOnlyLast
  <2>7. (\A k \in Others \ wo, l \in wo : k > l) <=> ReadOnlyLast(FALSE)
    <3>1. \A k \in DOMAIN Map : k \in Others <=> AskedToSign(k) = FALSE
      BY DEF Others, AskedToSign
    <3>2. Others \subseteq DOMAIN Map /\ wo \subseteq Others
      BY DEF Others
    <3> QED
      BY <2>1, <2>3, <3>1, <3>2 DEF ReadOnlyLast
  <2> HIDE DEF s, o, ws, wo, keys
  <2>8. (\A i \in DOMAIN keys : Right(i))
          <=> /\ \A i \in 1..s : Writable(Message, i) <=> AskedToWrite(keys[i])
              /\ \A i \in 1..o : Writable(Message, s + i) <=> AskedToWrite(keys[s + i])
    <3>1. \A i \in 1..o : s + i \in 1..(s + o)
      BY <2>1
    <3>2. \A i \in 1..s : i \in 1..(s + o)
      BY <2>1
    <3>3. \A i \in 1..(s + o) : i \in 1..s \/ (i - s \in 1..o /\ s + (i - s) = i)
      BY <2>1
    <3>4. ASSUME \A i \in DOMAIN keys : Right(i)
          PROVE  /\ \A i \in 1..s : Writable(Message, i) <=> AskedToWrite(keys[i])
                 /\ \A i \in 1..o : Writable(Message, s + i) <=> AskedToWrite(keys[s + i])
      BY <2>1, <3>1, <3>2, <3>4
    <3>5. ASSUME \A i \in 1..s : Writable(Message, i) <=> AskedToWrite(keys[i]),
                 \A i \in 1..o : Writable(Message, s + i) <=> AskedToWrite(keys[s + i]),
                 NEW i \in DOMAIN keys
          PROVE  Right(i)
      <4>1. i \in 1..s \/ (i - s \in 1..o /\ s + (i - s) = i)
        BY <2>1, <3>3
      <4>2. CASE i \in 1..s
        BY <2>2, <3>5, <4>2
      <4>3. CASE i - s \in 1..o /\ s + (i - s) = i
        <5>1. Writable(Message, s + (i - s)) <=> AskedToWrite(keys[s + (i - s)])
          BY <3>5, <4>3
        <5> QED
          BY <2>2, <4>3, <5>1
      <4> QED
        BY <4>1, <4>2, <4>3
    <3> QED
      BY <3>4, <3>5
  <2>9. (\A i \in 1..s : Writable(Message, i) <=> AskedToWrite(keys[i]))
          <=> (\A i \in 1..s : i <= Cardinality(ws) <=> Sorted(Signers)[i] \in ws)
    BY <2>1, <2>2, <2>3
  <2>10. (\A i \in 1..o : Writable(Message, s + i) <=> AskedToWrite(keys[s + i]))
           <=> (\A i \in 1..o : i <= Cardinality(wo) <=> Sorted(Others)[i] \in wo)
    BY <2>1, <2>2, <2>3
  <2> QED
    BY <2>4, <2>5, <2>6, <2>7, <2>8, <2>9, <2>10 DEF s, o
<1> QED
  BY <1>1, BuilderTypes, PTL
-----------------------------------------------------------------------------
\* Signatures.

\* A transaction is taken exactly when nobody but the payer is asked to sign:
\* for any instructions whose counts fit into the header.
THEOREM OneSignatureIsEnough == Spec => []AcceptedIffAlone
<1>1. BuilderTypeOK => AcceptedIffAlone
  <2> DEFINE s == Cardinality(Signers)
             keys == Message.keys
             p == built.payer
  <2> SUFFICES ASSUME BuilderTypeOK, HasBuilt, HeaderFits
               PROVE  Accepted(Message)
                        <=> \A k \in ToSet(keys) : AskedToSign(k) => k = p
    BY DEF AcceptedIffAlone
  <2>1. /\ IsFiniteSet(Signers) /\ s \in Nat /\ Cardinality(Others) \in Nat
        /\ keys \in Seq(Nat) /\ Len(keys) = s + Cardinality(Others)
        /\ \A i \in 1..s : keys[i] \in Signers
        /\ ToSet(keys) = DOMAIN Map
    BY KeyList
  <2>2. p \in Signers
    BY Roles DEF Signers
  <2>3. (\A k \in ToSet(keys) : AskedToSign(k) => k = p) <=> Signers = {p}
    BY <2>1, <2>2 DEF Signers
  <2>4. Accepted(Message) <=> <<p>> = SubSeq(keys, 1, s)
    BY HeaderIsExact, MessageParts DEF Accepted
  <2> HIDE DEF s, keys, p
  <2>5. /\ SubSeq(keys, 1, s) \in Seq(Nat) /\ Len(SubSeq(keys, 1, s)) = s
        /\ \A i \in 1..s : SubSeq(keys, 1, s)[i] = keys[i]
    BY <2>1
  <2>6. ASSUME Signers = {p}
        PROVE  <<p>> = SubSeq(keys, 1, s)
    <3>1. s = 1
      BY <2>6, FS_Singleton DEF s
    <3>2. keys[1] = p
      BY <2>1, <2>6, <3>1
    <3>3. SubSeq(keys, 1, s) = <<keys[1]>>
      <4> DEFINE q == SubSeq(keys, 1, s)
      <4>1. q \in Seq(Nat) /\ Len(q) = 1 /\ q[1] = keys[1]
        BY <2>5, <3>1
      <4> HIDE DEF q
      <4>2. q = <<keys[1]>>
        BY <4>1
      <4> QED
        BY <4>2 DEF q
    <3> QED
      BY <3>2, <3>3
  <2>7. ASSUME <<p>> = SubSeq(keys, 1, s)
        PROVE  Signers = {p}
    <3>1. s = 1
      BY <2>5, <2>7
    <3>2. PICK x : Signers = {x}
      BY <2>1, <3>1, FS_Singleton DEF s
    <3> QED
      BY <2>2, <3>2
  <2> QED
    BY <2>3, <2>4, <2>6, <2>7
<1> QED
  BY <1>1, BuilderTypes, PTL
-----------------------------------------------------------------------------
\* Transfers.

\* The position of a key within its group.
LEMMA PositionInGroup ==
  ASSUME BuilderTypeOK, HasBuilt, NEW k \in DOMAIN Map
  PROVE  LET i == CHOOSE j \in DOMAIN Message.keys : Message.keys[j] = k
         IN  /\ i \in DOMAIN Message.keys
             /\ k \in Signers => i = Cardinality(Below(Signers, k)) + 1
             /\ k \in Others =>
                  i = Cardinality(Signers) + Cardinality(Below(Others, k)) + 1
<1> DEFINE keys == Message.keys
           s == Cardinality(Signers)
           o == Cardinality(Others)
           i == CHOOSE j \in DOMAIN keys : keys[j] = k
<1>1. /\ i \in DOMAIN keys /\ keys[i] = k
      /\ \A j \in DOMAIN keys : keys[j] = k => j = i
  BY PositionOf
<1>2. /\ Signers \in SUBSET Nat /\ IsFiniteSet(Signers)
      /\ Others \in SUBSET Nat /\ IsFiniteSet(Others)
      /\ s \in Nat /\ o \in Nat /\ DOMAIN keys = 1..(s + o)
      /\ \A j \in 1..s : keys[j] = Sorted(Signers)[j]
      /\ \A j \in 1..o : keys[s + j] = Sorted(Others)[j]
  BY KeyList
<1> HIDE DEF i, keys
<1>3. ASSUME k \in Signers
      PROVE  i = Cardinality(Below(Signers, k)) + 1
  <2>1. /\ \A j \in 1..s : Cardinality(Below(Signers, Sorted(Signers)[j])) = j - 1
        /\ Len(Sorted(Signers)) = s /\ Sorted(Signers) \in Seq(Signers)
        /\ ToSet(Sorted(Signers)) = Signers
    BY <1>2, SortedFacts
  <2>2. PICK j \in 1..s : Sorted(Signers)[j] = k
    BY <1>3, <2>1 DEF ToSet
  <2> HIDE DEF s, o
  <2>3. j \in 1..(s + o) /\ keys[j] = k
    BY <1>2, <2>2
  <2>4. i = j
    BY <1>1, <1>2, <2>3
  <2>5. j \in Nat /\ Cardinality(Below(Signers, k)) = j - 1
    BY <1>2, <2>1, <2>2
  <2> QED
    BY <2>4, <2>5
<1>4. ASSUME k \in Others
      PROVE  i = s + Cardinality(Below(Others, k)) + 1
  <2>1. /\ \A j \in 1..o : Cardinality(Below(Others, Sorted(Others)[j])) = j - 1
        /\ Len(Sorted(Others)) = o /\ Sorted(Others) \in Seq(Others)
        /\ ToSet(Sorted(Others)) = Others
    BY <1>2, SortedFacts
  <2>2. PICK j \in 1..o : Sorted(Others)[j] = k
    BY <1>4, <2>1 DEF ToSet
  <2> HIDE DEF s, o
  <2>3. s + j \in 1..(s + o) /\ keys[s + j] = k
    BY <1>2, <2>2
  <2>4. i = s + j
    BY <1>1, <1>2, <2>3
  <2>5. j \in Nat /\ Cardinality(Below(Others, k)) = j - 1
    BY <1>2, <2>1, <2>2
  <2> QED
    BY <1>2, <2>4, <2>5
<1> QED
  BY <1>1, <1>3, <1>4 DEF i, keys, s

\* Nothing is below the system program.
LEMMA SystemIsLeast ==
  ASSUME BuilderTypeOK, HasBuilt
  PROVE  /\ DOMAIN Map \subseteq Key
         /\ Cardinality(Below(Signers, System)) = 0
         /\ Cardinality(Below(Others, System)) = 0
<1>1. DOMAIN Map \subseteq Key
  <2>1. Asked \in Seq(Instruction)
    BY DEF BuilderTypeOK, HasBuilt, Asked
  <2>2. AllMetas(Asked) \in SUBSET AccountMeta
    BY <2>1, AllMetasFacts
  <2>3. built.payer \in Key
    BY MessageAssumption DEF BuilderTypeOK, HasBuilt
  <2>4. HasRoles(Map, built.payer, AllMetas(Asked))
    BY <2>1, <2>3, MapHasRoles DEF Map
  <2>5. DOMAIN Map = {built.payer} \cup {m.key : m \in AllMetas(Asked)}
    BY <2>4 DEF HasRoles
  <2>6. \A m \in AllMetas(Asked) : m.key \in Key
    BY <2>2 DEF AccountMeta
  <2> QED
    BY <2>3, <2>5, <2>6
<1>2. \A k \in Key : System \in Nat /\ k \in Nat /\ ~ (k < System)
  <2>1. Key \subseteq Nat /\ System \in Key
    BY MessageAssumption
  <2>2. \A k \in Key : System <= k
    BY MessageAssumption
  <2> TAKE k \in Key
  <2>3. System \in Nat /\ k \in Nat /\ System <= k
    BY <2>1, <2>2
  <2> QED
    BY <2>3
<1>3. Below(Signers, System) = {} /\ Below(Others, System) = {}
  BY <1>1, <1>2 DEF Below, Signers, Others
<1> QED
  BY <1>1, <1>3, FS_EmptySet

\* In a message with a transfer the header makes the system program writable;
\* if the transfer is alone, it makes its recipient read-only: for any keys and
\* any other instructions whose counts fit into the header.
THEOREM TransfersAreMarked == Spec => []TransferMarksTheProgram
<1>1. BuilderTypeOK => TransferMarksTheProgram
  <2> DEFINE s == Cardinality(Signers)
             o == Cardinality(Others)
             keys == Message.keys
             ws == Signers \ ReadOnly(Signers)
             wo == Others \ ReadOnly(Others)
             position(k) == CHOOSE j \in DOMAIN keys : keys[j] = k
  <2> SUFFICES ASSUME BuilderTypeOK, HasBuilt, HeaderFits, NEW i \in DOMAIN Asked,
                      IsTransfer(Asked[i]), ~AskedToSign(Asked[i].accounts[2].key)
               PROVE  /\ Writable(Message, position(System))
                      /\ /\ Len(Asked) = 1
                         /\ System \notin {Asked[i].accounts[1].key, Asked[i].accounts[2].key}
                         => ~Writable(Message, position(Asked[i].accounts[2].key))
    BY DEF TransferMarksTheProgram
  <2> DEFINE from == Asked[i].accounts[1]
             to   == Asked[i].accounts[2]
             p    == built.payer
  <2>1. /\ Asked \in Seq(Instruction) /\ Asked[i] \in Instruction
        /\ Asked[i].accounts \in Seq(AccountMeta) /\ DOMAIN Asked[i].accounts = {1, 2}
        /\ Asked[i].program = System /\ from.signer /\ to.writable
    <3>1. Asked \in Seq(Instruction)
      BY DEF BuilderTypeOK, HasBuilt, Asked
    <3>2. Asked[i] \in Instruction
      BY <3>1
    <3>3. Asked[i].accounts \in Seq(AccountMeta)
      BY <3>2, MessageAssumption
    <3>4. DOMAIN Asked[i].accounts = 1..2
      BY <3>3 DEF IsTransfer
    <3> QED
      BY <3>1, <3>2, <3>3, <3>4 DEF IsTransfer
  <2>2. /\ p \in Wallet /\ p \in DOMAIN Map /\ AskedToSign(p) /\ AskedToWrite(p)
        /\ System \in DOMAIN Map /\ from.key \in DOMAIN Map /\ to.key \in DOMAIN Map
        /\ \A k \in DOMAIN Map :
             \/ k = p
             \/ \E j \in DOMAIN Asked :
                  \/ k = Asked[j].program
                  \/ \E a \in DOMAIN Asked[j].accounts : k = Asked[j].accounts[a].key
    BY <2>1, Roles
  <2>3. from \in MetasAsked /\ to \in MetasAsked
    <3>1. from \in ToSet(Asked[i].accounts) /\ to \in ToSet(Asked[i].accounts)
      BY <2>1 DEF ToSet
    <3> QED
      BY <3>1 DEF MetasAsked
  <2>4. AskedToSign(from.key) /\ AskedToWrite(to.key)
    BY <2>1, <2>3 DEF AskedToSign, AskedToWrite
  <2>5. /\ p \in Signers /\ p \in ws /\ from.key \in Signers
        /\ to.key \in Others /\ to.key \in wo
    BY <2>2, <2>4 DEF Signers, Others, ReadOnly
  <2>6. /\ Signers \in SUBSET Nat /\ IsFiniteSet(Signers)
        /\ Others \in SUBSET Nat /\ IsFiniteSet(Others)
        /\ s \in Nat /\ o \in Nat /\ DOMAIN keys = 1..(s + o)
    BY KeyList
  <2>7. Cardinality(ws) \in Nat \ {0} /\ Cardinality(wo) \in Nat \ {0}
    <3>1. IsFiniteSet(ws) /\ IsFiniteSet(wo)
      BY <2>6, FS_Subset
    <3>2. ws # {} /\ wo # {}
      BY <2>5
    <3> HIDE DEF ws, wo
    <3> QED
      BY <3>1, <3>2, FS_CardinalityType, FS_EmptySet
  <2>8. s # 0 /\ o # 0
    <3>1. Signers # {} /\ Others # {}
      BY <2>5
    <3> QED
      BY <2>6, <3>1, FS_EmptySet
  <2>9. /\ \A j \in 1..s : Writable(Message, j) <=> j <= Cardinality(ws)
        /\ \A j \in 1..o : Writable(Message, s + j) <=> j <= Cardinality(wo)
    BY RolesByPosition
  <2>10. Writable(Message, position(System))
    <3>1. /\ System \in Signers => position(System) = Cardinality(Below(Signers, System)) + 1
          /\ System \in Others =>
               position(System) = s + Cardinality(Below(Others, System)) + 1
      BY <2>2, PositionInGroup
    <3>2. Cardinality(Below(Signers, System)) = 0 /\ Cardinality(Below(Others, System)) = 0
      BY SystemIsLeast
    <3>3. System \in Signers \/ System \in Others
      BY <2>2 DEF Signers, Others
    <3> HIDE DEF position, s, o, ws, wo
    <3>4. CASE System \in Signers
      <4>1. position(System) = 1 /\ 1 \in 1..s
        BY <2>6, <2>8, <3>1, <3>2, <3>4
      <4>2. 1 <= Cardinality(ws)
        BY <2>7
      <4> QED
        BY <2>9, <4>1, <4>2
    <3>5. CASE System \in Others
      <4>1. position(System) = s + 1 /\ 1 \in 1..o
        BY <2>6, <2>8, <3>1, <3>2, <3>5
      <4>2. 1 <= Cardinality(wo)
        BY <2>7
      <4> QED
        BY <2>9, <4>1, <4>2
    <3> QED
      BY <3>3, <3>4, <3>5
  <2>11. ASSUME Len(Asked) = 1, System # from.key, System # to.key
         PROVE  ~Writable(Message, position(to.key))
    <3>1. DOMAIN Asked = {i}
      <4>1. DOMAIN Asked = 1..1
        BY <2>1, <2>11
      <4> QED
        BY <4>1
    <3>2. \A k \in DOMAIN Map : k \in {p, System, from.key, to.key}
      BY <2>1, <2>2, <3>1
    <3>3. \A m \in MetasAsked : m = Meta(p, TRUE, TRUE) \/ m = from \/ m = to
      BY <2>1, <3>1 DEF MetasAsked, ToSet
    <3>4. ~AskedToSign(System) /\ ~AskedToWrite(System)
      <4>1. p # System /\ Meta(p, TRUE, TRUE).key = p
        BY <2>2, MessageAssumption DEF Meta
      <4> QED
        BY <2>11, <3>3, <4>1 DEF AskedToSign, AskedToWrite
    <3>5. Others = {System, to.key}
      BY <2>2, <2>5, <3>2, <3>4 DEF Signers, Others
    <3>6. wo = {to.key}
      BY <2>4, <3>4, <3>5 DEF ReadOnly
    <3>7. Cardinality(wo) = 1
      BY <3>6, FS_Singleton
    <3>8. Below(Others, to.key) = {System}
      <4>1. System \in Nat /\ to.key \in Nat /\ System <= to.key
        BY <2>2, SystemIsLeast, MessageAssumption
      <4>2. System < to.key
        BY <2>11, <4>1
      <4> QED
        BY <3>5, <4>1, <4>2 DEF Below
    <3>9. Cardinality(Below(Others, to.key)) = 1
      BY <3>8, FS_Singleton
    <3>10. position(to.key) = s + Cardinality(Below(Others, to.key)) + 1
      BY <2>2, <2>5, PositionInGroup
    <3>11. o = 2
      <4>1. IsFiniteSet({System}) /\ Cardinality({System}) = 1
        BY FS_Singleton
      <4>2. Cardinality({System} \cup {to.key}) = 2
        BY <2>11, <4>1, FS_AddElement
      <4>3. {System, to.key} = {System} \cup {to.key}
        OBVIOUS
      <4> QED
        BY <3>5, <4>2, <4>3
    <3> HIDE DEF position, s, o, wo
    <3>12. position(to.key) = s + 2
      BY <2>6, <3>9, <3>10
    <3>13. 2 \in 1..o /\ ~ (2 <= Cardinality(wo))
      BY <3>7, <3>11
    <3> QED
      BY <2>9, <3>12, <3>13
  <2> QED
    BY <2>10, <2>11
<1> QED
  BY <1>1, BuilderTypes, PTL
-----------------------------------------------------------------------------
\* Numbers in groups.

LEMMA Quotients ==
  ASSUME NEW n \in Nat, ~ (n < GroupValues)
  PROVE  /\ n \div GroupValues \in Nat /\ n \div GroupValues < n
         /\ n % GroupValues \in Nat /\ n % GroupValues < GroupValues
         /\ n = GroupValues * (n \div GroupValues) + (n % GroupValues)
<1> DEFINE g == GroupValues
           q == n \div g
           r == n % g
<1>1. g \in Nat /\ g >= 2
  BY MessageAssumption
<1> HIDE DEF g
<1>2. q \in Nat /\ r \in Nat /\ r < g /\ n = g * q + r
  BY <1>1
<1> HIDE DEF q, r
<1>3. q < n
  <2>1. CASE q = 0
    BY <1>1, <2>1 DEF g
  <2>2. CASE q # 0
    <3>1. g * q >= q + q
      <4>1. (g - 2) * q \in Nat
        BY <1>1, <1>2
      <4>2. g * q = (g - 2) * q + (q + q)
        BY <1>1, <1>2
      <4> QED
        BY ONLY <1>2, <4>1, <4>2
    <3> QED
      BY ONLY <1>1, <1>2, <2>2, <3>1
  <2> QED
    BY <2>1, <2>2
<1> QED
  BY ONLY <1>2, <1>3 DEF q, r, g

\* f solves the recursion of Compact up to n.
IsCompact(f, n) ==
  f = [m \in 0..n |->
         IF m < GroupValues THEN <<m>>
         ELSE <<(m % GroupValues) + GroupValues>> \o f[m \div GroupValues]]

LEMMA CompactExists ==
  ASSUME NEW n \in Nat
  PROVE  \E f : IsCompact(f, n)
<1> DEFINE Ok == {m \in Nat : \E f : IsCompact(f, m)}
           Step(f, m) == IF m < GroupValues THEN <<m>>
                         ELSE <<(m % GroupValues) + GroupValues>>
                                \o f[m \div GroupValues]
<1>1. GroupValues \in Nat /\ GroupValues >= 2
  BY MessageAssumption
<1>2. 0 \in Ok
  <2> DEFINE f == [m \in 0..0 |-> <<m>>]
  <2>1. \A m \in 0..0 : m < GroupValues
    BY <1>1
  <2>2. IsCompact(f, 0)
    BY <2>1 DEF IsCompact
  <2> QED
    BY <2>2
<1>3. ASSUME NEW m \in Ok
      PROVE  m + 1 \in Ok
  <2>1. PICK f : IsCompact(f, m)
    OBVIOUS
  <2>2. \A k \in 0..m : f[k] = Step(f, k)
    BY <2>1 DEF IsCompact
  <2> DEFINE h == [k \in 0..(m + 1) |-> IF k \in 0..m THEN f[k] ELSE Step(f, k)]
  <2>3. ASSUME NEW k \in 0..(m + 1)
        PROVE  h[k] = Step(h, k)
    <3>1. h[k] = Step(f, k)
      BY <2>2
    <3>2. CASE k < GroupValues
      BY <3>1, <3>2
    <3>3. CASE ~ (k < GroupValues)
      <4>1. k \div GroupValues \in 0..m
        <5>1. k \div GroupValues \in Nat /\ k \div GroupValues < k
          BY <3>3, Quotients
        <5> QED
          BY <5>1
      <4>2. h[k \div GroupValues] = f[k \div GroupValues]
        BY <4>1
      <4> QED
        BY <3>1, <3>3, <4>2
    <3> QED
      BY <3>2, <3>3
  <2>4. h = [k \in 0..(m + 1) |-> h[k]]
    OBVIOUS
  <2> HIDE DEF h
  <2>5. IsCompact(h, m + 1)
    BY <2>3, <2>4 DEF IsCompact
  <2> QED
    BY <2>5
<1> HIDE DEF Ok
<1>4. Ok = Nat
  BY <1>2, <1>3, Induction DEF Ok
<1> QED
  BY <1>4 DEF Ok

LEMMA CompactSteps ==
  ASSUME NEW n \in Nat
  PROVE  Compact[n] =
           IF n < GroupValues THEN <<n>>
           ELSE <<(n % GroupValues) + GroupValues>> \o Compact[n \div GroupValues]
<1> DEFINE Step(f, m) == IF m < GroupValues THEN <<m>>
                         ELSE <<(m % GroupValues) + GroupValues>>
                                \o f[m \div GroupValues]
           g(m) == CHOOSE f : IsCompact(f, m)
           F == [m \in Nat |-> g(m)[m]]
<1>1. \A m \in Nat : IsCompact(g(m), m)
  BY CompactExists
<1>2. \A m \in Nat : \A k \in 0..m : g(m)[k] = Step(g(m), k)
  BY <1>1 DEF IsCompact
<1> HIDE DEF g
<1>3. ASSUME NEW l \in Nat, NEW m \in Nat, l < m
      PROVE  g(l)[l] = g(m)[l]
  <2> DEFINE D == {k \in 0..l : g(l)[k] # g(m)[k]}
  <2> SUFFICES ASSUME D # {}
               PROVE  FALSE
    OBVIOUS
  <2>1. PICK k \in D : \A j \in D : k <= j
    <3>1. D \in SUBSET Nat
      OBVIOUS
    <3> QED
      BY <3>1, Least
  <2>2. k \in Nat /\ k \in 0..l /\ k \in 0..m /\ g(l)[k] # g(m)[k]
    BY <1>3
  <2>3. g(l)[k] = Step(g(l), k) /\ g(m)[k] = Step(g(m), k)
    BY <1>2, <2>2
  <2>4. ~ (k < GroupValues)
    BY <2>2, <2>3
  <2>5. k \div GroupValues \in Nat /\ k \div GroupValues < k
    BY <2>2, <2>4, Quotients
  <2>6. k \div GroupValues \in 0..l /\ k \div GroupValues \notin D
    BY <2>1, <2>2, <2>5
  <2>7. g(l)[k \div GroupValues] = g(m)[k \div GroupValues]
    BY <2>6
  <2> QED
    BY <2>2, <2>3, <2>7
<1>4. ASSUME NEW m \in Nat
      PROVE  F[m] = Step(F, m)
  <2>1. F[m] = Step(g(m), m)
    BY <1>2
  <2>2. CASE m < GroupValues
    BY <2>1, <2>2
  <2>3. CASE ~ (m < GroupValues)
    <3>1. m \div GroupValues \in Nat /\ m \div GroupValues < m
      BY <2>3, Quotients
    <3>2. F[m \div GroupValues] = g(m)[m \div GroupValues]
      BY <1>3, <3>1
    <3> QED
      BY <2>1, <2>3, <3>2
  <2> QED
    BY <2>2, <2>3
<1>5. F = [m \in Nat |-> F[m]]
  OBVIOUS
<1> HIDE DEF F
<1>6. F = [m \in Nat |-> Step(F, m)]
  BY <1>4, <1>5
<1>7. Compact = [m \in Nat |-> Step(Compact, m)]
  BY <1>6 DEF Compact
<1> QED
  BY <1>7

\* v[j] is the number that the groups from c[j] on stand for.
Grouped(c, v, n) ==
  /\ c \in Seq(Nat) /\ v \in Seq(Nat) /\ Len(c) # 0 /\ Len(v) = Len(c)
  /\ v[1] = n
  /\ c[Len(c)] < GroupValues /\ v[Len(c)] = c[Len(c)]
  /\ \A j \in 1..(Len(c) - 1) :
       /\ c[j] >= GroupValues
       /\ v[j] = c[j] - GroupValues + GroupValues * v[j + 1]

\* One more group in front.
LEMMA OneMoreGroup ==
  ASSUME NEW c, NEW v, NEW q \in Nat, NEW r \in Nat, Grouped(c, v, q), r < GroupValues
  PROVE  Grouped(<<r + GroupValues>> \o c, <<GroupValues * q + r>> \o v,
                 GroupValues * q + r)
<1> DEFINE g == GroupValues
           n == g * q + r
           x == r + g
           d == <<x>> \o c
           w == <<n>> \o v
           l == Len(c)
<1>1. g \in Nat /\ g >= 2
  BY MessageAssumption
<1>2. /\ c \in Seq(Nat) /\ v \in Seq(Nat) /\ l # 0 /\ Len(v) = l /\ v[1] = q
      /\ c[l] < g /\ v[l] = c[l]
      /\ \A j \in 1..(l - 1) : c[j] >= g /\ v[j] = c[j] - g + g * v[j + 1]
  BY DEF Grouped
<1>3. r < g
  OBVIOUS
<1> HIDE DEF g
<1>4. x \in Nat /\ x - g = r /\ x >= g /\ n \in Nat
  BY <1>1, <1>3
<1>5. n = x - g + g * q
  <2>1. g * q \in Nat
    BY <1>1
  <2> DEFINE y == g * q
  <2> HIDE DEF y
  <2>2. y + r = x - g + y
    BY <1>1, <1>4, <2>1 DEF y
  <2> QED
    BY <2>2 DEF y
<1> HIDE DEF x, n
<1>6. l \in Nat /\ l # 0
  BY <1>2
<1>7. /\ d \in Seq(Nat) /\ Len(d) = l + 1 /\ d[1] = x
      /\ \A j \in 2..(l + 1) : d[j] = c[j - 1]
  BY <1>2, <1>4
<1>8. /\ w \in Seq(Nat) /\ Len(w) = l + 1 /\ w[1] = n
      /\ \A j \in 2..(l + 1) : w[j] = v[j - 1]
  BY <1>2, <1>4
<1> HIDE DEF d, w, l
<1>9. d[l + 1] < g /\ w[l + 1] = d[l + 1]
  <2>1. l + 1 \in 2..(l + 1) /\ (l + 1) - 1 = l
    BY <1>6
  <2> QED
    BY <1>2, <1>7, <1>8, <2>1
<1>10. ASSUME NEW j \in 1..l
       PROVE  d[j] >= g /\ w[j] = d[j] - g + g * w[j + 1]
  <2>1. j \in Nat /\ j + 1 \in 2..(l + 1) /\ (j + 1) - 1 = j
    BY <1>6
  <2>2. w[j + 1] = v[j]
    BY <1>8, <2>1
  <2>3. CASE j = 1
    BY <1>2, <1>4, <1>5, <1>7, <1>8, <2>2, <2>3
  <2>4. CASE j # 1
    <3>1. j \in 2..(l + 1) /\ j - 1 \in 1..(l - 1) /\ (j - 1) + 1 = j
      BY <1>6, <2>1, <2>4
    <3>2. d[j] = c[j - 1] /\ w[j] = v[j - 1]
      BY <1>7, <1>8, <3>1
    <3>3. c[j - 1] >= g /\ v[j - 1] = c[j - 1] - g + g * v[j]
      BY <1>2, <3>1
    <3> QED
      BY <2>2, <3>2, <3>3
  <2> QED
    BY <2>3, <2>4
<1>11. Grouped(d, w, n)
  <2>1. Len(d) # 0 /\ Len(w) = Len(d) /\ Len(d) = l + 1 /\ Len(d) - 1 = l
    BY <1>6, <1>7, <1>8
  <2> QED
    BY <1>7, <1>8, <1>9, <1>10, <2>1 DEF Grouped, g
<1> QED
  BY <1>11 DEF d, w, n, x, g

\* What Compact writes is groups that stand for the number.
LEMMA CompactIsGrouped ==
  ASSUME NEW n \in Nat
  PROVE  \E v : Grouped(Compact[n], v, n)
<1> DEFINE Bad == {m \in Nat : ~ \E v : Grouped(Compact[m], v, m)}
<1> SUFFICES ASSUME Bad # {}
             PROVE  FALSE
  OBVIOUS
<1>1. PICK m \in Bad : \A k \in Bad : m <= k
  <2>1. Bad \in SUBSET Nat
    OBVIOUS
  <2> HIDE DEF Bad
  <2> QED
    BY <2>1, Least
<1>2. m \in Nat /\ GroupValues \in Nat /\ ~ \E v : Grouped(Compact[m], v, m)
  BY MessageAssumption
<1>3. \A k \in Nat : k < m => \E v : Grouped(Compact[k], v, k)
  <2> SUFFICES ASSUME NEW k \in Nat, k < m
               PROVE  k \notin Bad
    OBVIOUS
  <2> QED
    BY <1>1, <1>2
<1> HIDE DEF Bad
<1>4. CASE m < GroupValues
  <2>1. Compact[m] = <<m>>
    BY <1>2, <1>4, CompactSteps
  <2>2. Grouped(<<m>>, <<m>>, m)
    <3> DEFINE c == <<m>>
    <3>1. c \in Seq(Nat) /\ Len(c) = 1 /\ c[1] = m
      BY <1>2
    <3> HIDE DEF c
    <3>2. Grouped(c, c, m)
      BY <1>4, <3>1 DEF Grouped
    <3> QED
      BY <3>2 DEF c
  <2> QED
    BY <1>2, <2>1, <2>2
<1>5. CASE ~ (m < GroupValues)
  <2> DEFINE q == m \div GroupValues
             r == m % GroupValues
  <2>1. q \in Nat /\ q < m /\ r \in Nat /\ r < GroupValues /\ m = GroupValues * q + r
    BY <1>2, <1>5, Quotients
  <2>2. Compact[m] = <<r + GroupValues>> \o Compact[q]
    BY <1>2, <1>5, CompactSteps
  <2> HIDE DEF q, r
  <2>3. PICK v : Grouped(Compact[q], v, q)
    BY <1>3, <2>1
  <2>4. Grouped(<<r + GroupValues>> \o Compact[q], <<GroupValues * q + r>> \o v,
                GroupValues * q + r)
    BY <2>1, <2>3, OneMoreGroup
  <2>5. Grouped(Compact[m], <<GroupValues * q + r>> \o v, m)
    BY <2>1, <2>2, <2>4
  <2> QED
    BY <1>2, <2>5
<1> QED
  BY <1>4, <1>5
-----------------------------------------------------------------------------
\* Reading.

\* The sequence s stands in bytes from position i on.
At(bytes, i, s) ==
  /\ i \in Nat \ {0}
  /\ Len(bytes) \in Nat
  /\ \A j \in 1..Len(s) : i + j - 1 <= Len(bytes) /\ bytes[i + j - 1] = s[j]

LEMMA AtParts ==
  ASSUME NEW S, NEW T, NEW s \in Seq(S), NEW t \in Seq(T), NEW bytes, NEW i,
         At(bytes, i, s \o t)
  PROVE  At(bytes, i, s) /\ At(bytes, i + Len(s), t)
<1> DEFINE m == Len(s)
           n == Len(t)
           u == s \o t
<1>1. m \in Nat /\ n \in Nat /\ i \in Nat \ {0} /\ Len(bytes) \in Nat
  BY DEF At
<1>2. Len(u) = m + n
  OBVIOUS
<1>3. \A j \in 1..(m + n) : i + j - 1 <= Len(bytes) /\ bytes[i + j - 1] = u[j]
  BY <1>2 DEF At
<1>4. \A j \in 1..m : u[j] = s[j]
  BY <1>1
<1>5. \A j \in 1..n : u[m + j] = t[j]
  BY <1>1
<1> HIDE DEF m, n, u
<1>6. \A j \in 1..m : i + j - 1 <= Len(bytes) /\ bytes[i + j - 1] = s[j]
  <2> TAKE j \in 1..m
  <2>1. j \in 1..(m + n)
    BY <1>1
  <2> QED
    BY <1>3, <1>4, <2>1
<1>7. \A j \in 1..n : (i + m) + j - 1 <= Len(bytes) /\ bytes[(i + m) + j - 1] = t[j]
  <2> TAKE j \in 1..n
  <2>1. m + j \in 1..(m + n) /\ i + (m + j) - 1 = (i + m) + j - 1
    BY <1>1
  <2> QED
    BY <1>3, <1>5, <2>1
<1>8. i + m \in Nat \ {0}
  BY <1>1
<1> QED
  BY <1>1, <1>6, <1>7, <1>8 DEF At, m, n

LEMMA AtOne ==
  ASSUME NEW x, NEW bytes, NEW i, At(bytes, i, <<x>>)
  PROVE  bytes[i] = x
<1> DEFINE s == <<x>>
<1>1. Len(s) = 1 /\ s[1] = x
  OBVIOUS
<1> HIDE DEF s
<1>2. At(bytes, i, s)
  BY DEF s
<1>3. 1 \in 1..Len(s) /\ i \in Nat
  BY <1>1, <1>2 DEF At
<1>4. i + 1 - 1 = i
  BY <1>3
<1> QED
  BY <1>1, <1>2, <1>3, <1>4 DEF At

\* f solves the recursion by which ReadCompact finds the value.
IsValue(f, bytes, i, last) ==
  f = [j \in i..last |->
         IF j = last THEN bytes[j]
         ELSE bytes[j] - GroupValues + GroupValues * f[j + 1]]

\* The recursion has one solution: the values of the groups.
LEMMA ValueIsUnique ==
  ASSUME NEW c, NEW v, NEW n, Grouped(c, v, n), NEW bytes, NEW i, At(bytes, i, c)
  PROVE  /\ \E f : IsValue(f, bytes, i, i + Len(c) - 1)
         /\ \A f : IsValue(f, bytes, i, i + Len(c) - 1) => f[i] = n
<1> DEFINE l == Len(c)
           e == i + l - 1
<1>1. /\ l \in Nat \ {0} /\ i \in Nat \ {0} /\ v \in Seq(Nat) /\ Len(v) = l /\ v[1] = n
      /\ v[l] = c[l]
      /\ \A j \in 1..(l - 1) : v[j] = c[j] - GroupValues + GroupValues * v[j + 1]
      /\ \A j \in 1..l : bytes[i + j - 1] = c[j]
  BY DEF Grouped, At
<1> HIDE DEF l
<1>2. e \in Nat /\ e - i + 1 = l /\ i <= e
  BY <1>1
<1> HIDE DEF e
<1> DEFINE h == [j \in i..e |-> v[j - i + 1]]
<1>3. ASSUME NEW j \in i..e
      PROVE  h[j] = IF j = e THEN bytes[j]
                    ELSE bytes[j] - GroupValues + GroupValues * h[j + 1]
  <2> DEFINE k == j - i + 1
  <2>1. j \in Nat /\ k \in 1..l /\ i + k - 1 = j /\ (j = e <=> k = l)
    BY <1>1, <1>2
  <2>2. h[j] = v[k] /\ bytes[j] = c[k]
    BY <1>1, <2>1
  <2>3. CASE j = e
    BY <1>1, <2>1, <2>2, <2>3
  <2>4. CASE j # e
    <3>1. k \in 1..(l - 1) /\ j + 1 \in i..e /\ (j + 1) - i + 1 = k + 1
      BY <1>1, <1>2, <2>1, <2>4
    <3>2. h[j + 1] = v[k + 1]
      BY <3>1
    <3> HIDE DEF h, k
    <3> QED
      BY <1>1, <2>2, <2>4, <3>1, <3>2
  <2> QED
    BY <2>3, <2>4
<1>4. IsValue(h, bytes, i, e)
  <2>1. h = [j \in i..e |-> h[j]]
    OBVIOUS
  <2> HIDE DEF h
  <2> QED
    BY <1>3, <2>1 DEF IsValue
<1>5. ASSUME NEW f, IsValue(f, bytes, i, e)
      PROVE  f[i] = n
  <2>1. \A j \in i..e : f[j] = IF j = e THEN bytes[j]
                               ELSE bytes[j] - GroupValues + GroupValues * f[j + 1]
    BY <1>5 DEF IsValue
  <2> DEFINE Ok == {m \in Nat : m < l => f[e - m] = h[e - m]}
  <2>2. 0 \in Ok
    <3>1. e \in i..e /\ e - 0 = e
      BY <1>1, <1>2
    <3>2. f[e] = h[e]
      BY <1>3, <2>1, <3>1
    <3> QED
      BY <3>1, <3>2
  <2>3. ASSUME NEW m \in Ok
        PROVE  m + 1 \in Ok
    <3> SUFFICES ASSUME m + 1 < l
                 PROVE  f[e - (m + 1)] = h[e - (m + 1)]
      OBVIOUS
    <3> DEFINE j == e - (m + 1)
    <3>1. m < l /\ j \in i..e /\ j # e /\ j + 1 = e - m
      BY <1>1, <1>2
    <3>2. f[j + 1] = h[j + 1]
      BY <3>1
    <3> HIDE DEF j, h
    <3>3. f[j] = h[j]
      BY <1>3, <2>1, <3>1, <3>2
    <3> QED
      BY <3>3 DEF j
  <2> HIDE DEF Ok
  <2>4. Ok = Nat
    BY <2>2, <2>3, Induction DEF Ok
  <2>5. l - 1 \in Ok /\ l - 1 < l /\ e - (l - 1) = i
    BY <1>1, <1>2, <2>4
  <2>6. f[i] = h[i]
    BY <2>5 DEF Ok
  <2>7. i \in i..e /\ i - i + 1 = 1
    BY <1>1, <1>2
  <2> QED
    BY <1>1, <2>6, <2>7
<1> HIDE DEF h
<1> QED
  BY <1>4, <1>5 DEF e, l

\* A number is read as it was written.
LEMMA ReadsNumber ==
  ASSUME NEW n \in Nat, NEW bytes, NEW i, At(bytes, i, Compact[n])
  PROVE  ReadCompact(bytes, i) = [value |-> n, next |-> i + Len(Compact[n])]
<1> DEFINE c == Compact[n]
           l == Len(c)
           e == i + l - 1
           Ends(j) == /\ bytes[j] < GroupValues
                      /\ \A h \in i..(j - 1) : bytes[h] >= GroupValues
           last == CHOOSE j \in i..Len(bytes) : Ends(j)
           f == CHOOSE f : IsValue(f, bytes, i, last)
<1>1. PICK v : Grouped(c, v, n)
  BY CompactIsGrouped
<1>2. ReadCompact(bytes, i) = [value |-> f[i], next |-> last + 1]
  BY DEF ReadCompact, IsValue
<1> HIDE DEF c
<1>3. At(bytes, i, c)
  BY DEF c
<1>4. /\ c \in Seq(Nat) /\ l \in Nat \ {0} /\ c[l] < GroupValues
      /\ \A j \in 1..(l - 1) : c[j] >= GroupValues
  BY <1>1 DEF Grouped
<1>5. /\ i \in Nat \ {0} /\ Len(bytes) \in Nat /\ GroupValues \in Nat
      /\ \A j \in 1..l : i + j - 1 <= Len(bytes) /\ bytes[i + j - 1] = c[j]
  BY <1>3, MessageAssumption DEF At
<1>6. e \in i..Len(bytes) /\ bytes[e] = c[l] /\ e \in Nat
  <2>1. l \in 1..l /\ i + l - 1 <= Len(bytes)
    BY <1>4, <1>5
  <2> QED
    BY <1>4, <1>5, <2>1
<1>7. \A h \in i..(e - 1) : bytes[h] \in Nat /\ bytes[h] >= GroupValues
  <2> TAKE h \in i..(e - 1)
  <2>1. h - i + 1 \in 1..(l - 1) /\ h - i + 1 \in 1..l /\ i + (h - i + 1) - 1 = h
    BY <1>4, <1>5
  <2>2. bytes[h] = c[h - i + 1]
    BY <1>5, <2>1
  <2> QED
    BY <1>4, <2>1, <2>2
<1>8. Ends(e)
  BY <1>4, <1>6, <1>7
<1>9. \A j \in i..Len(bytes) : Ends(j) => j = e
  <2> SUFFICES ASSUME NEW j \in i..Len(bytes), Ends(j), j # e
               PROVE  FALSE
    OBVIOUS
  <2>1. j \in Nat
    BY <1>5
  <2>2. CASE j < e
    <3>1. j \in i..(e - 1)
      BY <1>5, <1>6, <2>1, <2>2
    <3> QED
      BY <1>5, <1>7, <3>1
  <2>3. CASE e < j
    <3>1. e \in i..(j - 1)
      BY <1>5, <1>6, <2>1, <2>3
    <3>2. bytes[e] >= GroupValues /\ bytes[e] < GroupValues /\ bytes[e] \in Nat
      BY <1>4, <1>6, <3>1
    <3> QED
      BY <1>5, <3>2
  <2> QED
    BY <1>6, <2>1, <2>2, <2>3
<1>10. last = e
  BY <1>6, <1>8, <1>9
<1> HIDE DEF last
<1>11. f[i] = n
  <2>1. /\ \E g : IsValue(g, bytes, i, e)
        /\ \A g : IsValue(g, bytes, i, e) => g[i] = n
    BY <1>1, <1>3, ValueIsUnique
  <2>2. IsValue(f, bytes, i, e)
    BY <1>10, <2>1
  <2> QED
    BY <2>1, <2>2
<1>12. last + 1 = i + l
  BY <1>4, <1>5, <1>10
<1> QED
  BY <1>2, <1>11, <1>12 DEF c

\* A sequence is read as it was written.
LEMMA ReadsSeq ==
  ASSUME NEW S, NEW s \in Seq(S), NEW T, NEW bytes \in Seq(T), NEW i,
         At(bytes, i, WithLength(s))
  PROVE  ReadSeq(bytes, i) = [value |-> s, next |-> i + Len(WithLength(s))]
<1> DEFINE n == Len(s)
           c == Compact[n]
           l == Len(c)
           a == i + l
           q == SubSeq(bytes, a, a + n - 1)
<1>1. n \in Nat
  OBVIOUS
<1>2. PICK v : Grouped(c, v, n)
  BY <1>1, CompactIsGrouped
<1>3. c \in Seq(Nat) /\ l \in Nat \ {0}
  BY <1>2 DEF Grouped
<1>4. At(bytes, i, c \o s)
  BY DEF WithLength
<1>5. At(bytes, i, c) /\ At(bytes, a, s)
  <2> HIDE DEF c
  <2> QED
    BY <1>3, <1>4, AtParts
<1>6. ReadCompact(bytes, i) = [value |-> n, next |-> a]
  BY <1>1, <1>5, ReadsNumber
<1>7. ReadSeq(bytes, i) = [value |-> q, next |-> a + n]
  BY <1>6 DEF ReadSeq
<1>8. Len(WithLength(s)) = l + n
  <2>1. Len(c \o s) = l + n
    BY <1>3
  <2> QED
    BY <2>1 DEF WithLength
<1> HIDE DEF c
<1>9. i \in Nat \ {0} /\ a + n = i + (l + n)
  BY <1>1, <1>3, <1>5 DEF At
<1>10. a \in 1..(Len(bytes) + 1) /\ a + n - 1 \in (a - 1)..Len(bytes)
  <2>1. i + l - 1 <= Len(bytes) /\ Len(bytes) \in Nat
    <3>1. l \in 1..Len(c)
      BY <1>3
    <3> QED
      BY <1>5, <3>1 DEF At
  <2>2. n # 0 => a + n - 1 <= Len(bytes)
    <3>1. n # 0 => n \in 1..Len(s)
      BY <1>1
    <3> QED
      BY <1>5, <3>1 DEF At
  <2> QED
    BY <1>1, <1>3, <1>9, <2>1, <2>2
<1>11. /\ q \in Seq(T) /\ Len(q) = n
       /\ \A j \in 1..n : q[j] = bytes[a + j - 1]
  <2> DEFINE b == a + n - 1
  <2>1. /\ SubSeq(bytes, a, b) \in Seq(T)
        /\ Len(SubSeq(bytes, a, b)) = b - a + 1
        /\ \A j \in 1..(b - a + 1) : SubSeq(bytes, a, b)[j] = bytes[a + j - 1]
    <3>1. a \in 1..(Len(bytes) + 1) /\ b \in (a - 1)..Len(bytes)
      BY <1>10
    <3> HIDE DEF a, b
    <3> QED
      BY <3>1, SubSeqProperties
  <2>2. b - a + 1 = n
    BY <1>1, <1>3, <1>9
  <2> QED
    BY <2>1, <2>2
<1> HIDE DEF a, q, l
<1>12. \A j \in 1..n : q[j] = s[j]
  BY <1>5, <1>11 DEF At
<1>13. q = s
  <2>1. q = [j \in 1..n |-> q[j]]
    BY <1>11
  <2>2. s = [j \in 1..n |-> s[j]]
    OBVIOUS
  <2> HIDE DEF n
  <2> QED
    BY <1>12, <2>1, <2>2
<1> QED
  BY <1>7, <1>8, <1>9, <1>13

Compiled == [program : Nat, accounts : Seq(Nat), data : Seq(Nat)]

LEMMA WithLengthIsSeq ==
  ASSUME NEW s \in Seq(Nat)
  PROVE  WithLength(s) \in Seq(Nat)
<1>1. Len(s) \in Nat
  OBVIOUS
<1>2. PICK v : Grouped(Compact[Len(s)], v, Len(s))
  BY <1>1, CompactIsGrouped
<1>3. Compact[Len(s)] \in Seq(Nat)
  BY <1>2 DEF Grouped
<1> QED
  BY <1>3 DEF WithLength

LEMMA SerializedIsSeq ==
  ASSUME NEW c \in Compiled
  PROVE  SerializeInstruction(c) \in Seq(Nat)
<1>1. c.program \in Nat /\ c.accounts \in Seq(Nat) /\ c.data \in Seq(Nat)
  BY DEF Compiled
<1>2. WithLength(c.accounts) \in Seq(Nat) /\ WithLength(c.data) \in Seq(Nat)
  BY <1>1, WithLengthIsSeq
<1>3. <<c.program>> \in Seq(Nat)
  BY <1>1
<1> QED
  BY <1>2, <1>3 DEF SerializeInstruction

\* An instruction is read as it was written.
LEMMA ReadsInstruction ==
  ASSUME NEW c \in Compiled, NEW T, NEW bytes \in Seq(T), NEW i,
         At(bytes, i, SerializeInstruction(c))
  PROVE  ReadInstruction(bytes, i) =
           [value |-> c, next |-> i + Len(SerializeInstruction(c))]
<1> DEFINE p == <<c.program>>
           a == WithLength(c.accounts)
           d == WithLength(c.data)
<1>1. c.program \in Nat /\ c.accounts \in Seq(Nat) /\ c.data \in Seq(Nat)
  BY DEF Compiled
<1>2. /\ p \in Seq(Nat) /\ Len(p) = 1
      /\ a \in Seq(Nat) /\ Len(a) \in Nat
      /\ d \in Seq(Nat) /\ Len(d) \in Nat
  <2>1. a \in Seq(Nat) /\ d \in Seq(Nat)
    BY <1>1, WithLengthIsSeq
  <2> HIDE DEF a, d
  <2> QED
    BY <1>1, <2>1
<1>3. SerializeInstruction(c) = (p \o a) \o d
  BY DEF SerializeInstruction
<1> HIDE DEF p, a, d
<1>4. /\ p \o a \in Seq(Nat) /\ Len(p \o a) = 1 + Len(a)
      /\ Len((p \o a) \o d) = 1 + Len(a) + Len(d)
  <2>1. p \o a \in Seq(Nat) /\ Len(p \o a) = 1 + Len(a)
    <3>1. p \in Seq(Nat) /\ a \in Seq(Nat) /\ Len(p) = 1
      BY <1>2
    <3>2. p \o a \in Seq(Nat) /\ Len(p \o a) = Len(p) + Len(a)
      BY ONLY <3>1, ConcatProperties
    <3> QED
      BY <3>1, <3>2
  <2> DEFINE u == p \o a
  <2> HIDE DEF u
  <2>2. u \in Seq(Nat) /\ Len(u) = 1 + Len(a)
    BY <2>1 DEF u
  <2>3. Len(u \o d) = 1 + Len(a) + Len(d)
    <3>1. u \in Seq(Nat) /\ d \in Seq(Nat) /\ Len(u) = 1 + Len(a)
      BY <1>2, <2>2
    <3>2. Len(u \o d) = Len(u) + Len(d)
      BY ONLY <3>1, ConcatProperties
    <3> QED
      BY <3>1, <3>2
  <2> QED
    BY <2>1, <2>3 DEF u
<1>5. i \in Nat
  BY DEF At
<1>6. At(bytes, i, p \o a) /\ At(bytes, i + (1 + Len(a)), d)
  <2>1. At(bytes, i, (p \o a) \o d)
    BY <1>3
  <2>2. At(bytes, i, p \o a) /\ At(bytes, i + Len(p \o a), d)
    BY <1>2, <1>4, <2>1, AtParts
  <2> QED
    BY <1>4, <2>2
<1>7. At(bytes, i, p) /\ At(bytes, i + 1, a)
  <2>1. At(bytes, i, p) /\ At(bytes, i + Len(p), a)
    BY <1>2, <1>6, AtParts
  <2> QED
    BY <1>2, <2>1
<1>8. bytes[i] = c.program
  BY <1>7, AtOne DEF p
<1>9. ReadSeq(bytes, i + 1) = [value |-> c.accounts, next |-> i + (1 + Len(a))]
  <2>1. ReadSeq(bytes, i + 1) = [value |-> c.accounts, next |-> (i + 1) + Len(a)]
    BY <1>1, <1>7, ReadsSeq DEF a
  <2>2. (i + 1) + Len(a) = i + (1 + Len(a))
    BY <1>2, <1>5
  <2> QED
    BY <2>1, <2>2
<1>10. ReadSeq(bytes, i + (1 + Len(a)))
         = [value |-> c.data, next |-> (i + (1 + Len(a))) + Len(d)]
  BY <1>1, <1>6, ReadsSeq DEF d
<1>11. (i + (1 + Len(a))) + Len(d) = i + Len(SerializeInstruction(c))
  BY <1>2, <1>3, <1>4, <1>5
<1>12. c = [program |-> c.program, accounts |-> c.accounts, data |-> c.data]
  BY DEF Compiled
<1>13. ReadInstruction(bytes, i) =
         [value |-> [program |-> bytes[i], accounts |-> c.accounts, data |-> c.data],
          next  |-> (i + (1 + Len(a))) + Len(d)]
  BY <1>9, <1>10 DEF ReadInstruction
<1> QED
  BY <1>8, <1>11, <1>12, <1>13

\* Where each of the joined sequences stands.
LEMMA AtFlattened ==
  ASSUME NEW T, NEW seqs \in Seq(Seq(T)), NEW bytes, NEW i,
         At(bytes, i, FlattenSeq(seqs))
  PROVE  \E pos : /\ pos \in [1..(Len(seqs) + 1) -> Nat]
                  /\ pos[1] = i
                  /\ \A k \in 1..Len(seqs) :
                       /\ At(bytes, pos[k], seqs[k])
                       /\ pos[k + 1] = pos[k] + Len(seqs[k])
<1> DEFINE n == Len(seqs)
<1>1. n \in Nat /\ \A k \in 1..n : seqs[k] \in Seq(T)
  OBVIOUS
<1>2. CASE n = 0
  <2> DEFINE pos == [k \in 1..1 |-> i]
  <2>1. 1..n = {} /\ n + 1 = 1
    BY <1>2
  <2>2. pos \in [1..(n + 1) -> Nat] /\ pos[1] = i
    BY <2>1 DEF At
  <2> HIDE DEF pos, n
  <2>3. \A k \in 1..n : At(bytes, pos[k], seqs[k]) /\ pos[k + 1] = pos[k] + Len(seqs[k])
    BY <2>1
  <2> QED
    BY <2>2, <2>3 DEF n
<1>3. CASE n # 0
  <2>1. PICK f : /\ f[1] = seqs[1]
                 /\ \A k \in 2..n : f[k] = f[k - 1] \o seqs[k]
                 /\ FlattenSeq(seqs) = f[n]
    BY <1>3, FlattenSteps
  <2> HIDE DEF n
  <2>2. n \in Nat \ {0} /\ i \in Nat /\ At(bytes, i, f[n])
    BY <1>1, <1>3, <2>1 DEF At
  <2> DEFINE Typed == {m \in Nat : m + 1 \in 1..n => f[m + 1] \in Seq(T)}
             Stands == {m \in Nat : n - m \in 1..n => At(bytes, i, f[n - m])}
  <2>3. Typed = Nat
    <3>1. 0 \in Typed
      <4>1. 1 \in 1..n
        BY <2>2
      <4> QED
        BY <1>1, <2>1, <4>1
    <3>2. ASSUME NEW m \in Typed
          PROVE  m + 1 \in Typed
      <4>1. m \in Nat
        OBVIOUS
      <4> DEFINE k == (m + 1) + 1
      <4> SUFFICES ASSUME k \in 1..n
                   PROVE  f[k] \in Seq(T)
        BY <4>1
      <4>2. k \in 2..n /\ m + 1 \in 1..n /\ k - 1 = m + 1
        BY <2>2, <4>1
      <4>3. f[k - 1] \in Seq(T)
        BY <4>2
      <4> HIDE DEF k, Typed
      <4>4. seqs[k] \in Seq(T) /\ f[k] = f[k - 1] \o seqs[k]
        BY <1>1, <2>1, <4>2
      <4> QED
        BY <4>3, <4>4
    <3> HIDE DEF Typed
    <3> QED
      BY <3>1, <3>2, Induction DEF Typed
  <2>4. ASSUME NEW k \in 1..n
        PROVE  f[k] \in Seq(T)
    <3>1. k - 1 \in Nat /\ (k - 1) + 1 = k
      BY <2>2
    <3>2. k - 1 \in Typed
      BY <2>3, <3>1
    <3> QED
      BY <3>1, <3>2
  <2> HIDE DEF Typed
  <2>5. ASSUME NEW k \in 2..n, At(bytes, i, f[k])
        PROVE  At(bytes, i, f[k - 1]) /\ At(bytes, i + Len(f[k - 1]), seqs[k])
    <3>1. k \in 1..n /\ k - 1 \in 1..n
      BY <2>2
    <3>2. f[k - 1] \in Seq(T) /\ seqs[k] \in Seq(T) /\ f[k] = f[k - 1] \o seqs[k]
      BY <1>1, <2>1, <2>4, <3>1
    <3>3. At(bytes, i, f[k - 1] \o seqs[k])
      BY <2>5, <3>2
    <3> QED
      BY <3>2, <3>3, AtParts
  <2>6. Stands = Nat
    <3>1. 0 \in Stands
      <4>1. n - 0 = n
        BY <2>2
      <4> QED
        BY <2>2, <4>1
    <3>2. ASSUME NEW m \in Stands
          PROVE  m + 1 \in Stands
      <4>1. m \in Nat
        OBVIOUS
      <4> DEFINE k == n - m
      <4>2. n - (m + 1) = k - 1
        BY <2>2, <4>1
      <4> SUFFICES ASSUME k - 1 \in 1..n
                   PROVE  At(bytes, i, f[k - 1])
        BY <4>1, <4>2
      <4>3. k \in 2..n /\ k \in 1..n
        BY <2>2, <4>1
      <4>4. At(bytes, i, f[k])
        BY <4>3
      <4> HIDE DEF k, Stands
      <4> QED
        BY <2>5, <4>3, <4>4
    <3> HIDE DEF Stands
    <3> QED
      BY <3>1, <3>2, Induction DEF Stands
  <2>7. ASSUME NEW k \in 1..n
        PROVE  At(bytes, i, f[k])
    <3>1. n - k \in Nat /\ n - (n - k) = k
      BY <2>2
    <3>2. n - k \in Stands
      BY <2>6, <3>1
    <3> QED
      BY <3>1, <3>2
  <2> HIDE DEF Stands
  <2> DEFINE pos == [k \in 1..(n + 1) |-> IF k = 1 THEN i ELSE i + Len(f[k - 1])]
  <2>8. pos \in [1..(n + 1) -> Nat] /\ pos[1] = i
    <3>1. ASSUME NEW k \in 1..(n + 1)
          PROVE  (IF k = 1 THEN i ELSE i + Len(f[k - 1])) \in Nat
      <4>1. k # 1 => k - 1 \in 1..n
        BY <2>2
      <4>2. k # 1 => Len(f[k - 1]) \in Nat
        BY <2>4, <4>1
      <4> QED
        BY <2>2, <4>2
    <3> QED
      BY <2>2, <3>1
  <2>9. ASSUME NEW k \in 1..n
        PROVE  /\ At(bytes, pos[k], seqs[k])
               /\ pos[k + 1] = pos[k] + Len(seqs[k])
    <3>1. k \in 1..(n + 1) /\ k + 1 \in 1..(n + 1) /\ (k + 1) - 1 = k /\ k + 1 # 1
      BY <2>2
    <3>2. pos[k + 1] = i + Len(f[k])
      BY <3>1
    <3>3. CASE k = 1
      <4>1. pos[k] = i /\ f[k] = seqs[k]
        BY <2>1, <3>1, <3>3
      <4> QED
        BY <2>7, <3>2, <4>1
    <3>4. CASE k # 1
      <4>1. k \in 2..n /\ k - 1 \in 1..n
        BY <2>2, <3>4
      <4>2. pos[k] = i + Len(f[k - 1])
        BY <3>1, <3>4
      <4> HIDE DEF pos
      <4>3. At(bytes, i + Len(f[k - 1]), seqs[k])
        BY <2>5, <2>7, <4>1
      <4>4. Len(f[k]) = Len(f[k - 1]) + Len(seqs[k])
        <5>1. f[k - 1] \in Seq(T) /\ seqs[k] \in Seq(T) /\ f[k] = f[k - 1] \o seqs[k]
          BY <1>1, <2>1, <2>4, <4>1
        <5> QED
          BY <5>1
      <4>5. Len(f[k - 1]) \in Nat /\ Len(seqs[k]) \in Nat
        BY <1>1, <2>4, <4>1
      <4>6. i + Len(f[k]) = (i + Len(f[k - 1])) + Len(seqs[k])
        <5> DEFINE x == Len(f[k - 1])
                   y == Len(seqs[k])
        <5> HIDE DEF x, y
        <5>1. x \in Nat /\ y \in Nat /\ i \in Nat
          BY <2>2, <4>5 DEF x, y
        <5>2. i + (x + y) = (i + x) + y
          BY <5>1
        <5> QED
          BY <4>4, <5>2 DEF x, y
      <4> QED
        BY <3>2, <4>2, <4>3, <4>6
    <3> QED
      BY <3>3, <3>4
  <2> HIDE DEF pos
  <2> QED
    BY <2>8, <2>9 DEF n
<1> QED
  BY <1>2, <1>3

\* f solves the recursion by which Deserialize finds the instructions.
IsStart(f, bytes, i, n) ==
  f = [k \in 1..(n + 1) |->
         IF k = 1 THEN i ELSE ReadInstruction(bytes, f[k - 1]).next]

SerializedAll(xs) ==
  FlattenSeq([k \in DOMAIN xs |-> SerializeInstruction(xs[k])])

LEMMA SerializedAllIsSeq ==
  ASSUME NEW xs \in Seq(Compiled)
  PROVE  SerializedAll(xs) \in Seq(Nat)
<1> DEFINE seqs == [k \in DOMAIN xs |-> SerializeInstruction(xs[k])]
<1>1. /\ Len(xs) \in Nat /\ DOMAIN xs = 1..Len(xs)
      /\ \A k \in DOMAIN xs : SerializeInstruction(xs[k]) \in Seq(Nat)
  BY SerializedIsSeq
<1>2. seqs \in Seq(Seq(Nat))
  BY <1>1
<1> HIDE DEF seqs
<1> QED
  BY <1>2, FlattenFacts DEF SerializedAll, seqs

\* The instructions are read as they were written.
LEMMA ReadsInstructions ==
  ASSUME NEW xs \in Seq(Compiled), NEW T, NEW bytes \in Seq(T), NEW i,
         At(bytes, i, SerializedAll(xs))
  PROVE  /\ \E f : IsStart(f, bytes, i, Len(xs))
         /\ \A f : IsStart(f, bytes, i, Len(xs)) =>
              \A k \in 1..Len(xs) : ReadInstruction(bytes, f[k]).value = xs[k]
<1> DEFINE n == Len(xs)
           seqs == [k \in DOMAIN xs |-> SerializeInstruction(xs[k])]
<1>1. /\ n \in Nat /\ DOMAIN xs = 1..n /\ xs = [k \in 1..n |-> xs[k]]
      /\ \A k \in 1..n : xs[k] \in Compiled
  OBVIOUS
<1>2. \A k \in 1..n : SerializeInstruction(xs[k]) \in Seq(Nat)
  BY <1>1, SerializedIsSeq
<1> HIDE DEF n
<1>3. /\ seqs \in Seq(Seq(Nat)) /\ Len(seqs) = n
      /\ \A k \in 1..n : seqs[k] = SerializeInstruction(xs[k])
  <2>1. seqs = [k \in 1..n |-> SerializeInstruction(xs[k])]
    BY <1>1
  <2>2. seqs \in [1..n -> Seq(Nat)]
    BY <1>2, <2>1
  <2>3. \A k \in 1..n : seqs[k] = SerializeInstruction(xs[k])
    BY <2>1
  <2>4. n \in Nat
    BY <1>1
  <2> HIDE DEF seqs
  <2>5. seqs \in Seq(Seq(Nat)) /\ Len(seqs) = n
    BY ONLY <2>2, <2>4
  <2> QED
    BY <2>3, <2>5
<1>4. At(bytes, i, FlattenSeq(seqs))
  BY DEF SerializedAll
<1> HIDE DEF seqs
<1>5. PICK pos : /\ pos \in [1..(n + 1) -> Nat]
                 /\ pos[1] = i
                 /\ \A k \in 1..n : /\ At(bytes, pos[k], seqs[k])
                                    /\ pos[k + 1] = pos[k] + Len(seqs[k])
  <2>1. \E pos : /\ pos \in [1..(Len(seqs) + 1) -> Nat]
                 /\ pos[1] = i
                 /\ \A k \in 1..Len(seqs) : /\ At(bytes, pos[k], seqs[k])
                                             /\ pos[k + 1] = pos[k] + Len(seqs[k])
    <3>1. seqs \in Seq(Seq(Nat))
      BY <1>3
    <3>2. At(bytes, i, FlattenSeq(seqs))
      BY <1>4
    <3> QED
      BY ONLY <3>1, <3>2, AtFlattened
  <2>2. Len(seqs) = n
    BY <1>3
  <2> QED
    BY ONLY <2>1, <2>2
<1>6. ASSUME NEW k \in 1..n
      PROVE  ReadInstruction(bytes, pos[k]) = [value |-> xs[k], next |-> pos[k + 1]]
  <2>1. At(bytes, pos[k], SerializeInstruction(xs[k])) /\ xs[k] \in Compiled
    BY <1>1, <1>3, <1>5
  <2>2. pos[k + 1] = pos[k] + Len(SerializeInstruction(xs[k]))
    BY <1>3, <1>5
  <2> QED
    BY <2>1, <2>2, ReadsInstruction
<1>7. IsStart(pos, bytes, i, n)
  <2>1. ASSUME NEW k \in 1..(n + 1)
        PROVE  pos[k] = IF k = 1 THEN i ELSE ReadInstruction(bytes, pos[k - 1]).next
    <3>1. CASE k = 1
      BY <1>5, <3>1
    <3>2. CASE k # 1
      <4>1. k - 1 \in 1..n /\ (k - 1) + 1 = k
        BY <1>1, <3>2
      <4>2. ReadInstruction(bytes, pos[k - 1]) = [value |-> xs[k - 1], next |-> pos[k]]
        BY <1>6, <4>1
      <4> QED
        BY <3>2, <4>2
    <3> QED
      BY <3>1, <3>2
  <2>2. pos = [k \in 1..(n + 1) |-> pos[k]]
    BY <1>5
  <2> QED
    BY <2>1, <2>2 DEF IsStart
<1>8. ASSUME NEW f, IsStart(f, bytes, i, n)
      PROVE  \A k \in 1..n : ReadInstruction(bytes, f[k]).value = xs[k]
  <2>1. \A k \in 1..(n + 1) :
          f[k] = IF k = 1 THEN i ELSE ReadInstruction(bytes, f[k - 1]).next
    BY <1>8 DEF IsStart
  <2> DEFINE Ok == {m \in Nat : m + 1 \in 1..(n + 1) => f[m + 1] = pos[m + 1]}
  <2>2. 0 \in Ok
    <3>1. 1 \in 1..(n + 1)
      BY <1>1
    <3> QED
      BY <1>5, <2>1, <3>1
  <2>3. ASSUME NEW m \in Ok
        PROVE  m + 1 \in Ok
    <3>1. m \in Nat
      OBVIOUS
    <3> DEFINE k == (m + 1) + 1
    <3> SUFFICES ASSUME k \in 1..(n + 1)
                 PROVE  f[k] = pos[k]
      BY <3>1
    <3>2. k # 1 /\ k - 1 = m + 1 /\ m + 1 \in 1..n /\ m + 1 \in 1..(n + 1)
      BY <1>1, <3>1
    <3>3. f[k - 1] = pos[k - 1]
      BY <3>2
    <3> HIDE DEF k, Ok
    <3>4. ReadInstruction(bytes, pos[k - 1]).next = pos[k]
      <4>1. k - 1 \in 1..n /\ (k - 1) + 1 = k
        BY <3>1, <3>2 DEF k
      <4>2. ReadInstruction(bytes, pos[k - 1]) = [value |-> xs[k - 1], next |-> pos[k]]
        BY <1>6, <4>1
      <4> QED
        BY <4>2
    <3> QED
      BY <2>1, <3>2, <3>3, <3>4
  <2> HIDE DEF Ok
  <2>4. Ok = Nat
    BY <2>2, <2>3, Induction DEF Ok
  <2>5. ASSUME NEW k \in 1..n
        PROVE  ReadInstruction(bytes, f[k]).value = xs[k]
    <3>1. k - 1 \in Nat /\ (k - 1) + 1 = k /\ k \in 1..(n + 1)
      BY <1>1
    <3>2. k - 1 \in Ok
      BY <2>4, <3>1
    <3>3. f[k] = pos[k]
      BY <3>1, <3>2 DEF Ok
    <3>4. ReadInstruction(bytes, f[k]) = [value |-> xs[k], next |-> pos[k + 1]]
      BY <1>6, <3>3
    <3> QED
      BY <3>4
  <2> QED
    BY <2>5
<1> QED
  BY <1>7, <1>8 DEF n

LEMMA AtThree ==
  ASSUME NEW x, NEW y, NEW z, NEW bytes, NEW i, At(bytes, i, <<x, y, z>>)
  PROVE  bytes[i] = x /\ bytes[i + 1] = y /\ bytes[i + 2] = z
<1> DEFINE s == <<x, y, z>>
<1>1. Len(s) = 3 /\ s[1] = x /\ s[2] = y /\ s[3] = z
  OBVIOUS
<1> HIDE DEF s
<1>2. At(bytes, i, s)
  BY DEF s
<1>3. i \in Nat /\ \A j \in 1..3 : bytes[i + j - 1] = s[j]
  BY <1>1, <1>2 DEF At
<1>4. bytes[i + 1 - 1] = s[1] /\ bytes[i + 2 - 1] = s[2] /\ bytes[i + 3 - 1] = s[3]
  BY <1>3
<1>5. i + 1 - 1 = i /\ i + 2 - 1 = i + 1 /\ i + 3 - 1 = i + 2
  BY <1>3
<1> QED
  BY <1>1, <1>4, <1>5

LEMMA AtItself ==
  ASSUME NEW T, NEW bytes \in Seq(T)
  PROVE  At(bytes, 1, bytes)
<1>1. Len(bytes) \in Nat
  OBVIOUS
<1>2. \A j \in 1..Len(bytes) : 1 + j - 1 = j
  BY <1>1
<1> QED
  BY <1>1, <1>2 DEF At

\* What Deserialize yields, of the parts it has read.
Parts(bytes, signatures, h, keys, n, i) ==
  [signatures   |-> signatures,
   header       |-> [required |-> bytes[h], readOnlySigned |-> bytes[h + 1],
                     readOnlyUnsigned |-> bytes[h + 2]],
   keys         |-> keys,
   instructions |->
     [k \in 1..n |->
        ReadInstruction(bytes, (CHOOSE f : IsStart(f, bytes, i, n))[k]).value]]

IsTransaction(tx) ==
  /\ tx = [signatures |-> tx.signatures, header |-> tx.header, keys |-> tx.keys,
           instructions |-> tx.instructions]
  /\ tx.header = [required         |-> tx.header.required,
                  readOnlySigned   |-> tx.header.readOnlySigned,
                  readOnlyUnsigned |-> tx.header.readOnlyUnsigned]
  /\ {tx.header.required, tx.header.readOnlySigned, tx.header.readOnlyUnsigned}
       \subseteq Nat
  /\ tx.signatures \in Seq(Nat)
  /\ tx.keys \in Seq(Nat)
  /\ tx.instructions \in Seq(Compiled)

\* A transaction is read as it was written.
LEMMA ReadsTransaction ==
  ASSUME NEW tx, IsTransaction(tx)
  PROVE  Deserialize(Serialize(tx)) = tx
<1> DEFINE V == Nat \cup {"recentBlockhash"}
           n == Len(tx.instructions)
           A == WithLength(tx.signatures)
           H == <<tx.header.required, tx.header.readOnlySigned,
                  tx.header.readOnlyUnsigned>>
           K == WithLength(tx.keys)
           B == <<"recentBlockhash">>
           C == Compact[n]
           F == SerializedAll(tx.instructions)
           bytes == ((((A \o H) \o K) \o B) \o C) \o F
<1>1. Serialize(tx) = bytes
  BY DEF Serialize, SerializedAll
<1>2. n \in Nat
  BY DEF IsTransaction
<1>3. A \in Seq(V) /\ K \in Seq(V)
  <2>1. A \in Seq(Nat) /\ K \in Seq(Nat)
    BY WithLengthIsSeq DEF IsTransaction
  <2> HIDE DEF A, K
  <2>2. Nat \subseteq V
    OBVIOUS
  <2> HIDE DEF V
  <2> QED
    BY <2>1, <2>2, SeqOfMore
<1>4. H \in Seq(V) /\ Len(H) = 3 /\ B \in Seq(V) /\ Len(B) = 1
  BY DEF IsTransaction
<1>5. C \in Seq(V)
  <2>1. PICK v : Grouped(C, v, n)
    BY <1>2, CompactIsGrouped
  <2>2. C \in Seq(Nat) /\ Nat \subseteq V
    BY <2>1 DEF Grouped
  <2> HIDE DEF V, C
  <2> QED
    BY <2>2, SeqOfMore
<1>6. F \in Seq(V)
  <2>1. F \in Seq(Nat) /\ Nat \subseteq V
    BY SerializedAllIsSeq DEF IsTransaction
  <2> HIDE DEF F, V
  <2> QED
    BY <2>1, SeqOfMore
<1> DEFINE s2 == A \o H
           s3 == s2 \o K
           s4 == s3 \o B
           s5 == s4 \o C
<1>7. bytes = s5 \o F
  OBVIOUS
<1> HIDE DEF V, A, H, K, B, C, F, bytes
<1>8. s2 \in Seq(V) /\ Len(s2) = Len(A) + Len(H)
  BY <1>3, <1>4, ConcatProperties
<1> HIDE DEF s2
<1>9. s3 \in Seq(V) /\ Len(s3) = Len(s2) + Len(K)
  BY <1>3, <1>8, ConcatProperties
<1> HIDE DEF s3
<1>10. s4 \in Seq(V) /\ Len(s4) = Len(s3) + Len(B)
  BY <1>4, <1>9, ConcatProperties
<1> HIDE DEF s4
<1>11. s5 \in Seq(V) /\ Len(s5) = Len(s4) + Len(C)
  BY <1>5, <1>10, ConcatProperties
<1> HIDE DEF s5
<1>12. bytes \in Seq(V)
  BY <1>6, <1>7, <1>11, ConcatProperties
<1> DEFINE h == 1 + Len(A)
           m == h + 3
           b == m + Len(K)
           i == (b + 1) + Len(C)
<1>13. Len(A) \in Nat /\ Len(K) \in Nat /\ Len(C) \in Nat
  BY <1>3, <1>5
<1>14. /\ Len(s2) + 1 = m /\ Len(s3) + 1 = b /\ Len(s4) + 1 = b + 1
       /\ Len(s5) + 1 = i /\ 1 + Len(A) = h
  BY <1>4, <1>8, <1>9, <1>10, <1>11, <1>13
<1>15. At(bytes, 1, s5) /\ At(bytes, i, F)
  <2>1. At(bytes, 1, s5 \o F)
    BY <1>7, <1>12, AtItself
  <2>2. At(bytes, 1, s5) /\ At(bytes, 1 + Len(s5), F)
    BY <1>6, <1>11, <2>1, AtParts
  <2>3. 1 + Len(s5) = i
    BY <1>11, <1>14
  <2> QED
    BY <2>2, <2>3
<1>16. At(bytes, 1, s4) /\ At(bytes, b + 1, C)
  <2>1. At(bytes, 1, s4 \o C)
    BY <1>15 DEF s5
  <2>2. At(bytes, 1, s4) /\ At(bytes, 1 + Len(s4), C)
    BY <1>5, <1>10, <2>1, AtParts
  <2>3. 1 + Len(s4) = b + 1
    BY <1>10, <1>14
  <2> QED
    BY <2>2, <2>3
<1>17. At(bytes, 1, s3)
  <2>1. At(bytes, 1, s3 \o B)
    BY <1>16 DEF s4
  <2> QED
    BY <1>4, <1>9, <2>1, AtParts
<1>18. At(bytes, 1, s2) /\ At(bytes, m, K)
  <2>1. At(bytes, 1, s2 \o K)
    BY <1>17 DEF s3
  <2>2. At(bytes, 1, s2) /\ At(bytes, 1 + Len(s2), K)
    BY <1>3, <1>8, <2>1, AtParts
  <2>3. 1 + Len(s2) = m
    BY <1>8, <1>14
  <2> QED
    BY <2>2, <2>3
<1>19. At(bytes, 1, A) /\ At(bytes, h, H)
  <2>1. At(bytes, 1, A \o H)
    BY <1>18 DEF s2
  <2> QED
    BY <1>3, <1>4, <2>1, AtParts
<1> HIDE DEF h, m, b, i
<1>20. ReadSeq(bytes, 1) = [value |-> tx.signatures, next |-> h]
  <2>1. tx.signatures \in Seq(Nat)
    BY DEF IsTransaction
  <2> QED
    BY <1>12, <1>19, <2>1, ReadsSeq DEF A, h
<1>21. /\ bytes[h] = tx.header.required
       /\ bytes[h + 1] = tx.header.readOnlySigned
       /\ bytes[h + 2] = tx.header.readOnlyUnsigned
  BY <1>19, AtThree DEF H
<1>22. ReadSeq(bytes, m) = [value |-> tx.keys, next |-> b]
  <2>1. tx.keys \in Seq(Nat)
    BY DEF IsTransaction
  <2> QED
    BY <1>12, <1>18, <2>1, ReadsSeq DEF K, b
<1>23. ReadCompact(bytes, b + 1) = [value |-> n, next |-> i]
  BY <1>2, <1>16, ReadsNumber DEF C, i
<1>24. Deserialize(bytes) = Parts(bytes, tx.signatures, h, tx.keys, n, i)
  <2> DEFINE r1 == ReadSeq(bytes, 1)
             r2 == ReadSeq(bytes, r1.next + 3)
             r3 == ReadCompact(bytes, r2.next + 1)
  <2>1. Deserialize(bytes)
          = Parts(bytes, r1.value, r1.next, r2.value, r3.value, r3.next)
    BY DEF Deserialize, Parts, IsStart
  <2>2. r1.value = tx.signatures /\ r1.next = h
    BY <1>20
  <2>3. r2.value = tx.keys /\ r2.next = b
    BY <1>22, <2>2 DEF m
  <2> HIDE DEF r1, r2
  <2>4. r3.value = n /\ r3.next = i
    BY <1>23, <2>3
  <2> HIDE DEF r3
  <2> QED
    BY <2>1, <2>2, <2>3, <2>4
<1> DEFINE f == CHOOSE f : IsStart(f, bytes, i, n)
           xs == tx.instructions
<1>25. /\ xs \in Seq(Compiled) /\ n = Len(xs)
       /\ \A k \in 1..n : ReadInstruction(bytes, f[k]).value = xs[k]
  <2>1. xs \in Seq(Compiled) /\ n = Len(xs)
    BY DEF IsTransaction
  <2> HIDE DEF xs, n
  <2>2. /\ \E g : IsStart(g, bytes, i, n)
        /\ \A g : IsStart(g, bytes, i, n) =>
             \A k \in 1..n : ReadInstruction(bytes, g[k]).value = xs[k]
    <3>1. At(bytes, i, SerializedAll(xs))
      BY <1>15 DEF F, xs
    <3> QED
      BY <1>12, <2>1, <3>1, ReadsInstructions
  <2>3. IsStart(f, bytes, i, n)
    BY <2>2
  <2> HIDE DEF f
  <2> QED
    BY <2>1, <2>2, <2>3
<1>26. Parts(bytes, tx.signatures, h, tx.keys, n, i)
         = [signatures   |-> tx.signatures,
            header       |-> [required         |-> bytes[h],
                              readOnlySigned   |-> bytes[h + 1],
                              readOnlyUnsigned |-> bytes[h + 2]],
            keys         |-> tx.keys,
            instructions |-> [k \in 1..n |-> ReadInstruction(bytes, f[k]).value]]
  BY DEF Parts
<1>27. [k \in 1..n |-> ReadInstruction(bytes, f[k]).value] = xs
  <2> HIDE DEF f, xs, n
  <2>1. xs = [k \in 1..n |-> xs[k]]
    BY <1>25
  <2> QED
    BY <1>25, <2>1
<1> HIDE DEF f, n
<1> QED
  BY <1>1, <1>21, <1>24, <1>26, <1>27 DEF IsTransaction

LEMMA MessageIsTransaction ==
  ASSUME BuilderTypeOK, HasBuilt
  PROVE  IsTransaction(Message)
<1> DEFINE xs == Message.instructions
           keys == Message.keys
<1>1. /\ built.payer \in Nat /\ Asked \in Seq(Instruction)
      /\ \A j \in DOMAIN Asked : /\ Asked[j].data \in Seq(Nat)
                                 /\ Asked[j].accounts \in Seq(AccountMeta)
  <2>1. built.payer \in Wallet /\ Asked \in Seq(Instruction)
    BY DEF BuilderTypeOK, HasBuilt, Asked
  <2>2. Wallet \subseteq Nat
    BY MessageAssumption
  <2>3. \A x \in Instruction : x.data \in Seq(Nat) /\ x.accounts \in Seq(AccountMeta)
    BY MessageAssumption
  <2>4. \A j \in DOMAIN Asked : Asked[j] \in Instruction
    BY <2>1
  <2> QED
    BY <2>1, <2>2, <2>3, <2>4
<1>2. keys \in Seq(Nat)
  BY KeyList
<1>3. \A k \in DOMAIN Map : IndexOf(keys, k) \in Nat
  <2> TAKE k \in DOMAIN Map
  <2>1. (CHOOSE j \in DOMAIN keys : keys[j] = k) \in DOMAIN keys
    BY KeyList DEF ToSet
  <2>2. (CHOOSE j \in DOMAIN keys : keys[j] = k) - 1 \in Nat
    BY <1>2, <2>1
  <2>3. ByteValues \in Nat \ {0}
    BY MessageAssumption
  <2> QED
    BY <2>2, <2>3 DEF IndexOf, Byte
<1>4. ASSUME NEW j \in DOMAIN Asked
      PROVE  Compile(keys, Asked[j]) \in Compiled
  <2> DEFINE x == Asked[j]
  <2>1. x.program \in DOMAIN Map /\ \A a \in DOMAIN x.accounts : x.accounts[a].key \in DOMAIN Map
    BY Roles
  <2>2. x.data \in Seq(Nat) /\ x.accounts \in Seq(AccountMeta)
    BY <1>1
  <2> HIDE DEF x, keys
  <2>3. IndexOf(keys, x.program) \in Nat
    BY <1>3, <2>1
  <2>4. \A a \in DOMAIN x.accounts : IndexOf(keys, x.accounts[a].key) \in Nat
    BY <1>3, <2>1
  <2>5. [a \in DOMAIN x.accounts |-> IndexOf(keys, x.accounts[a].key)] \in Seq(Nat)
    <3>1. DOMAIN x.accounts = 1..Len(x.accounts) /\ Len(x.accounts) \in Nat
      BY <2>2
    <3> QED
      BY <2>4, <3>1
  <2> QED
    BY <2>2, <2>3, <2>5 DEF Compile, Compiled, x
<1>5. xs \in Seq(Compiled)
  <2>1. xs = [j \in DOMAIN Asked |-> Compile(keys, Asked[j])]
    BY DEF Message, Build, Asked
  <2>2. DOMAIN Asked = 1..Len(Asked) /\ Len(Asked) \in Nat
    BY <1>1
  <2> HIDE DEF xs, keys
  <2> QED
    BY <1>4, <2>1, <2>2
<1>6. Message.signatures \in Seq(Nat)
  BY <1>1, MessageParts
<1>7. /\ Byte(Count(Map, TRUE, TRUE) + Count(Map, TRUE, FALSE)) \in Nat
      /\ Byte(Count(Map, TRUE, FALSE)) \in Nat
      /\ Byte(Count(Map, FALSE, FALSE)) \in Nat
  <2>1. IsFiniteSet(DOMAIN Map)
    BY Roles
  <2>2. ASSUME NEW signer, NEW writable
        PROVE  Count(Map, signer, writable) \in Nat
    <3> DEFINE S == {k \in DOMAIN Map : Map[k].signer = signer
                                        /\ Map[k].writable = writable}
    <3>1. IsFiniteSet(S)
      BY <2>1, FS_Subset
    <3> QED
      BY <3>1, FS_CardinalityType DEF Count
  <2>3. ByteValues \in Nat \ {0}
    BY MessageAssumption
  <2>4. \A c \in Nat : Byte(c) \in Nat
    BY <2>3 DEF Byte
  <2>5. Count(Map, TRUE, TRUE) \in Nat /\ Count(Map, TRUE, FALSE) \in Nat
        /\ Count(Map, FALSE, FALSE) \in Nat
    BY <2>2
  <2> DEFINE all == Count(Map, TRUE, TRUE)
             signed == Count(Map, TRUE, FALSE)
             unsigned == Count(Map, FALSE, FALSE)
  <2> HIDE DEF all, signed, unsigned
  <2>6. all \in Nat /\ signed \in Nat /\ unsigned \in Nat /\ all + signed \in Nat
    <3>1. all \in Nat /\ signed \in Nat /\ unsigned \in Nat
      BY <2>5 DEF all, signed, unsigned
    <3> QED
      BY ONLY <3>1
  <2>7. Byte(all + signed) \in Nat /\ Byte(signed) \in Nat /\ Byte(unsigned) \in Nat
    BY <2>4, <2>6
  <2> QED
    BY <2>7 DEF all, signed, unsigned
<1>8. Message.header = Header(Map)
  BY MessageParts
<1>9. {Message.header.required, Message.header.readOnlySigned,
       Message.header.readOnlyUnsigned} \subseteq Nat
  <2>1. /\ Message.header.required = Byte(Count(Map, TRUE, TRUE) + Count(Map, TRUE, FALSE))
        /\ Message.header.readOnlySigned = Byte(Count(Map, TRUE, FALSE))
        /\ Message.header.readOnlyUnsigned = Byte(Count(Map, FALSE, FALSE))
    BY <1>8 DEF Header
  <2> QED
    BY <1>7, <2>1
<1>10. Message = [signatures |-> Message.signatures, header |-> Message.header,
                  keys |-> Message.keys, instructions |-> Message.instructions]
  BY DEF Message, Build
<1>11. Message.header = [required         |-> Message.header.required,
                         readOnlySigned   |-> Message.header.readOnlySigned,
                         readOnlyUnsigned |-> Message.header.readOnlyUnsigned]
  BY <1>8 DEF Header
<1> QED
  BY <1>2, <1>5, <1>6, <1>9, <1>10, <1>11 DEF IsTransaction

\* What the network reads is what build() and sign() made, for any instructions
\* and any width of the groups that lengths are written in.
THEOREM BytesAreRead == Spec => []WireRoundTrip
<1>1. BuilderTypeOK => WireRoundTrip
  BY MessageIsTransaction, ReadsTransaction DEF WireRoundTrip
<1> QED
  BY <1>1, BuilderTypes, PTL
=============================================================================
