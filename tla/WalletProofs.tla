---------------------------- MODULE WalletProofs ----------------------------
(***************************************************************************)
(* The safety of the wallets and of the addresses of one.  For any number  *)
(* of wallets, names, keys and addresses: forms, failing statements and    *)
(* kills in any order leave wallets that have an address and distinct      *)
(* names (WalletStore).  For any number of addresses: the list that the    *)
(* update form shows follows the table, and no index is derived twice      *)
(* (AddressBook).                                                          *)
(***************************************************************************)
EXTENDS WalletStore, AddressBook, FiniteSetTheorems, SequenceTheorems,
        FunctionTheorems, WellFoundedInduction, TLAPS

-----------------------------------------------------------------------------
\* The wallets.

USE StoreAssumption

\* One form is open at a time; what it holds agrees with the tables.  The
\* hash of an update form is its name's, or one that the unique index would
\* refuse: that is what keeps NamesAreDistinct when a refused name leaves
\* its hash behind.
FormsAgree ==
  /\ creating # None =>
       /\ record = None /\ removing = None
       /\ creating.id \notin used
       /\ creating.row.hash = creating.row.name
       /\ ~HaveName(creating.row.hash)
       /\ creating.row.key # Random => ~HaveMnemonic(creating.row.key)
  /\ record # None =>
       /\ removing = None
       /\ record.name = wallets[record.id].name
       /\ record.hash = record.name \/ HitsIndex(record.hash)
  /\ removing # None => removing \in confirmed

Inv ==
  /\ TypeOK
  /\ FormsAgree
  /\ EveryWalletHasAnAddress
  /\ NamesAreDistinct
  /\ KeysAreDistinct

LEMMA InitInv == Init => Inv
  BY DEF Init, Inv, TypeOK, FormsAgree, EveryWalletHasAnAddress,
         NamesAreDistinct, KeysAreDistinct, Stored

\* The names, keys and forms do not change when the tables do not.
tables == <<wallets, used>>

LEMMA SameTables ==
  ASSUME Inv, tables' = tables
  PROVE  NamesAreDistinct' /\ KeysAreDistinct' /\ Stored' = Stored
  BY DEF tables, Inv, NamesAreDistinct, KeysAreDistinct, Stored

LEMMA BeginInv ==
  ASSUME Inv, NEW w \in Wallet, NEW n \in Name, NEW k \in Key \cup {Random},
         NEW size \in 1..MaxRows, Begin(w, n, k, size)
  PROVE  Inv'
<1>1. tables' = tables
  BY DEF Begin, tables
<1>2. 0 \in 0..MaxRows + 1
  OBVIOUS
<1>3. TypeOK'
  BY <1>2, SameTables, <1>1 DEF Begin, Ready, Inv, TypeOK, Transaction, Row
<1>4. creating'.row = [name |-> n, hash |-> n, key |-> k] /\ creating'.id = w
  BY DEF Begin
<1>5. FormsAgree'
  BY <1>4 DEF Begin, Ready, Inv, FormsAgree, HaveName, HaveMnemonic, Stored
<1>6. EveryWalletHasAnAddress'
  BY DEF Begin, Inv, EveryWalletHasAnAddress, RowsOf, Stored
<1> QED
  BY <1>1, <1>3, <1>5, <1>6, SameTables DEF Inv

LEMMA InsertInv ==
  ASSUME Inv, Insert \/ InsertFails
  PROVE  Inv'
<1>1. tables' = tables
  BY DEF Insert, InsertFails, tables
<1>2. CASE Insert
  <2>1. creating' \in Transaction
    <3>1. creating \in Transaction
      BY <1>2 DEF Insert, Inv, TypeOK
    <3>2. creating.done + 1 \in 0..MaxRows + 1
      BY <1>2, <3>1 DEF Insert, Transaction
    <3> QED
      BY <1>2, <3>1, <3>2 DEF Insert, Transaction
  <2>2. creating'.id = creating.id /\ creating'.row = creating.row
    BY <1>2 DEF Insert, Inv, TypeOK, Transaction
  <2>3. TypeOK'
    BY <1>2, <2>1 DEF Insert, Inv, TypeOK, Stored
  <2>4. FormsAgree'
    BY <1>2, <2>2 DEF Insert, Inv, FormsAgree, HaveName, HaveMnemonic, Stored
  <2>5. EveryWalletHasAnAddress'
    BY <1>2 DEF Insert, Inv, EveryWalletHasAnAddress, RowsOf, Stored
  <2> QED
    BY <1>1, <2>3, <2>4, <2>5, SameTables DEF Inv
<1>3. CASE InsertFails
  <2>1. TypeOK'
    BY <1>3 DEF InsertFails, Inv, TypeOK, Stored
  <2>2. FormsAgree' /\ EveryWalletHasAnAddress'
    BY <1>3 DEF InsertFails, Inv, FormsAgree, HitsIndex, Stored,
                EveryWalletHasAnAddress, RowsOf
  <2> QED
    BY <1>1, <2>1, <2>2, SameTables DEF Inv
<1> QED
  BY <1>2, <1>3

LEMMA CommitInv ==
  ASSUME Inv, Commit
  PROVE  Inv'
<1>1. creating \in Transaction /\ creating.id \in Wallet /\ creating.row \in Row
        /\ creating.size \in 1..MaxRows /\ creating.id \notin Stored
  BY DEF Commit, Inv, TypeOK, Transaction, FormsAgree
<1>2. Stored' = Stored \cup {creating.id}
  BY DEF Commit, Stored
<1>3. \A w \in Stored' : wallets'[w] = IF w = creating.id THEN creating.row
                                       ELSE wallets[w]
  BY <1>2 DEF Commit
<1>4. TypeOK'
  <2>1. wallets' \in [Stored' -> Row]
    BY <1>1, <1>2 DEF Commit, Inv, TypeOK
  <2>2. rows' \subseteq Wallet \X (1..MaxRows)
    BY <1>1 DEF Commit, Inv, TypeOK
  <2>3. creating' = None /\ record' = None /\ removing' = None
    BY DEF Commit, Inv, FormsAgree
  <2> QED
    BY <1>1, <1>2, <2>1, <2>2, <2>3 DEF Commit, Inv, TypeOK
<1>5. FormsAgree'
  BY DEF Commit, Inv, FormsAgree
<1>6. EveryWalletHasAnAddress'
  <2>1. <<creating.id, 1>> \in rows' /\ 1 \in 1..MaxRows
    BY <1>1 DEF Commit
  <2>2. \A w \in Stored : RowsOf(w) \subseteq RowsOf(w)'
    BY DEF Commit, RowsOf
  <2>3. ASSUME NEW w \in Stored' \ confirmed'
        PROVE  RowsOf(w)' # {}
    <3>1. CASE w \in Stored
      BY <3>1, <2>2 DEF Commit, Inv, EveryWalletHasAnAddress
    <3>2. CASE w = creating.id
      BY <3>2, <2>1 DEF RowsOf
    <3> QED
      BY <1>2, <2>3, <3>1, <3>2
  <2> QED
    BY <2>3 DEF EveryWalletHasAnAddress
<1>7. NamesAreDistinct'
  BY <1>1, <1>2, <1>3 DEF Commit, Inv, FormsAgree, NamesAreDistinct, HaveName
<1>8. KeysAreDistinct'
  BY <1>1, <1>2, <1>3 DEF Commit, Inv, FormsAgree, KeysAreDistinct, HaveMnemonic
<1> QED
  BY <1>4, <1>5, <1>6, <1>7, <1>8 DEF Inv

LEMMA SaveInv ==
  ASSUME Inv, NEW n \in Name, Save(n)
  PROVE  Inv'
<1>1. record.id \in Stored /\ record.hash \in Name
  BY DEF Save, Inv, TypeOK
<1>2. HashToWrite(n) = n
  BY DEF Save, HashToWrite, Inv, FormsAgree
<1>3. \A w \in Stored \ {record.id} : wallets[w].hash # n
  BY <1>2 DEF Save, HitsIndex
<1>4. Stored' = Stored
  BY <1>1 DEF Save, Write, Stored, Inv, TypeOK
<1>5. \A w \in Stored :
        /\ wallets'[w] \in Row
        /\ wallets'[w].key = wallets[w].key
        /\ w = record.id => wallets'[w].name = n /\ wallets'[w].hash = n
        /\ w # record.id => wallets'[w] = wallets[w]
  BY <1>1, <1>2 DEF Save, Write, Inv, TypeOK, Row
<1>6. TypeOK'
  <2>1. wallets' \in [Stored' -> Row]
    BY <1>1, <1>2 DEF Save, Write, Inv, TypeOK, Row, Stored
  <2> QED
    BY <1>4, <2>1 DEF Save, Inv, TypeOK
<1>7. FormsAgree'
  <2>1. creating = None /\ removing = None
    BY DEF Save, Inv, FormsAgree
  <2> QED
    BY <2>1 DEF Save, FormsAgree
<1>8. EveryWalletHasAnAddress'
  BY <1>4 DEF Save, Inv, EveryWalletHasAnAddress, RowsOf
<1>9. NamesAreDistinct'
  BY <1>3, <1>4, <1>5 DEF Inv, NamesAreDistinct
<1>10. KeysAreDistinct'
  BY <1>4, <1>5 DEF Inv, KeysAreDistinct
<1> QED
  BY <1>6, <1>7, <1>8, <1>9, <1>10 DEF Inv

\* The steps of an update form that write no wallet.
LEMMA FormInv ==
  ASSUME Inv,
         \/ \E w \in Wallet : OpenForm(w)
         \/ CloseForm
         \/ \E n \in Name : RefuseName(n)
         \/ \E n \in Name : SaveThrows(n)
  PROVE  Inv'
<1>1. EveryWalletHasAnAddress' /\ tables' = tables
  BY DEF OpenForm, CloseForm, RefuseName, SaveThrows, tables, Inv,
         EveryWalletHasAnAddress, RowsOf, Stored
<1>2. CASE \E w \in Wallet : OpenForm(w)
  <2>1. PICK w \in Wallet : OpenForm(w)
    BY <1>2
  <2>2. wallets[w] \in Row /\ wallets[w].hash = wallets[w].name
    BY <2>1 DEF OpenForm, Inv, TypeOK, NamesAreDistinct
  <2>3. TypeOK'
    BY <2>1, <2>2 DEF OpenForm, Ready, Inv, TypeOK, Stored, Row
  <2>4. FormsAgree'
    BY <2>1, <2>2 DEF OpenForm, Ready, Inv, FormsAgree
  <2> QED
    BY <1>1, <2>3, <2>4, SameTables DEF Inv
<1>3. CASE CloseForm
  <2>1. TypeOK' /\ FormsAgree'
    BY <1>3 DEF CloseForm, Inv, TypeOK, FormsAgree, Stored
  <2> QED
    BY <1>1, <2>1, SameTables DEF Inv
<1>4. CASE \E n \in Name : RefuseName(n)
  <2>1. PICK n \in Name : RefuseName(n)
    BY <1>4
  <2>2. record \in [id : Stored, name : Name, hash : Name]
    BY <2>1 DEF RefuseName, Inv, TypeOK
  <2>3. record' = [id |-> record.id, name |-> record.name, hash |-> n]
    BY <2>1, <2>2 DEF RefuseName
  <2>4. TypeOK'
    BY <2>1, <2>2, <2>3 DEF RefuseName, Inv, TypeOK, Stored
  <2>5. \E w \in Stored \ {record.id} : wallets[w].hash = n
    BY <2>1, <2>2 DEF RefuseName, HaveName, Inv, FormsAgree, NamesAreDistinct
  <2>6. FormsAgree'
    BY <2>1, <2>3, <2>5 DEF RefuseName, Inv, FormsAgree, HitsIndex, Stored
  <2> QED
    BY <1>1, <2>4, <2>6, SameTables DEF Inv
<1>5. CASE \E n \in Name : SaveThrows(n)
  <2>1. TypeOK' /\ FormsAgree'
    BY <1>5 DEF SaveThrows, Inv, TypeOK, FormsAgree, Stored
  <2> QED
    BY <1>1, <2>1, SameTables DEF Inv
<1> QED
  BY <1>2, <1>3, <1>4, <1>5

\* The steps that write the address table alone.
LEMMA AddressInv ==
  ASSUME Inv, NEW n \in 1..MaxRows, AddAddress(n) \/ DelAddress(n)
  PROVE  Inv'
<1>1. tables' = tables /\ confirmed' = confirmed
  BY DEF AddAddress, DelAddress, tables
<1>2. record.id \in Stored /\ record.id \in Wallet
  BY DEF AddAddress, DelAddress, Inv, TypeOK
<1>3. TypeOK'
  BY <1>2 DEF AddAddress, DelAddress, Inv, TypeOK, Stored
<1>4. FormsAgree'
  BY DEF AddAddress, DelAddress, Inv, FormsAgree, HitsIndex, Stored
<1>5. ASSUME NEW w \in Stored \ confirmed
      PROVE  RowsOf(w)' # {}
  <2>1. PICK m \in RowsOf(w) : TRUE
    BY DEF Inv, EveryWalletHasAnAddress
  <2>2. CASE AddAddress(n)
    BY <2>1, <2>2 DEF AddAddress, RowsOf
  <2>3. CASE DelAddress(n) /\ w # record.id
    BY <2>1, <2>3 DEF DelAddress, RowsOf
  <2>4. CASE DelAddress(n) /\ w = record.id
    <3>1. PICK first \in RowsOf(w) : ~(n <= first)
      BY <2>4 DEF DelAddress, IsFirst
    <3>2. first # n /\ first \in 1..MaxRows /\ <<w, first>> \in rows
      BY <3>1 DEF RowsOf
    <3> QED
      BY <2>4, <3>2 DEF DelAddress, RowsOf
  <2> QED
    BY <2>2, <2>3, <2>4
<1>6. EveryWalletHasAnAddress'
  BY <1>1, <1>5, SameTables DEF EveryWalletHasAnAddress
<1> QED
  BY <1>1, <1>3, <1>4, <1>6, SameTables DEF Inv

\* Both statements of a removal.
LEMMA RemoveInv ==
  ASSUME Inv, (\E w \in Wallet : RemoveAddresses(w)) \/ RemoveWallet
  PROVE  Inv'
<1>1. CASE \E w \in Wallet : RemoveAddresses(w)
  <2>1. PICK w \in Wallet : RemoveAddresses(w)
    BY <1>1
  <2>2. tables' = tables
    BY <2>1 DEF RemoveAddresses, tables
  <2>3. TypeOK'
    BY <2>1, <2>2, SameTables DEF RemoveAddresses, Ready, Inv, TypeOK, Stored
  <2>4. FormsAgree'
    BY <2>1 DEF RemoveAddresses, Ready, Inv, FormsAgree
  <2>5. EveryWalletHasAnAddress'
    <3>1. SUFFICES ASSUME NEW v \in Stored \ confirmed'
                   PROVE  RowsOf(v)' # {}
      BY <2>2, SameTables DEF EveryWalletHasAnAddress
    <3>2. v # w /\ v \notin confirmed
      BY <2>1 DEF RemoveAddresses
    <3> QED
      BY <2>1, <3>2 DEF RemoveAddresses, Inv, EveryWalletHasAnAddress, RowsOf
  <2> QED
    BY <2>2, <2>3, <2>4, <2>5, SameTables DEF Inv
<1>2. CASE RemoveWallet
  <2>1. Stored' = Stored \ {removing}
        /\ (\A w \in Stored' : wallets'[w] = wallets[w])
    BY <1>2 DEF RemoveWallet, Stored
  <2>2. removing # None /\ creating = None /\ record = None
    BY <1>2 DEF RemoveWallet, Inv, FormsAgree
  <2>3. TypeOK'
    <3>1. wallets' \in [Stored' -> Row]
      BY <1>2, <2>1 DEF RemoveWallet, Inv, TypeOK
    <3> QED
      BY <1>2, <2>1, <2>2, <3>1 DEF RemoveWallet, Inv, TypeOK
  <2>4. FormsAgree'
    BY <1>2, <2>2 DEF RemoveWallet, FormsAgree
  <2>5. EveryWalletHasAnAddress'
    BY <1>2, <2>1 DEF RemoveWallet, Inv, EveryWalletHasAnAddress, RowsOf
  <2>6. NamesAreDistinct' /\ KeysAreDistinct'
    BY <2>1 DEF Inv, NamesAreDistinct, KeysAreDistinct
  <2> QED
    BY <2>3, <2>4, <2>5, <2>6 DEF Inv
<1> QED
  BY <1>1, <1>2

\* A death, a restart, or nothing.
LEMMA ProcessInv ==
  ASSUME Inv, Die \/ Restart \/ UNCHANGED vars
  PROVE  Inv'
<1>1. tables' = tables
  BY DEF Die, Restart, vars, tables
<1>2. TypeOK'
  BY DEF Die, Restart, vars, Inv, TypeOK, Stored
<1>3. FormsAgree'
  BY DEF Die, Restart, vars, Inv, FormsAgree, HitsIndex, HaveName, HaveMnemonic, Stored
<1>4. EveryWalletHasAnAddress'
  BY DEF Die, Restart, vars, Inv, EveryWalletHasAnAddress, RowsOf, Stored
<1> QED
  BY <1>1, <1>2, <1>3, <1>4, SameTables DEF Inv

LEMMA NextInv ==
  ASSUME Inv, [Next]_vars
  PROVE  Inv'
BY BeginInv, InsertInv, CommitInv, SaveInv, FormInv, AddressInv, RemoveInv,
   ProcessInv DEF Next, Create, Update, Delete

LEMMA InvAlways == Spec => []Inv
BY InitInv, NextInv, PTL DEF Spec

\* The tables, the forms and the process are what the code can hold.
THEOREM TypeCorrect == Spec => []TypeOK
<1>1. Inv => TypeOK
  BY DEF Inv
<1> QED
  BY <1>1, InvAlways, PTL

\* A wallet is created with its addresses or not at all, and loses the last
\* one only after its own deletion was confirmed.
THEOREM AlwaysAnAddress == Spec => []EveryWalletHasAnAddress
<1>1. Inv => EveryWalletHasAnAddress
  BY DEF Inv
<1> QED
  BY <1>1, InvAlways, PTL

\* haveName before each write and the unique index keep the names apart, and
\* the hash in the row is the name's even after a refusal.
THEOREM AlwaysDistinctNames == Spec => []NamesAreDistinct
<1>1. Inv => NamesAreDistinct
  BY DEF Inv
<1> QED
  BY <1>1, InvAlways, PTL

\* haveMnemonic before the transaction keeps a key from being in two wallets.
THEOREM AlwaysDistinctKeys == Spec => []KeysAreDistinct
<1>1. Inv => KeysAreDistinct
  BY DEF Inv
<1> QED
  BY <1>1, InvAlways, PTL

\* No step takes a wallet away, or its key, before the user confirmed it.
THEOREM NeverLost == Spec => OnlyConfirmedGo
<1>1. ASSUME Inv, [Next]_vars, NEW w \in Stored
      PROVE  w \in confirmed' \/ (w \in Stored' /\ wallets'[w].key = wallets[w].key)
  <2>1. CASE Commit
    <3>1. w # creating.id
      BY <1>1, <2>1 DEF Commit, Inv, TypeOK, FormsAgree
    <3> QED
      BY <2>1, <3>1 DEF Commit, Stored
  <2>2. CASE \E n \in Name : Save(n)
    <3>1. PICK n \in Name : Save(n)
      BY <2>2
    <3>2. wallets \in [Stored -> Row]
      BY <1>1 DEF Inv, TypeOK
    <3> QED
      BY <3>1, <3>2 DEF Save, Write, Stored, Row
  <2>3. CASE RemoveWallet
    BY <1>1, <2>3 DEF RemoveWallet, Inv, FormsAgree, Stored
  <2>4. CASE wallets' = wallets
    BY <2>4 DEF Stored
  <2> QED
    BY <1>1, <2>1, <2>2, <2>3, <2>4
       DEF Next, vars, Create, Update, Delete, Begin, Insert, InsertFails, OpenForm,
           CloseForm, RefuseName, SaveThrows, AddAddress, DelAddress,
           RemoveAddresses, Die, Restart
<1>2. Inv /\ [Next]_vars => [\A w \in Stored : w \in confirmed'
          \/ (w \in Stored' /\ wallets'[w].key = wallets[w].key)]_vars
  BY <1>1
<1> QED
  BY <1>2, InvAlways, PTL DEF Spec, OnlyConfirmedGo
-----------------------------------------------------------------------------
\* The addresses of a wallet.

HIDE StoreAssumption
USE BookAssumption

\* The indices of some addresses.
Indices(A) == {a.index : a \in A}

\* While a form is open, its list v has every row of the table b, the first of
\* the list is the first of the table, and nothing else in it, or in what the
\* dialog added, d, has that row's id: not even what a failed transaction left.
Shows(b, v, d) ==
  /\ Range(b) \subseteq Range(v)
  /\ v # <<>> /\ v[1] = b[1]
  /\ \A i \in 2..Len(v) : v[i].id > b[1].id
  /\ \A i \in 1..Len(d) : d[i].id > b[1].id

Opened == form # "closed" => Shows(book, view, added)

\* The form of a mnemonic's wallet shows the table as it is, and its manager
\* knows which indices are in use.
Plain ==
  ~smart =>
    /\ form # "dialog"
    /\ form = "update" =>
         /\ view = book
         /\ Indices(manager) = Indices(Range(book))

BookInv ==
  /\ BookTypeOK
  /\ book # <<>>
  /\ Opened
  /\ Plain
  /\ IndicesAreUnique

\* Every set of numbers has a least one.
LEMMA Least ==
  ASSUME NEW T \in SUBSET Nat, T # {}
  PROVE  \E m \in T : \A n \in T : m <= n
<1> DEFINE R == OpToRel(<, Nat)
<1>1. IsWellFoundedOn(R, Nat)
  BY NatLessThanWellFounded
<1>2. \A x, y \in Nat : <<y, x>> \in R <=> y < x
  BY DEF OpToRel
<1> HIDE DEF R
<1>3. PICK m \in T : \A n \in T : ~ (<<n, m>> \in R)
  BY <1>1, WFMin
<1>4. ASSUME NEW n \in T
      PROVE  m <= n
  <2>1. m \in Nat /\ n \in Nat
    OBVIOUS
  <2>2. ~ (n < m)
    BY <1>2, <1>3, <2>1
  <2> QED
    BY ONLY <2>1, <2>2
<1> QED
  BY ONLY <1>4, m \in T

\* Min finds it.
LEMMA MinIsLeast ==
  ASSUME NEW T \in SUBSET Nat, T # {}
  PROVE  Min(T) \in T /\ \A n \in T : Min(T) <= n
<1>1. PICK m \in T : \A n \in T : m <= n
  BY Least
<1> QED
  BY <1>1 DEF Min

\* Position finds the first row with an id.
LEMMA PositionFacts ==
  ASSUME NEW S, NEW s \in Seq(S), NEW id
  PROVE  /\ Position(s, id) \in 0..Len(s)
         /\ Position(s, id) = 0 => \A k \in 1..Len(s) : s[k].id # id
         /\ Position(s, id) # 0 =>
              /\ s[Position(s, id)].id = id
              /\ \A k \in 1..(Position(s, id) - 1) : s[k].id # id
<1> DEFINE I == {k \in 1..Len(s) : s[k].id = id}
<1>1. Position(s, id) = IF I # {} THEN Min(I) ELSE 0
  BY DEF Position, SelectInSeq
<1>2. Len(s) \in Nat /\ I \in SUBSET Nat
  OBVIOUS
<1>3. CASE I = {}
  BY <1>1, <1>2, <1>3
<1>4. CASE I # {}
  <2>1. Min(I) \in I /\ \A n \in I : Min(I) <= n
    BY <1>2, <1>4, MinIsLeast
  <2>2. PICK m : m = Min(I)
    OBVIOUS
  <2>3. ASSUME NEW k \in 1..(m - 1)
        PROVE  s[k].id # id
    BY <1>2, <2>1, <2>2
  <2> QED
    BY <1>1, <1>2, <1>4, <2>1, <2>2, <2>3
<1> QED
  BY <1>3, <1>4

\* What is left of a sequence when its i-th element is taken out.
LEMMA RemoveAtFacts ==
  ASSUME NEW S, NEW s \in Seq(S), NEW i \in 1..Len(s)
  PROVE  /\ RemoveAt(s, i) \in Seq(S)
         /\ Len(RemoveAt(s, i)) = Len(s) - 1
         /\ \A k \in 1..(Len(s) - 1) :
              RemoveAt(s, i)[k] = IF k < i THEN s[k] ELSE s[k + 1]
<1> DEFINE a == SubSeq(s, 1, i - 1)
           b == SubSeq(s, i + 1, Len(s))
<1>1. Len(s) \in Nat /\ i \in Nat /\ i > 0 /\ i <= Len(s) /\ \A k \in 1..Len(s) : s[k] \in S
  OBVIOUS
<1>2. /\ a \in Seq(S) /\ Len(a) = i - 1
      /\ \A k \in 1..(i - 1) : a[k] = s[k]
  <2>1. \A k \in 1..(i - 1) : s[k] \in S
    BY <1>1
  <2>2. /\ a \in Seq(S) /\ Len(a) = IF 1 <= i - 1 THEN (i - 1) - 1 + 1 ELSE 0
        /\ \A k \in 1..((i - 1) - 1 + 1) : a[k] = s[1 + k - 1]
    BY ONLY <1>1, <2>1, SubSeqProperties, 1 \in Int, i - 1 \in Int
  <2> HIDE DEF a
  <2> QED
    BY <1>1, <2>2
<1>3. /\ b \in Seq(S) /\ Len(b) = Len(s) - i
      /\ \A k \in 1..(Len(s) - i) : b[k] = s[i + k]
  <2>1. \A k \in (i + 1)..Len(s) : s[k] \in S
    BY <1>1
  <2>2. /\ b \in Seq(S) /\ Len(b) = IF i + 1 <= Len(s) THEN Len(s) - (i + 1) + 1 ELSE 0
        /\ \A k \in 1..(Len(s) - (i + 1) + 1) : b[k] = s[(i + 1) + k - 1]
    BY ONLY <1>1, <2>1, SubSeqProperties, i + 1 \in Int, Len(s) \in Int
  <2> HIDE DEF b
  <2>3. ASSUME NEW k \in 1..(Len(s) - i)
        PROVE  b[k] = s[i + k]
    <3>1. k \in 1..(Len(s) - (i + 1) + 1) /\ (i + 1) + k - 1 = i + k
      BY <1>1
    <3> QED
      BY <2>2, <3>1
  <2> QED
    BY <1>1, <2>2, <2>3
<1> HIDE DEF a, b
<1>4. /\ a \o b \in Seq(S) /\ Len(a \o b) = Len(a) + Len(b)
      /\ \A k \in 1..(Len(a) + Len(b)) :
           (a \o b)[k] = IF k <= Len(a) THEN a[k] ELSE b[k - Len(a)]
  BY <1>2, <1>3, ConcatProperties
<1>5. ASSUME NEW k \in 1..(Len(s) - 1)
      PROVE  (a \o b)[k] = IF k < i THEN s[k] ELSE s[k + 1]
  <2>1. CASE k < i
    BY <1>1, <1>2, <1>3, <1>4, <2>1
  <2>2. CASE k >= i
    <3>1. k - (i - 1) \in 1..(Len(s) - i) /\ i + (k - (i - 1)) = k + 1
      BY <1>1, <2>2
    <3>2. (a \o b)[k] = b[k - (i - 1)]
      BY <1>1, <1>2, <1>3, <1>4, <2>2
    <3> QED
      BY <1>3, <2>2, <3>1, <3>2
  <2>3. k < i \/ k >= i
    BY ONLY <1>1, k \in 1..(Len(s) - 1)
  <2> QED
    BY ONLY <2>1, <2>2, <2>3
<1>6. RemoveAt(s, i) = a \o b
  BY DEF RemoveAt, a, b
<1>7. Len(a \o b) = Len(s) - 1
  BY <1>1, <1>2, <1>3, <1>4
<1> QED
  BY ONLY <1>4, <1>5, <1>6, <1>7

\* The rows of a sequence in the order of ids.
InOrder(s) == \A i, j \in 1..Len(s) : i < j => s[i].id < s[j].id

LEMMA IdsAreNumbers == \A a \in Address : a.id \in Nat /\ a.index \in Nat
<1> SUFFICES ASSUME NEW a \in Address
             PROVE  a.id \in Nat /\ a.index \in Nat
  OBVIOUS
<1>1. a.id \in 1..MaxId /\ a.index \in Nat
  BY DEF Address
<1> QED
  BY <1>1

\* In such a sequence an id is at one position at most.
LEMMA OrderIsDistinct ==
  ASSUME NEW s \in Seq(Address), InOrder(s),
         NEW i \in 1..Len(s), NEW j \in 1..Len(s), s[i].id = s[j].id
  PROVE  i = j
<1>1. s[i].id \in Nat /\ s[j].id \in Nat
  BY IdsAreNumbers
<1>2. ~(i < j) /\ ~(j < i)
  BY <1>1 DEF InOrder
<1> QED
  BY <1>2

\* Taking the row with an id out of the table keeps the order, and leaves
\* exactly the rows with other ids.
LEMMA WithoutFacts ==
  ASSUME NEW s \in Seq(Address), InOrder(s), NEW id
  PROVE  /\ Without(s, id) \in Seq(Address)
         /\ InOrder(Without(s, id))
         /\ Range(Without(s, id)) = {a \in Range(s) : a.id # id}
         /\ s # <<>> /\ s[1].id # id =>
              Without(s, id) # <<>> /\ Without(s, id)[1] = s[1]
<1> DEFINE p == Position(s, id)
           t == Without(s, id)
<1>1. /\ p \in 0..Len(s)
      /\ p = 0 => \A k \in 1..Len(s) : s[k].id # id
      /\ p # 0 => s[p].id = id
  BY PositionFacts
<1>2. Len(s) \in Nat /\ DOMAIN s = 1..Len(s) /\ \A k \in 1..Len(s) : s[k].id \in Nat
  BY IdsAreNumbers
<1>3. CASE p = 0
  <2>1. t = s
    BY <1>3 DEF Without
  <2> HIDE DEF p, t
  <2>2. Range(t) = {a \in Range(s) : a.id # id}
    BY <1>1, <1>2, <1>3, <2>1 DEF Range
  <2> QED
    BY <2>1, <2>2 DEF t
<1>4. CASE p # 0
  <2>1. t = RemoveAt(s, p)
    BY <1>4 DEF Without
  <2> HIDE DEF p, t
  <2>2. p \in 1..Len(s)
    BY <1>1, <1>2, <1>4
  <2>3. /\ t \in Seq(Address) /\ Len(t) = Len(s) - 1 /\ DOMAIN t = 1..(Len(s) - 1)
        /\ \A k \in 1..(Len(s) - 1) : t[k] = IF k < p THEN s[k] ELSE s[k + 1]
    BY <2>1, <2>2, RemoveAtFacts
  <2>4. \A k \in 1..Len(s) : k # p => s[k].id # id
    BY <1>1, <1>4, <2>2, OrderIsDistinct
  <2>5. InOrder(t)
    <3>1. ASSUME NEW i \in 1..Len(t), NEW j \in 1..Len(t), i < j
          PROVE  t[i].id < t[j].id
      <4> DEFINE from(k) == IF k < p THEN k ELSE k + 1
      <4>1. i \in 1..(Len(s) - 1) /\ j \in 1..(Len(s) - 1)
        BY <2>3
      <4>2. /\ from(i) \in 1..Len(s) /\ from(j) \in 1..Len(s)
            /\ from(i) < from(j)
        BY ONLY <1>2, <2>2, <3>1, <4>1
      <4>3. t[i] = s[from(i)] /\ t[j] = s[from(j)]
        BY <2>3, <4>1
      <4> QED
        BY <4>2, <4>3 DEF InOrder
    <3> QED
      BY <3>1 DEF InOrder
  <2>6. Range(t) = {a \in Range(s) : a.id # id}
    <3>1. ASSUME NEW k \in 1..(Len(s) - 1)
          PROVE  t[k] \in Range(s) /\ t[k].id # id
      <4>1. PICK m \in 1..Len(s) : m # p /\ t[k] = s[m]
        BY <1>2, <2>2, <2>3
      <4> QED
        BY <1>2, <2>4, <4>1 DEF Range
    <3>2. ASSUME NEW m \in 1..Len(s), s[m].id # id
          PROVE  s[m] \in Range(t)
      <4>1. m # p
        BY <1>1, <1>4, <3>2
      <4>2. PICK k \in 1..(Len(s) - 1) : t[k] = s[m]
        <5>1. CASE m < p
          BY <1>2, <2>2, <2>3, <5>1
        <5>2. CASE m > p
          <6>1. m - 1 \in 1..(Len(s) - 1) /\ ~(m - 1 < p) /\ (m - 1) + 1 = m
            BY ONLY <1>2, <2>2, <5>2, m \in 1..Len(s)
          <6> QED
            BY <2>3, <6>1
        <5> QED
          BY <2>2, <4>1, <5>1, <5>2
      <4> QED
        BY <2>3, <4>2 DEF Range
    <3> QED
      BY <1>2, <2>3, <3>1, <3>2 DEF Range
  <2>7. ASSUME s[1].id # id
        PROVE  t # <<>> /\ t[1] = s[1]
    <3>1. p # 1
      BY <1>1, <1>4, <2>7
    <3>2. 1 \in 1..(Len(s) - 1) /\ 1 < p
      BY <1>2, <2>2, <3>1
    <3> QED
      BY <2>3, <3>2
  <2> QED
    BY <2>3, <2>5, <2>6, <2>7 DEF t
<1> QED
  BY <1>3, <1>4

\* The elements of two sequences in a row.
LEMMA RangeOfConcat ==
  ASSUME NEW S, NEW s \in Seq(S), NEW t \in Seq(S)
  PROVE  Range(s \o t) = Range(s) \cup Range(t)
<1>1. /\ Len(s) \in Nat /\ Len(t) \in Nat
      /\ DOMAIN s = 1..Len(s) /\ DOMAIN t = 1..Len(t)
      /\ DOMAIN (s \o t) = 1..(Len(s) + Len(t))
      /\ \A k \in 1..(Len(s) + Len(t)) :
           (s \o t)[k] = IF k <= Len(s) THEN s[k] ELSE t[k - Len(s)]
  <2>1. s \o t \in Seq(S) /\ Len(s \o t) = Len(s) + Len(t)
    BY ConcatProperties
  <2> QED
    BY <2>1, ConcatProperties, LenProperties
<1> DEFINE both == s \o t
<1> HIDE DEF both
<1>2. ASSUME NEW k \in 1..(Len(s) + Len(t))
      PROVE  both[k] \in Range(s) \cup Range(t)
  <2>1. CASE k <= Len(s)
    BY <1>1, <2>1 DEF Range, both
  <2>2. CASE ~(k <= Len(s))
    <3>1. k - Len(s) \in 1..Len(t)
      BY <1>1, <2>2
    <3> QED
      BY <1>1, <2>2, <3>1 DEF Range, both
  <2> QED
    BY <2>1, <2>2
<1>3. ASSUME NEW k \in 1..Len(s)
      PROVE  s[k] \in Range(both)
  <2>1. k \in 1..(Len(s) + Len(t)) /\ k <= Len(s)
    BY <1>1
  <2> QED
    BY <1>1, <2>1 DEF Range, both
<1>4. ASSUME NEW k \in 1..Len(t)
      PROVE  t[k] \in Range(both)
  <2>1. Len(s) + k \in 1..(Len(s) + Len(t)) /\ ~(Len(s) + k <= Len(s))
          /\ (Len(s) + k) - Len(s) = k
    BY <1>1
  <2> QED
    BY <1>1, <2>1 DEF Range, both
<1> QED
  BY <1>1, <1>2, <1>3, <1>4 DEF Range, both

\* Rows put behind others, with higher ids.
LEMMA OrderOfConcat ==
  ASSUME NEW s \in Seq(Address), NEW t \in Seq(Address), InOrder(s), InOrder(t),
         \A i \in 1..Len(s), j \in 1..Len(t) : s[i].id < t[j].id
  PROVE  InOrder(s \o t)
<1>1. /\ Len(s) \in Nat /\ Len(t) \in Nat /\ Len(s \o t) = Len(s) + Len(t)
      /\ \A k \in 1..(Len(s) + Len(t)) :
           (s \o t)[k] = IF k <= Len(s) THEN s[k] ELSE t[k - Len(s)]
  BY ConcatProperties
<1> DEFINE both == s \o t
<1> HIDE DEF both
<1> SUFFICES ASSUME NEW i \in 1..Len(both), NEW j \in 1..Len(both), i < j
             PROVE  both[i].id < both[j].id
  BY DEF InOrder, both
<1>2. i \in 1..(Len(s) + Len(t)) /\ j \in 1..(Len(s) + Len(t))
  BY <1>1 DEF both
<1>3. CASE j <= Len(s)
  <2>1. i \in 1..Len(s) /\ j \in 1..Len(s)
    BY <1>1, <1>2, <1>3
  <2> QED
    BY <1>1, <1>2, <1>3, <2>1 DEF InOrder, both
<1>4. CASE i <= Len(s) /\ ~(j <= Len(s))
  <2>1. i \in 1..Len(s) /\ j - Len(s) \in 1..Len(t)
    BY <1>1, <1>2, <1>4
  <2> QED
    BY <1>1, <1>2, <1>4, <2>1 DEF both
<1>5. CASE ~(i <= Len(s))
  <2>1. /\ i - Len(s) \in 1..Len(t) /\ j - Len(s) \in 1..Len(t)
        /\ i - Len(s) < j - Len(s) /\ ~(j <= Len(s))
    BY <1>1, <1>2, <1>5
  <2> QED
    BY <1>1, <1>2, <1>5, <2>1 DEF InOrder, both
<1> QED
  BY <1>3, <1>4, <1>5

\* What comes behind the rows that a list shows may be put there too, and into
\* the table, if its ids are above the first.
LEMMA ShowsMore ==
  ASSUME NEW b \in Seq(Address), NEW v \in Seq(Address), b # <<>>,
         NEW d \in Seq(Address), Shows(b, v, d),
         NEW t \in Seq(Address), \A i \in 1..Len(t) : t[i].id > b[1].id
  PROVE  Shows(b \o t, v \o d \o t, <<>>) /\ Shows(b, v, d \o t)
<1>1. /\ v \o d \in Seq(Address) /\ v \o d \o t \in Seq(Address)
      /\ b \o t \in Seq(Address) /\ d \o t \in Seq(Address)
  BY ConcatProperties
<1>2. /\ Range(b \o t) = Range(b) \cup Range(t)
      /\ Range(v \o d \o t) = Range(v) \cup Range(d) \cup Range(t)
  <2>1. Range(b \o t) = Range(b) \cup Range(t)
    BY RangeOfConcat
  <2>2. Range(v \o d) = Range(v) \cup Range(d)
    BY RangeOfConcat
  <2> DEFINE vd == v \o d
  <2>3. vd \in Seq(Address)
    BY <1>1
  <2> HIDE DEF vd
  <2>4. Range(vd \o t) = Range(vd) \cup Range(t)
    BY ONLY <2>3, t \in Seq(Address), RangeOfConcat
  <2> QED
    BY <2>1, <2>2, <2>4 DEF vd
<1>3. Len(b) > 0 /\ Len(v) > 0 /\ Len(b) \in Nat /\ Len(v) \in Nat
        /\ Len(d) \in Nat /\ Len(t) \in Nat
  BY DEF Shows
<1>4. (b \o t)[1] = b[1]
  BY <1>3, ConcatProperties
<1>5. /\ Len(v \o d) = Len(v) + Len(d)
      /\ \A k \in 1..(Len(v) + Len(d)) :
           (v \o d)[k] = IF k <= Len(v) THEN v[k] ELSE d[k - Len(v)]
  BY ConcatProperties
<1>6. ASSUME NEW k \in 2..Len(v \o d)
      PROVE  (v \o d)[k].id > b[1].id
  <2>1. CASE k <= Len(v)
    BY <1>3, <1>5, <2>1 DEF Shows
  <2>2. CASE ~(k <= Len(v))
    <3>1. k - Len(v) \in 1..Len(d)
      BY <1>3, <1>5, <2>2
    <3> QED
      BY <1>3, <1>5, <2>2, <3>1 DEF Shows
  <2> QED
    BY <2>1, <2>2
<1> DEFINE w == v \o d
<1>7. w \in Seq(Address) /\ Len(w) \in Nat /\ Len(w) > 0 /\ w[1] = v[1]
        /\ \A k \in 2..Len(w) : w[k].id > b[1].id
  BY <1>1, <1>3, <1>5, <1>6
<1> HIDE DEF w
<1>8. /\ Len(w \o t) = Len(w) + Len(t)
      /\ \A k \in 1..(Len(w) + Len(t)) :
           (w \o t)[k] = IF k <= Len(w) THEN w[k] ELSE t[k - Len(w)]
  BY <1>7, ConcatProperties
<1>9. ASSUME NEW k \in 2..Len(w \o t)
      PROVE  (w \o t)[k].id > b[1].id
  <2>1. CASE k <= Len(w)
    BY <1>3, <1>7, <1>8, <2>1
  <2>2. CASE ~(k <= Len(w))
    <3>1. k - Len(w) \in 1..Len(t)
      BY <1>3, <1>7, <1>8, <2>2
    <3> QED
      BY <1>3, <1>7, <1>8, <2>2, <3>1
  <2> QED
    BY <2>1, <2>2
<1>10. (w \o t)[1] = b[1] /\ w \o t # <<>>
  BY <1>3, <1>7, <1>8 DEF Shows
<1>11. Shows(b \o t, w \o t, <<>>)
  <2>1. Range(b \o t) \subseteq Range(w \o t)
    BY <1>2 DEF Shows, w
  <2> QED
    BY <1>4, <1>9, <1>10, <2>1 DEF Shows
<1>12. Shows(b, v, d \o t)
  <2>1. /\ Len(d \o t) = Len(d) + Len(t)
        /\ \A k \in 1..(Len(d) + Len(t)) :
             (d \o t)[k] = IF k <= Len(d) THEN d[k] ELSE t[k - Len(d)]
    BY ConcatProperties
  <2>2. ASSUME NEW k \in 1..(Len(d) + Len(t))
        PROVE  (d \o t)[k].id > b[1].id
    <3>1. CASE k <= Len(d)
      BY <1>3, <2>1, <3>1 DEF Shows
    <3>2. CASE ~(k <= Len(d))
      <4>1. k - Len(d) \in 1..Len(t)
        BY <1>3, <3>2
      <4> QED
        BY <2>1, <3>2, <4>1
    <3> QED
      BY <3>1, <3>2
  <2> QED
    BY <2>1, <2>2 DEF Shows
<1> QED
  BY <1>11, <1>12 DEF w

\* A list that is the table shows it.
LEMMA SameShows ==
  ASSUME NEW b \in Seq(Address), b # <<>>, InOrder(b)
  PROVE  Shows(b, b, <<>>)
<1>1. Len(b) \in Nat /\ Len(b) > 0 /\ \A i \in 1..Len(b) : b[i].id \in Nat
  BY IdsAreNumbers
<1>2. ASSUME NEW i \in 2..Len(b)
      PROVE  b[i].id > b[1].id
  <2>1. 1 \in 1..Len(b) /\ i \in 1..Len(b) /\ 1 < i
    BY <1>1
  <2> QED
    BY <1>1, <2>1 DEF InOrder
<1> QED
  BY <1>2 DEF Shows

\* The records of addresses, or the first n of them, are numbered from the
\* counter on.
LEMMA RecordsFacts ==
  ASSUME lastId \in Nat, NEW f \in Seq(Value), NEW n \in 0..Len(f), lastId + n <= MaxId
  PROVE  LET new == SubSeq(Records(f), 1, n)
         IN  /\ new \in Seq(Address) /\ Len(new) = n
             /\ \A k \in 1..n : new[k].id = lastId + k
<1> DEFINE all == Records(f)
           new == SubSeq(all, 1, n)
<1>1. ASSUME NEW k \in 1..n
      PROVE  all[k] \in Address /\ all[k].id = lastId + k
  <2>1. k \in 1..Len(f) /\ DOMAIN f = 1..Len(f) /\ f[k] \in Value
    OBVIOUS
  <2>2. all[k] = [id |-> lastId + k, name |-> Default, value |-> f[k], index |-> 0]
    BY <2>1 DEF Records
  <2>3. lastId + k \in 1..MaxId
    OBVIOUS
  <2> HIDE DEF all
  <2> QED
    BY <2>1, <2>2, <2>3 DEF Address
<1>2. n \in Int /\ 1 \in Int /\ n >= 0
  OBVIOUS
<1> HIDE DEF all
<1>3. /\ SubSeq(all, 1, n) \in Seq(Address)
      /\ Len(SubSeq(all, 1, n)) = IF 1 <= n THEN n - 1 + 1 ELSE 0
      /\ \A k \in 1..(n - 1 + 1) : SubSeq(all, 1, n)[k] = all[1 + k - 1]
  BY ONLY <1>1, <1>2, SubSeqProperties
<1>4. Len(SubSeq(all, 1, n)) = n
  BY <1>2, <1>3
<1>5. ASSUME NEW k \in 1..n
      PROVE  SubSeq(all, 1, n)[k].id = lastId + k
  <2>1. k \in 1..(n - 1 + 1) /\ 1 + k - 1 = k
    BY <1>2
  <2> QED
    BY <1>1, <1>3, <2>1
<1> QED
  BY <1>3, <1>4, <1>5 DEF all

\* All of them.
LEMMA AllRecords ==
  ASSUME lastId \in Nat, NEW f \in Seq(Value), lastId + Len(f) <= MaxId
  PROVE  /\ Records(f) \in Seq(Address) /\ Len(Records(f)) = Len(f)
         /\ \A k \in 1..Len(f) : Records(f)[k].id = lastId + k
<1>1. Len(f) \in Nat /\ DOMAIN f = 1..Len(f) /\ \A k \in 1..Len(f) : f[k] \in Value
  OBVIOUS
<1>2. ASSUME NEW k \in 1..Len(f)
      PROVE  [id |-> lastId + k, name |-> Default, value |-> f[k], index |-> 0] \in Address
  <2>1. lastId + k \in 1..MaxId
    BY <1>1
  <2> QED
    BY <1>1, <2>1 DEF Address
<1>3. Records(f) = [k \in 1..Len(f) |->
        [id |-> lastId + k, name |-> Default, value |-> f[k], index |-> 0]]
  BY <1>1 DEF Records
<1> QED
  BY <1>1, <1>2, <1>3

\* What of a text the manager does not have is a sequence of addresses.
LEMMA FreshIsTyped ==
  ASSUME NEW text \in Text
  PROVE  Fresh(text) \in Seq(Value)
<1>1. CASE text \in {<<v>> : v \in Value}
  <2>1. PICK v \in Value : text = <<v>>
    BY <1>1
  <2>2. text[1] = v /\ Len(text) = 1
    BY <2>1
  <2>3. IfFresh(v) \in Seq(Value) /\ <<>> \in Seq(Value)
    BY DEF IfFresh
  <2> QED
    BY <2>2, <2>3 DEF Fresh
<1>2. CASE text \in Value \X Value
  <2>1. PICK v, w \in Value : text = <<v, w>>
    BY <1>2
  <2>2. text[1] = v /\ text[2] = w /\ Len(text) = 2
    BY <2>1
  <2>3. IfFresh(v) \in Seq(Value) /\ IfFresh(w) \in Seq(Value)
    BY DEF IfFresh
  <2> QED
    BY <2>2, <2>3 DEF Fresh
<1> QED
  BY <1>1, <1>2 DEF Text

\* nextAvailableIndex finds an index that no address of the wallet has.
LEMMA NextIndexIsFree ==
  ASSUME BookInv, ~smart, form = "update", Len(book) < MaxAddresses
  PROVE  /\ NextIndex \in 0..(MaxAddresses - 1)
         /\ \A k \in 1..Len(book) : book[k].index # NextIndex
<1> DEFINE n == Len(book)
           U == Indices(Range(book))
           F == {x \in 0..MaxAddresses : \A a \in manager : a.index # x}
<1>1. book \in Seq(Address) /\ n \in Nat /\ DOMAIN book = 1..n /\ MaxAddresses \in Nat
  BY DEF BookInv, BookTypeOK
<1>2. Indices(manager) = U
  BY DEF BookInv, Plain
<1>3. U = {book[k].index : k \in 1..n}
  BY <1>1 DEF Indices, Range
<1>4. IsFiniteSet(U) /\ Cardinality(U) <= n
  <2> DEFINE f == [k \in 1..n |-> book[k].index]
  <2> HIDE DEF U
  <2>1. f \in Surjection(1..n, U)
    BY <1>3 DEF Surjection
  <2> HIDE DEF f, n
  <2>2. IsFiniteSet(1..n) /\ Cardinality(1..n) = n
    <3>1. n \in Int /\ n >= 0
      BY <1>1
    <3>2. /\ IsFiniteSet(1..n)
          /\ Cardinality(1..n) = IF 1 > n THEN 0 ELSE n - 1 + 1
      BY ONLY 1 \in Int, <3>1, FS_Interval
    <3> QED
      BY ONLY <3>1, <3>2
  <2> QED
    BY <2>1, <2>2, FS_Surjection
<1> HIDE DEF U
<1>5. PICK x \in 0..(MaxAddresses - 1) : x \notin U
  <2>1. SUFFICES ASSUME 0..(MaxAddresses - 1) \subseteq U
                 PROVE  FALSE
    OBVIOUS
  <2>2. Cardinality(0..(MaxAddresses - 1)) <= Cardinality(U)
    BY <1>4, <2>1, FS_Subset
  <2>3. Cardinality(0..(MaxAddresses - 1)) = MaxAddresses
    BY <1>1, FS_Interval
  <2>4. Cardinality(U) \in Nat
    BY <1>4, FS_CardinalityType
  <2> QED
    BY <1>1, <1>4, <2>2, <2>3, <2>4
<1>6. x \in F
  BY <1>1, <1>2, <1>5 DEF Indices
<1>7. Min(F) \in F /\ \A y \in F : Min(F) <= y
  <2>1. F # {}
    BY <1>6
  <2>2. F \subseteq 0..MaxAddresses
    OBVIOUS
  <2> HIDE DEF F
  <2>3. F \in SUBSET Nat
    BY <2>2
  <2> QED
    BY ONLY <2>1, <2>3, MinIsLeast
<1>8. NextIndex = Min(F)
  BY DEF NextIndex
<1>9. NextIndex \in 0..(MaxAddresses - 1)
  BY <1>1, <1>5, <1>6, <1>7, <1>8
<1>10. NextIndex \notin U
  BY <1>2, <1>7, <1>8 DEF Indices
<1> QED
  BY <1>3, <1>9, <1>10

LEMMA InitBook == BookInit => BookInv
<1> SUFFICES ASSUME BookInit
             PROVE  BookInv
  OBVIOUS
<1>1. PICK text \in IF smart THEN Text ELSE {<<0>>} :
        /\ book = [i \in DOMAIN text |->
                     [id |-> i, name |-> Default, value |-> text[i], index |-> 0]]
        /\ lastId = Len(text)
  BY DEF BookInit
<1>2. text \in Seq(Value) /\ Len(text) \in {1, 2} /\ (~smart => Len(text) = 1)
  <2>1. 0 \in Value
    OBVIOUS
  <2>2. CASE text \in {<<v>> : v \in Value}
    <3>1. PICK v \in Value : text = <<v>>
      BY <2>2
    <3> QED
      BY <3>1
  <2>3. CASE text \in Value \X Value
    BY <1>1, <2>3 DEF Text
  <2> QED
    BY <1>1, <2>1, <2>2, <2>3 DEF Text
<1>3. DOMAIN text = 1..Len(text) /\ \A i \in 1..Len(text) : text[i] \in Value /\ i \in 1..MaxId
  BY <1>2
<1>4. /\ book \in Seq(Address) /\ Len(book) = Len(text) /\ DOMAIN book = 1..Len(text)
      /\ \A i \in 1..Len(text) : book[i].id = i
  <2>1. \A i \in 1..Len(text) :
          [id |-> i, name |-> Default, value |-> text[i], index |-> 0] \in Address
    BY <1>3 DEF Address
  <2> QED
    BY <1>1, <1>2, <1>3, <2>1
<1>5. book # <<>> /\ InOrder(book)
  BY <1>2, <1>4 DEF InOrder
<1>6. BookTypeOK
  <2>1. \A a \in Range(book) : a.id <= lastId
    BY <1>1, <1>2, <1>4 DEF Range
  <2>2. lastId \in 0..MaxId
    BY <1>1, <1>2
  <2>3. \A i, j \in DOMAIN book : i < j => book[i].id < book[j].id
    BY <1>4, <1>5 DEF InOrder
  <2>4. <<>> \in Seq(Address)
    OBVIOUS
  <2> QED
    BY <1>4, <2>1, <2>2, <2>3, <2>4 DEF BookInit, BookTypeOK
<1>7. IndicesAreUnique
  BY <1>2, <1>4 DEF IndicesAreUnique
<1>8. Opened /\ Plain
  BY DEF BookInit, Opened, Plain
<1> QED
  BY <1>5, <1>6, <1>7, <1>8 DEF BookInv

\* What the invariant says of the table.
LEMMA TableFacts ==
  ASSUME BookInv
  PROVE  /\ book \in Seq(Address) /\ book # <<>> /\ InOrder(book)
         /\ Len(book) \in Nat /\ Len(book) > 0 /\ DOMAIN book = 1..Len(book)
         /\ \A k \in 1..Len(book) : book[k] \in Address /\ book[k].id <= lastId
         /\ lastId \in Nat /\ lastId <= MaxId
<1>1. /\ book \in Seq(Address) /\ book # <<>>
      /\ lastId \in 0..MaxId
      /\ (\A a \in Range(book) : a.id <= lastId)
      /\ \A i, j \in DOMAIN book : i < j => book[i].id < book[j].id
  BY DEF BookInv, BookTypeOK
<1>2. Len(book) \in Nat /\ Len(book) > 0 /\ DOMAIN book = 1..Len(book)
  BY <1>1
<1>3. ASSUME NEW k \in 1..Len(book)
      PROVE  book[k] \in Address /\ book[k].id <= lastId
  BY <1>1, <1>2 DEF Range
<1> QED
  BY <1>1, <1>2, <1>3 DEF InOrder

\* A form that opens shows the table.
LEMMA OpenStep ==
  ASSUME BookInv, OpenBook, smart' = smart
  PROVE  BookInv'
<1>1. /\ form' = "update" /\ manager' = Range(book) /\ view' = book
      /\ book' = book /\ lastId' = lastId /\ added' = <<>>
  BY DEF OpenBook, BookInv, BookTypeOK
<1>2. BookTypeOK'
  <2>1. Range(book) \subseteq Address
    BY TableFacts DEF Range
  <2>2. <<>> \in Seq(Address)
    OBVIOUS
  <2> QED
    BY <1>1, <2>1, <2>2 DEF BookInv, BookTypeOK
<1>3. Shows(book, book, <<>>)
  BY TableFacts, SameShows
<1>4. Opened'
  BY <1>1, <1>3 DEF Opened
<1>5. Plain'
  BY <1>1 DEF Plain
<1>6. IndicesAreUnique'
  BY <1>1 DEF BookInv, IndicesAreUnique
<1> QED
  BY <1>1, <1>2, <1>4, <1>5, <1>6 DEF BookInv

\* Closing it, and opening and cancelling the dialog, leave the table alone.
LEMMA QuietFormStep ==
  ASSUME BookInv, CloseBook \/ OpenDialog \/ CancelDialog \/ UNCHANGED bookVars,
         smart' = smart
  PROVE  BookInv'
<1> USE DEF BookInv
<1>1. CASE CloseBook
  <2>1. <<>> \in Seq(Address)
    OBVIOUS
  <2> QED
    BY <1>1, <2>1 DEF CloseBook, BookTypeOK, Opened, Plain, IndicesAreUnique
<1>2. CASE OpenDialog
  BY <1>2 DEF OpenDialog, BookTypeOK, Opened, Plain, IndicesAreUnique
<1>3. CASE CancelDialog
  <2>1. <<>> \in Seq(Address) /\ Shows(book, view, <<>>)
    BY <1>3 DEF CancelDialog, Opened, Shows
  <2>2. smart
    BY <1>3 DEF CancelDialog, Plain
  <2> QED
    BY <1>3, <2>1, <2>2 DEF CancelDialog, BookTypeOK, Opened, Plain, IndicesAreUnique
<1>4. CASE UNCHANGED bookVars
  BY <1>4 DEF bookVars, BookTypeOK, Opened, Plain, IndicesAreUnique
<1> QED
  BY <1>1, <1>2, <1>3, <1>4

\* The address at the next index is put behind the others, everywhere.
LEMMA NewAddressStep ==
  ASSUME BookInv, NEW n \in Label, NewAddress(n), smart' = smart
  PROVE  BookInv'
<1> DEFINE new == [id |-> lastId + 1, name |-> n, value |-> NextIndex, index |-> NextIndex]
<1>1. PICK x, last, b : x = NextIndex /\ last = lastId /\ b = book
  OBVIOUS
<1>2. /\ ~smart /\ form = "update" /\ form' = "update" /\ added' = added
      /\ Len(b) < MaxAddresses /\ last < MaxId /\ lastId' = last + 1
      /\ book' = Append(b, new) /\ view' = Append(view, new)
      /\ manager' = manager \cup {new}
  BY <1>1 DEF NewAddress
<1>3. /\ x \in 0..(MaxAddresses - 1)
      /\ \A k \in 1..Len(b) : b[k].index # x
  BY <1>1, <1>2, NextIndexIsFree
<1>4. /\ b \in Seq(Address) /\ b # <<>> /\ InOrder(b) /\ Len(b) \in Nat
      /\ \A k \in 1..Len(b) : b[k] \in Address /\ b[k].id <= last
      /\ last \in Nat
  BY <1>1, TableFacts
<1>5. new \in Address /\ new.id = last + 1 /\ new.index = x
  <2>1. x \in Value /\ x \in Nat /\ last + 1 \in 1..MaxId
    BY <1>2, <1>3, <1>4
  <2>2. new = [id |-> last + 1, name |-> n, value |-> x, index |-> x]
    BY <1>1
  <2> HIDE DEF new
  <2> QED
    BY <2>1, <2>2 DEF Address
<1> HIDE DEF new
<1> DEFINE c == Append(b, new)
<1>6. /\ c \in Seq(Address) /\ c # <<>> /\ Len(c) = Len(b) + 1
      /\ (\A k \in 1..Len(b) : c[k] = b[k]) /\ c[Len(b) + 1] = new
      /\ DOMAIN c = 1..(Len(b) + 1)
  BY <1>4, <1>5, AppendProperties
<1> HIDE DEF c
<1>7. ASSUME NEW k \in 1..Len(c)
      PROVE  \/ k \in 1..Len(b) /\ c[k] = b[k] /\ c[k].id <= last /\ c[k].index # x
             \/ k = Len(b) + 1 /\ c[k] = new
  <2>1. k \in 1..Len(b) \/ k = Len(b) + 1
    BY ONLY <1>4, <1>6, k \in 1..Len(c)
  <2>2. CASE k \in 1..Len(b)
    <3>1. c[k] = b[k]
      BY <1>6, <2>2
    <3>2. b[k].id <= last
      BY <1>4, <2>2
    <3>3. b[k].index # x
      BY <1>3, <2>2
    <3> QED
      BY ONLY <2>2, <3>1, <3>2, <3>3
  <2> QED
    BY <1>6, <2>1, <2>2
<1>8. InOrder(c)
  <2>1. ASSUME NEW i \in 1..Len(c), NEW j \in 1..Len(c), i < j
        PROVE  c[i].id < c[j].id
    <3>1. i \in 1..Len(b)
      BY <1>4, <1>6, <2>1
    <3>2. CASE j \in 1..Len(b)
      BY <1>4, <1>6, <2>1, <3>1, <3>2 DEF InOrder
    <3>3. CASE j = Len(b) + 1
      <4>1. c[i].id <= last /\ c[j].id = last + 1 /\ c[i].id \in Nat
        BY <1>4, <1>5, <1>6, <3>1, <3>3, IdsAreNumbers
      <4> QED
        BY <1>4, <4>1
    <3> QED
      BY <1>4, <1>6, <3>2, <3>3
  <2> QED
    BY <2>1 DEF InOrder
<1>9. Range(c) = Range(b) \cup {new}
  <2>1. DOMAIN b = 1..Len(b) /\ Len(b) + 1 \in 1..(Len(b) + 1)
    BY <1>4
  <2> QED
    BY <1>4, <1>6, <1>7, <2>1 DEF Range
<1>10. book' = c /\ view' = c /\ added = <<>>
  <2>1. view = book
    BY <1>2 DEF BookInv, Plain
  <2> QED
    BY <1>1, <1>2, <2>1 DEF c, BookInv, BookTypeOK
<1>11. BookTypeOK'
  <2>1. \A a \in Range(c) : a.id <= last + 1
    <3>1. \A k \in 1..Len(c) : c[k].id \in Nat
      BY <1>6, IdsAreNumbers
    <3> QED
      BY <1>4, <1>5, <1>6, <1>7, <3>1 DEF Range
  <2>2. last + 1 \in 0..MaxId
    BY <1>2, <1>4
  <2>3. \A i, j \in DOMAIN c : i < j => c[i].id < c[j].id
    BY <1>6, <1>8 DEF InOrder
  <2> QED
    BY <1>2, <1>5, <1>6, <1>10, <2>1, <2>2, <2>3 DEF BookInv, BookTypeOK
<1>12. Shows(c, c, <<>>)
  BY <1>6, <1>8, SameShows
<1>13. Opened'
  BY <1>2, <1>10, <1>12 DEF Opened
<1>14. Plain'
  <2>1. Indices(manager) = Indices(Range(b))
    BY <1>1, <1>2 DEF BookInv, Plain
  <2>2. Indices(manager \cup {new}) = Indices(Range(c))
    BY <1>9, <2>1 DEF Indices
  <2> QED
    BY <1>2, <1>10, <2>2 DEF Plain
<1>15. IndicesAreUnique'
  <2>1. \A i, j \in 1..Len(b) : b[i].index = b[j].index => i = j
    BY <1>1, <1>2, TableFacts DEF BookInv, IndicesAreUnique
  <2>2. \A i, j \in 1..Len(c) : c[i].index = c[j].index => i = j
    BY <1>5, <1>7, <2>1
  <2> QED
    BY <1>4, <1>6, <1>10, <2>2 DEF IndicesAreUnique
<1> QED
  BY <1>6, <1>10, <1>11, <1>13, <1>14, <1>15 DEF BookInv

\* What the records of a text are to the table and to the list.
LEMMA NewRecords ==
  ASSUME BookInv, NEW new \in Seq(Address), NEW n \in Nat, Len(new) = n,
         \A k \in 1..n : new[k].id = lastId + k
  PROVE  /\ book \o new \in Seq(Address) /\ InOrder(book \o new)
         /\ \A k \in 1..n : new[k].id > book[1].id
         /\ lastId + n <= MaxId => \A a \in Range(book \o new) : a.id <= lastId + n
<1>1. /\ book \in Seq(Address) /\ book # <<>> /\ InOrder(book)
      /\ Len(book) \in Nat /\ Len(book) > 0 /\ DOMAIN book = 1..Len(book)
      /\ \A k \in 1..Len(book) : book[k].id <= lastId /\ book[k].id \in Nat
      /\ lastId \in Nat
  BY TableFacts, IdsAreNumbers
<1>2. InOrder(new)
  BY <1>1 DEF InOrder
<1>3. \A i \in 1..Len(book), j \in 1..Len(new) : book[i].id < new[j].id
  BY <1>1
<1>4. book \o new \in Seq(Address) /\ InOrder(book \o new)
  BY <1>1, <1>2, <1>3, OrderOfConcat, ConcatProperties
<1>5. \A k \in 1..n : new[k].id > book[1].id
  BY <1>1
<1>6. \A a \in Range(book \o new) : a.id <= lastId + n
  <2>1. Range(book \o new) = Range(book) \cup Range(new)
    BY <1>1, RangeOfConcat
  <2>2. \A a \in Range(book) : a.id <= lastId + n
    BY <1>1 DEF Range
  <2>3. DOMAIN new = 1..n
    OBVIOUS
  <2>4. \A a \in Range(new) : a.id <= lastId + n
    BY <1>1, <2>3 DEF Range
  <2> QED
    BY <2>1, <2>2, <2>4
<1> QED
  BY <1>4, <1>5, <1>6

\* The rows of a smart wallet are inserted, and shown with what was added
\* before.
LEMMA AddStep ==
  ASSUME BookInv, NEW text \in Text, AddAddresses(text), smart' = smart
  PROVE  BookInv'
<1>1. PICK new, n, last, b : /\ new = Records(Fresh(text)) /\ n = Len(new)
                             /\ last = lastId /\ b = book
  OBVIOUS
<1>2. /\ form = "dialog" /\ smart /\ form' = "update" /\ added' = <<>>
      /\ last + n <= MaxId /\ lastId' = last + n
      /\ book' = b \o new /\ view' = view \o added \o new
      /\ manager' = manager \cup Range(new)
  BY <1>1 DEF AddAddresses, BookInv, Plain
<1>3. /\ b \in Seq(Address) /\ b # <<>> /\ Len(b) \in Nat /\ Len(b) > 0
      /\ last \in Nat
  BY <1>1, TableFacts
<1>4. /\ new \in Seq(Address) /\ n \in Nat
      /\ \A k \in 1..n : new[k].id = last + k
  <2>1. Fresh(text) \in Seq(Value)
    BY FreshIsTyped
  <2>2. Len(new) = Len(Fresh(text))
    BY <1>1 DEF Records
  <2>3. lastId + Len(Fresh(text)) <= MaxId
    BY <1>1, <1>2, <2>2
  <2> QED
    BY <1>1, <1>3, <2>1, <2>2, <2>3, AllRecords
<1>5. /\ b \o new \in Seq(Address) /\ InOrder(b \o new)
      /\ \A k \in 1..n : new[k].id > b[1].id
      /\ \A a \in Range(b \o new) : a.id <= last + n
  BY <1>1, <1>2, <1>4, NewRecords
<1>6. view \in Seq(Address) /\ added \in Seq(Address) /\ manager \subseteq Address
        /\ Shows(b, view, added)
  BY <1>1, <1>2 DEF BookInv, BookTypeOK, Opened
<1>7. view \o added \o new \in Seq(Address) /\ Range(new) \subseteq Address
  <2>1. view \o added \in Seq(Address)
    BY <1>6, ConcatProperties
  <2> QED
    BY <1>4, <2>1, ConcatProperties DEF Range
<1>8. Shows(b \o new, view \o added \o new, <<>>)
  BY <1>1, <1>3, <1>4, <1>5, <1>6, ShowsMore
<1>9. b \o new # <<>>
  BY <1>3, <1>4, ConcatProperties
<1>10. BookTypeOK'
  <2>1. \A i, j \in DOMAIN (b \o new) : i < j => (b \o new)[i].id < (b \o new)[j].id
    BY <1>5, LenProperties DEF InOrder
  <2>2. <<>> \in Seq(Address) /\ last + n \in 0..MaxId
    BY <1>2, <1>3, <1>4
  <2> QED
    BY <1>2, <1>5, <1>6, <1>7, <2>1, <2>2 DEF BookInv, BookTypeOK
<1>11. Opened' /\ Plain' /\ IndicesAreUnique'
  BY <1>2, <1>8 DEF Opened, Plain, IndicesAreUnique
<1> QED
  BY <1>2, <1>9, <1>10, <1>11 DEF BookInv

\* What a transaction that fails leaves is no row of the table, and has none of
\* its ids.
LEMMA FailStep ==
  ASSUME BookInv, NEW text \in Text, NEW n \in 0..2, AddingFails(text, n), smart' = smart
  PROVE  BookInv'
<1>1. PICK new, last, b : /\ new = SubSeq(Records(Fresh(text)), 1, n)
                          /\ last = lastId /\ b = book
  OBVIOUS
<1>2. /\ form = "dialog" /\ smart /\ n <= Len(Fresh(text)) /\ lastId + n <= MaxId
      /\ manager' = manager \cup Range(new) /\ added' = added \o new
      /\ book' = b /\ lastId' = lastId /\ form' = form /\ view' = view
  BY <1>1 DEF AddingFails, BookInv, Plain
<1>3. b \in Seq(Address) /\ b # <<>> /\ last \in Nat
  BY <1>1, TableFacts
<1>4. /\ new \in Seq(Address) /\ Len(new) = n /\ n \in Nat
      /\ \A k \in 1..n : new[k].id = last + k
  <2>1. Fresh(text) \in Seq(Value)
    BY FreshIsTyped
  <2>2. n \in 0..Len(Fresh(text))
    BY <1>2, <2>1
  <2> QED
    BY <1>1, <1>2, <1>3, <2>1, <2>2, RecordsFacts
<1>5. \A k \in 1..n : new[k].id > b[1].id
  BY <1>1, <1>4, NewRecords
<1>6. view \in Seq(Address) /\ added \in Seq(Address) /\ manager \subseteq Address
        /\ Shows(b, view, added)
  BY <1>1, <1>2 DEF BookInv, BookTypeOK, Opened
<1>7. added \o new \in Seq(Address) /\ Range(new) \subseteq Address
  BY <1>4, <1>6, ConcatProperties DEF Range
<1>8. Shows(b, view, added \o new)
  BY <1>3, <1>4, <1>5, <1>6, ShowsMore
<1>9. BookTypeOK'
  BY <1>1, <1>2, <1>6, <1>7 DEF BookInv, BookTypeOK
<1>10. Opened' /\ Plain' /\ IndicesAreUnique'
  BY <1>2, <1>8 DEF Opened, Plain, IndicesAreUnique
<1> QED
  BY <1>2, <1>3, <1>9, <1>10 DEF BookInv

\* An edit changes the row in the table and, by the same id, in the list.
LEMMA EditStep ==
  ASSUME BookInv, NEW i \in DOMAIN view, NEW j \in DOMAIN book, NEW n \in Label,
         NEW v \in Value, EditAddress(i, j, n, v), smart' = smart
  PROVE  BookInv'
<1>1. PICK b, s, p, row : /\ b = book /\ s = view /\ p = Position(s, b[j].id)
                          /\ row = [b[j] EXCEPT !.name = n, !.value = v]
  OBVIOUS
<1>2. /\ b \in Seq(Address) /\ b # <<>> /\ InOrder(b) /\ Len(b) \in Nat /\ Len(b) > 0
      /\ DOMAIN b = 1..Len(b) /\ j \in 1..Len(b)
      /\ \A k \in 1..Len(b) : b[k] \in Address /\ b[k].id <= lastId
  BY <1>1, TableFacts
<1>3. s \in Seq(Address) /\ DOMAIN s = 1..Len(s) /\ Len(s) \in Nat
  BY <1>1 DEF BookInv, BookTypeOK
<1>4. row \in Address /\ row.id = b[j].id /\ row.index = b[j].index
  <2>1. b[j] \in Address
    BY <1>2
  <2> QED
    BY <1>1, <2>1 DEF Address
<1>5. book' = [b EXCEPT ![j] = row]
  BY <1>1 DEF EditAddress
<1>6. book'[j] = row
  BY <1>2, <1>5
<1>7. /\ form = "update" /\ s[i].id = b[j].id
      /\ view' = [s EXCEPT ![p] = row]
      /\ lastId' = lastId /\ form' = form /\ manager' = manager /\ added' = added
  BY <1>1, <1>6 DEF EditAddress
\* The first row of the list with that id.
<1>8. /\ p \in 1..Len(s) /\ s[p].id = b[j].id
      /\ \A k \in 1..(p - 1) : s[k].id # b[j].id
  <2>1. i \in 1..Len(s) /\ s[i].id = b[j].id
    BY <1>1, <1>3, <1>7
  <2>2. /\ p \in 0..Len(s)
        /\ p = 0 => \A k \in 1..Len(s) : s[k].id # b[j].id
        /\ p # 0 => /\ s[p].id = b[j].id
                    /\ \A k \in 1..(p - 1) : s[k].id # b[j].id
    BY <1>1, <1>3, PositionFacts
  <2> QED
    BY <1>3, <2>1, <2>2
<1> DEFINE c == [b EXCEPT ![j] = row]
           t == [s EXCEPT ![p] = row]
<1>9. /\ c \in Seq(Address) /\ c # <<>> /\ Len(c) = Len(b) /\ DOMAIN c = 1..Len(b)
      /\ c[j] = row /\ \A k \in 1..Len(b) : k # j => c[k] = b[k]
  BY <1>2, <1>4
<1>10. /\ t \in Seq(Address) /\ Len(t) = Len(s) /\ DOMAIN t = 1..Len(s)
       /\ t[p] = row /\ \A k \in 1..Len(s) : k # p => t[k] = s[k]
  BY <1>3, <1>4, <1>8
<1>11. book' = c /\ view' = t
  BY <1>5, <1>7
<1> HIDE DEF c, t
<1>12. \A k \in 1..Len(b) : c[k].id = b[k].id /\ c[k].index = b[k].index
  BY <1>4, <1>9
<1>13. \A k \in 1..Len(s) : t[k].id = s[k].id
  BY <1>4, <1>8, <1>10
<1>14. Shows(b, s, added) /\ s # <<>> /\ 1 \in 1..Len(b) /\ 1 \in 1..Len(s)
  BY <1>1, <1>2, <1>3, <1>7 DEF BookInv, Opened, Shows
<1>15. Shows(c, t, added)
  <2>1. ASSUME NEW k \in 1..Len(b)
        PROVE  c[k] \in Range(t)
    <3>1. CASE k = j
      BY <1>8, <1>9, <1>10, <3>1 DEF Range
    <3>2. CASE k # j
      <4>1. PICK q \in 1..Len(s) : s[q] = b[k]
        BY <1>2, <1>3, <1>14 DEF Shows, Range
      <4>2. b[k].id # b[j].id
        BY <1>2, <3>2, OrderIsDistinct
      <4>3. q # p
        BY <1>8, <4>1, <4>2
      <4> QED
        BY <1>9, <1>10, <3>2, <4>1, <4>3 DEF Range
    <3> QED
      BY <3>1, <3>2
  <2>2. t[1] = c[1]
    <3>1. CASE j = 1
      <4>1. s[1].id = b[j].id
        BY <1>14, <3>1 DEF Shows
      <4>2. p = 1
        BY <1>3, <1>8, <4>1
      <4> QED
        BY <1>9, <1>10, <3>1, <4>2
    <3>2. CASE j # 1
      <4>1. b[1].id # b[j].id
        BY <1>2, <1>14, <3>2, OrderIsDistinct
      <4>2. p # 1
        BY <1>8, <1>14, <4>1 DEF Shows
      <4> QED
        BY <1>9, <1>10, <1>14, <3>2, <4>2 DEF Shows
    <3> QED
      BY <3>1, <3>2
  <2>3. c[1].id = b[1].id
    BY <1>12, <1>14
  <2>4. \A k \in 2..Len(t) : t[k].id > c[1].id
    BY <1>3, <1>10, <1>13, <1>14, <2>3 DEF Shows
  <2>5. t # <<>>
    BY <1>10, <1>14
  <2>6. Range(c) \subseteq Range(t)
    BY <1>9, <2>1 DEF Range
  <2> QED
    BY <1>14, <2>2, <2>3, <2>4, <2>5, <2>6 DEF Shows
<1>16. BookTypeOK'
  <2>1. \A k, m \in DOMAIN c : k < m => c[k].id < c[m].id
    BY <1>2, <1>9, <1>12 DEF InOrder
  <2>2. \A a \in Range(c) : a.id <= lastId
    BY <1>2, <1>9, <1>12 DEF Range
  <2> QED
    BY <1>7, <1>9, <1>10, <1>11, <2>1, <2>2 DEF BookInv, BookTypeOK
<1>17. Opened'
  BY <1>7, <1>11, <1>15 DEF Opened
<1>18. Plain'
  <2>1. SUFFICES ASSUME ~smart
                 PROVE  t = c /\ Indices(manager) = Indices(Range(c))
    BY <1>7, <1>11 DEF Plain
  <2>2. s = b /\ Indices(manager) = Indices(Range(b))
    BY <1>1, <1>7, <2>1 DEF BookInv, Plain
  <2>3. p = j
    BY <1>2, <1>8, <2>2, OrderIsDistinct
  <2>4. Indices(Range(c)) = Indices(Range(b))
    <3>1. /\ Indices(Range(c)) = {c[k].index : k \in 1..Len(b)}
          /\ Indices(Range(b)) = {b[k].index : k \in 1..Len(b)}
      BY <1>2, <1>9 DEF Indices, Range
    <3> QED
      BY <1>12, <3>1
  <2> QED
    BY <2>2, <2>3, <2>4 DEF c, t
<1>19. IndicesAreUnique'
  <2>1. ~smart => \A k, m \in 1..Len(b) : b[k].index = b[m].index => k = m
    BY <1>1, <1>2 DEF BookInv, IndicesAreUnique
  <2> QED
    BY <1>9, <1>11, <1>12, <2>1 DEF IndicesAreUnique
<1> QED
  BY <1>9, <1>11, <1>16, <1>17, <1>18, <1>19 DEF BookInv

\* What a list shows but for one row.
LEMMA RestOfRange ==
  ASSUME NEW S, NEW s \in Seq(S), NEW i \in 1..Len(s)
  PROVE  /\ Range(RemoveAt(s, i)) \subseteq Range(s)
         /\ \A k \in 1..Len(s) : k # i => s[k] \in Range(RemoveAt(s, i))
<1> DEFINE t == RemoveAt(s, i)
<1>1. /\ t \in Seq(S) /\ Len(t) = Len(s) - 1 /\ DOMAIN t = 1..(Len(s) - 1)
      /\ \A k \in 1..(Len(s) - 1) : t[k] = IF k < i THEN s[k] ELSE s[k + 1]
  BY RemoveAtFacts
<1> HIDE DEF t
<1>2. Len(s) \in Nat /\ DOMAIN s = 1..Len(s)
  OBVIOUS
<1>3. ASSUME NEW k \in 1..(Len(s) - 1)
      PROVE  t[k] \in Range(s)
  <2>1. k \in 1..Len(s) /\ k + 1 \in 1..Len(s)
    BY <1>2
  <2> QED
    BY <1>1, <1>2, <2>1 DEF Range
<1>4. ASSUME NEW k \in 1..Len(s), k # i
      PROVE  s[k] \in Range(t)
  <2>1. CASE k < i
    BY <1>1, <1>2, <2>1 DEF Range
  <2>2. CASE k > i
    <3>1. k - 1 \in 1..(Len(s) - 1) /\ ~(k - 1 < i) /\ (k - 1) + 1 = k
      BY <1>2, <2>2
    <3> QED
      BY <1>1, <3>1 DEF Range
  <2> QED
    BY <1>4, <2>1, <2>2
<1> QED
  BY <1>1, <1>3, <1>4 DEF Range, t

\* A deletion takes the row out of the table and out of the list; the first
\* of the list, which it refuses, is the first of the table.
LEMMA DelStep ==
  ASSUME BookInv, NEW i \in DOMAIN view, DelBookAddress(i), smart' = smart
  PROVE  BookInv'
<1>1. PICK b, s, id : b = book /\ s = view /\ id = view[i].id
  OBVIOUS
<1>2. /\ b \in Seq(Address) /\ b # <<>> /\ InOrder(b) /\ Len(b) \in Nat /\ Len(b) > 0
      /\ DOMAIN b = 1..Len(b)
      /\ \A k \in 1..Len(b) : b[k] \in Address /\ b[k].id <= lastId /\ b[k].id \in Nat
  BY <1>1, TableFacts, IdsAreNumbers
<1>3. /\ s \in Seq(Address) /\ DOMAIN s = 1..Len(s) /\ Len(s) \in Nat
      /\ i \in 1..Len(s)
  BY <1>1 DEF BookInv, BookTypeOK
<1> DEFINE c == Without(b, id)
           t == RemoveAt(s, i)
           m == {a \in manager : a.index # s[i].index}
<1>4. /\ form = "update" /\ i # 1 /\ form' = form /\ added' = added /\ lastId' = lastId
      /\ book' = c /\ view' = t /\ manager' = m
  BY <1>1 DEF DelBookAddress
<1>5. Shows(b, s, added) /\ added = <<>> /\ manager \subseteq Address
  BY <1>1, <1>4 DEF BookInv, BookTypeOK, Opened
<1>6. id > b[1].id
  BY <1>1, <1>3, <1>4, <1>5 DEF Shows
<1>7. b[1].id # id
  BY <1>2, <1>6
<1>8. /\ c \in Seq(Address) /\ InOrder(c) /\ c # <<>> /\ c[1] = b[1]
      /\ Range(c) = {a \in Range(b) : a.id # id}
  BY <1>2, <1>7, WithoutFacts
<1>9. /\ t \in Seq(Address) /\ Len(t) = Len(s) - 1
      /\ \A k \in 1..(Len(s) - 1) : t[k] = IF k < i THEN s[k] ELSE s[k + 1]
      /\ \A k \in 1..Len(s) : k # i => s[k] \in Range(t)
  BY <1>3, RemoveAtFacts, RestOfRange
<1> HIDE DEF c, t, m
<1>10. Shows(c, t, <<>>)
  <2>1. Range(c) \subseteq Range(t)
    <3>1. ASSUME NEW a \in Range(c)
          PROVE  a \in Range(t)
      <4>1. a \in Range(s) /\ a.id # id
        BY <1>5, <1>8 DEF Shows
      <4>2. PICK k \in 1..Len(s) : s[k] = a
        BY <1>3, <4>1 DEF Range
      <4>3. k # i
        BY <1>1, <4>1, <4>2
      <4> QED
        BY <1>9, <4>2, <4>3
    <3> QED
      BY <3>1
  <2>2. t # <<>> /\ t[1] = s[1]
    <3>1. 1 \in 1..(Len(s) - 1) /\ 1 < i
      BY <1>3, <1>4
    <3> QED
      BY <1>9, <3>1
  <2>3. ASSUME NEW k \in 2..Len(t)
        PROVE  t[k].id > b[1].id
    <3>1. k \in 1..(Len(s) - 1) /\ k \in 2..Len(s) /\ k + 1 \in 2..Len(s)
      BY <1>3, <1>9
    <3> QED
      BY <1>5, <1>9, <3>1 DEF Shows
  <2> QED
    BY <1>5, <1>8, <2>1, <2>2, <2>3 DEF Shows
<1>11. BookTypeOK'
  <2>1. DOMAIN c = 1..Len(c)
    BY <1>8
  <2>2. \A k, n \in DOMAIN c : k < n => c[k].id < c[n].id
    BY <1>8, <2>1 DEF InOrder
  <2>3. \A a \in Range(c) : a.id <= lastId
    BY <1>2, <1>8 DEF Range
  <2> QED
    BY <1>4, <1>5, <1>8, <1>9, <2>2, <2>3 DEF BookInv, BookTypeOK, m
<1>12. Opened'
  BY <1>4, <1>5, <1>10 DEF Opened
\* What is left of the table of a mnemonic's wallet.
<1>13. ASSUME ~smart
       PROVE  /\ s = b /\ c = t
              /\ \A k, n \in 1..Len(b) : b[k].index = b[n].index => k = n
  <2>1. s = b
    BY <1>1, <1>4, <1>13 DEF BookInv, Plain
  <2>2. /\ Position(b, id) \in 0..Len(b)
        /\ Position(b, id) = 0 => \A k \in 1..Len(b) : b[k].id # id
        /\ Position(b, id) # 0 => b[Position(b, id)].id = id
    BY <1>2, PositionFacts
  <2>3. i \in 1..Len(b) /\ b[i].id = id
    BY <1>1, <1>3, <2>1
  <2>4. Position(b, id) # 0 /\ Position(b, id) = i
    BY <1>2, <2>2, <2>3, OrderIsDistinct
  <2>5. c = t
    BY <1>3, <2>1, <2>4 DEF Without, c, t
  <2>6. \A k, n \in 1..Len(b) : b[k].index = b[n].index => k = n
    BY <1>1, <1>2, <1>13 DEF BookInv, IndicesAreUnique
  <2> QED
    BY <2>1, <2>5, <2>6
<1>14. Plain'
  <2>1. SUFFICES ASSUME ~smart
                 PROVE  t = c /\ Indices(m) = Indices(Range(c))
    BY <1>4 DEF Plain
  <2>2. Indices(manager) = Indices(Range(b))
    BY <1>1, <1>4, <2>1 DEF BookInv, Plain
  <2>3. s = b /\ i \in 1..Len(b) /\ b[i].id = id
    BY <1>1, <1>3, <1>13, <2>1
  <2>4. Indices(m) = {x \in Indices(manager) : x # b[i].index}
    BY <2>3 DEF Indices, m
  <2>5. \A k \in 1..Len(b) : b[k].index # b[i].index <=> b[k].id # id
    <3>1. ASSUME NEW k \in 1..Len(b)
          PROVE  b[k].index # b[i].index <=> b[k].id # id
      <4>1. b[k].index = b[i].index => k = i
        BY <1>13, <2>1, <2>3
      <4>2. b[k].id = b[i].id => k = i
        BY <1>2, <2>3, OrderIsDistinct
      <4> QED
        BY <2>3, <4>1, <4>2
    <3> QED
      BY <3>1
  <2>6. \A a \in Range(b) : a.index # b[i].index <=> a.id # id
    BY <1>2, <2>5 DEF Range
  <2>7. Indices(Range(c)) = {x \in Indices(Range(b)) : x # b[i].index}
    BY <1>8, <2>6 DEF Indices
  <2> QED
    BY <1>13, <2>1, <2>2, <2>4, <2>7
<1>15. IndicesAreUnique'
  <2>1. SUFFICES ASSUME ~smart
                 PROVE  \A k, n \in DOMAIN t : t[k].index = t[n].index => k = n
    BY <1>4, <1>13 DEF IndicesAreUnique
  <2>2. DOMAIN t = 1..(Len(s) - 1)
    BY <1>9
  <2>3. SUFFICES ASSUME NEW k \in 1..(Len(s) - 1), NEW n \in 1..(Len(s) - 1),
                        t[k].index = t[n].index
                 PROVE  k = n
    BY <2>2
  <2> DEFINE from(x) == IF x < i THEN x ELSE x + 1
  <2>4. /\ from(k) \in 1..Len(s) /\ from(n) \in 1..Len(s)
        /\ from(k) = from(n) => k = n
    BY <1>3
  <2>5. t[k] = s[from(k)] /\ t[n] = s[from(n)]
    BY <1>9
  <2>6. from(k) = from(n)
    BY <1>13, <2>1, <2>3, <2>4, <2>5
  <2> QED
    BY <2>4, <2>6
<1> QED
  BY <1>4, <1>8, <1>11, <1>12, <1>14, <1>15 DEF BookInv

LEMMA NextBook == BookInv /\ [BookNext]_bookVars => BookInv'
<1> SUFFICES ASSUME BookInv, [BookNext]_bookVars
             PROVE  BookInv'
  OBVIOUS
<1>1. smart' = smart
  BY DEF BookNext, bookVars
<1>2. CASE OpenBook
  BY <1>1, <1>2, OpenStep
<1>3. CASE CloseBook \/ OpenDialog \/ CancelDialog \/ UNCHANGED bookVars
  BY <1>1, <1>3, QuietFormStep
<1>4. CASE \E n \in Label : NewAddress(n)
  BY <1>1, <1>4, NewAddressStep
<1>5. CASE \E text \in Text : AddAddresses(text)
  BY <1>1, <1>5, AddStep
<1>6. CASE \E text \in Text, n \in 0..2 : AddingFails(text, n)
  BY <1>1, <1>6, FailStep
<1>7. CASE \E i \in DOMAIN view, j \in DOMAIN book, n \in Label, v \in Value :
             EditAddress(i, j, n, v)
  BY <1>1, <1>7, EditStep
<1>8. CASE \E i \in DOMAIN view : DelBookAddress(i)
  BY <1>1, <1>8, DelStep
<1> QED
  BY <1>2, <1>3, <1>4, <1>5, <1>6, <1>7, <1>8 DEF BookNext, Add, Change

LEMMA BookAlways == BookSpec => []BookInv
  BY InitBook, NextBook, PTL DEF BookSpec
-----------------------------------------------------------------------------
\* The table, the manager and the list keep their types, and the rows of the
\* table the order of their ids.
THEOREM BookTypes == BookSpec => []BookTypeOK
<1>1. BookInv => BookTypeOK
  BY DEF BookInv
<1> QED
  BY <1>1, BookAlways, PTL

\* No index of a mnemonic is derived for two addresses that are stored
\* together.
THEOREM NoIndexTwice == BookSpec => []IndicesAreUnique
<1>1. BookInv => IndicesAreUnique
  BY DEF BookInv
<1> QED
  BY <1>1, BookAlways, PTL

\* Every row is in the list of the form, and the row that the form keeps is
\* the first of the table.
THEOREM NothingIsHidden == BookSpec => []StoredIsShown
<1>1. BookInv => StoredIsShown
  <2> SUFFICES ASSUME BookInv, form = "update"
               PROVE  Range(book) \subseteq Range(view) /\ Head(book) = Head(view)
    BY DEF StoredIsShown
  <2>1. Shows(book, view, added)
    BY DEF BookInv, Opened
  <2>2. /\ book \in Seq(Address) /\ book # <<>>
        /\ view \in Seq(Address) /\ view # <<>>
    BY <2>1 DEF BookInv, BookTypeOK, Shows
  <2> QED
    BY <2>1, <2>2 DEF Shows
<1> QED
  BY <1>1, BookAlways, PTL

\* The list of a mnemonic's wallet has nothing that is not stored.
THEOREM NothingIsMadeUp == BookSpec => []ShownIsStored
<1>1. BookInv => ShownIsStored
  BY DEF BookInv, Plain, ShownIsStored
<1> QED
  BY <1>1, BookAlways, PTL
=============================================================================
