---------------------------- MODULE WalletStore ----------------------------
(***************************************************************************)
(* The wallets and addresses in tengu.db, and the forms that create,       *)
(* rename and delete wallets: WalletRepo and AddressRepo of Database.cpp,  *)
(* NewWalletForm, ImportWalletForm, SmartWalletForm, UpdateWalletForm,     *)
(* UpdateSmartWalletForm and WalletForm.                                   *)
(*                                                                         *)
(* The forms run one at a time on the GUI thread.  A statement of SQLite   *)
(* is one action: it may fail, and the process may be killed between any   *)
(* two; what is not committed then is gone.  An exception that no form     *)
(* catches leaves the slot and ends the process.                           *)
(***************************************************************************)
EXTENDS Naturals

CONSTANTS
  Wallet,      \* ids of wallets; the table's AUTOINCREMENT uses none twice
  Name,        \* names, which stand for their hashes too
  Key,         \* what a wallet is made from: a mnemonic, a key, an address
  Phrase,      \* the keys that are mnemonics
  Random,      \* the random hash a smart wallet has instead of a key's
  None,        \* no wallet, no form, no transaction
  MaxRows      \* bound on the addresses of a wallet

ASSUME StoreAssumption ==
  /\ Phrase \subseteq Key
  /\ Random \notin Key
  /\ MaxRows \in Nat \ {0}
  /\ None \notin Wallet

VARIABLES
  running,     \* the process is up
  wallets,     \* committed rows of the wallet table
  rows,        \* committed rows of the address table: wallet and position
  used,        \* the ids that are spent
  creating,    \* the transaction of a creating form
  record,      \* walletRecord_ of the update form that is open
  removing,    \* the wallet whose removal is between its two statements
  confirmed,   \* history: the wallets whose deletion was confirmed
  thrown       \* history: an exception left a slot for another reason than
               \* a failing disk

vars == <<running, wallets, rows, used, creating, record, removing,
          confirmed, thrown>>

Row == [name : Name, hash : Name, key : Key \cup {Random}]
Transaction == [id : Wallet, row : Row, size : 1..MaxRows, done : 0..MaxRows + 1]

Stored == DOMAIN wallets

TypeOK ==
  /\ running \in BOOLEAN
  /\ Stored \subseteq used
  /\ used \subseteq Wallet
  /\ wallets \in [Stored -> Row]
  /\ rows \subseteq Wallet \X (1..MaxRows)
  /\ creating \in Transaction \cup {None}
  /\ record \in [id : Stored, name : Name, hash : Name] \cup {None}
  /\ removing \in Stored \cup {None}
  /\ confirmed \subseteq used
  /\ thrown \in BOOLEAN
  /\ ~running => creating = None /\ record = None /\ removing = None

Init ==
  /\ running = TRUE
  /\ wallets = [w \in {} |-> 0]
  /\ rows = {}
  /\ used = {}
  /\ creating = None
  /\ record = None
  /\ removing = None
  /\ confirmed = {}
  /\ thrown = FALSE
-----------------------------------------------------------------------------
\* WalletRepo::haveName and haveMnemonic count the rows with that hash.
HaveName(n) == \E w \in Stored : wallets[w].hash = n
HaveMnemonic(k) == \E w \in Stored : wallets[w].key = k

\* WalletForm is on the screen, or a form it opened to create a wallet.
Ready == running /\ creating = None /\ record = None /\ removing = None

\* ok() of the creating forms, up to the transaction's BEGIN.  New and
\* imported wallets have one address, smart wallets those of the text.
Begin(w, n, k, size) ==
  /\ Ready
  /\ w \notin used
  /\ ~HaveName(n)
  /\ k # Random => ~HaveMnemonic(k) /\ size = 1
  /\ creating' = [id |-> w, row |-> [name |-> n, hash |-> n, key |-> k],
                  size |-> size, done |-> 0]
  /\ UNCHANGED <<running, wallets, rows, used, record, removing, confirmed, thrown>>

\* An INSERT inside the transaction: the wallet, then its addresses.
Insert ==
  /\ running
  /\ creating # None
  /\ creating.done <= creating.size
  /\ creating' = [creating EXCEPT !.done = @ + 1]
  /\ UNCHANGED <<running, wallets, rows, used, record, removing, confirmed, thrown>>

\* One of them fails: the guard of the transaction rolls back.  The forms
\* for imported and smart wallets catch the exception and stay open.
InsertFails ==
  /\ running
  /\ creating # None
  /\ creating' = None
  /\ UNCHANGED <<running, wallets, rows, used, record, removing, confirmed, thrown>>

\* A mutant of Commit: the transaction is committed after the wallet's row.
CommitEarly ==
  /\ running
  /\ creating # None
  /\ creating.done > 0
  /\ wallets' = [w \in Stored \cup {creating.id} |->
                   IF w = creating.id THEN creating.row ELSE wallets[w]]
  /\ rows' = rows \cup ({creating.id} \X (1..(creating.done - 1)))
  /\ used' = used \cup {creating.id}
  /\ creating' = None
  /\ UNCHANGED <<running, record, removing, confirmed, thrown>>

\* The lambda returned true: the guard commits, and the form accepts.
Commit ==
  /\ running
  /\ creating # None
  /\ creating.done = creating.size + 1
  /\ wallets' = [w \in Stored \cup {creating.id} |->
                   IF w = creating.id THEN creating.row ELSE wallets[w]]
  /\ rows' = rows \cup ({creating.id} \X (1..creating.size))
  /\ used' = used \cup {creating.id}
  /\ creating' = None
  /\ UNCHANGED <<running, record, removing, confirmed, thrown>>
-----------------------------------------------------------------------------
\* The update form reads the wallet's row.
OpenForm(w) ==
  /\ Ready
  /\ w \in Stored
  /\ record' = [id |-> w, name |-> wallets[w].name, hash |-> wallets[w].hash]
  /\ UNCHANGED <<running, wallets, rows, used, creating, removing, confirmed, thrown>>

\* Cancel, or OK with neither the name nor the description changed.
CloseForm ==
  /\ record # None
  /\ record' = None
  /\ UNCHANGED <<running, wallets, rows, used, creating, removing, confirmed, thrown>>

\* ok() with a name that is taken: walletRecord_ keeps the hash of the name
\* it was refused, and the form stays open.
RefuseName(n) ==
  /\ record # None
  /\ n # record.name
  /\ HaveName(n)
  /\ record' = [record EXCEPT !.hash = n]
  /\ UNCHANGED <<running, wallets, rows, used, creating, removing, confirmed, thrown>>

\* A mutant of Write: the record the form writes has lost the key.
WriteBlankKey(n, h) ==
  wallets' = [wallets EXCEPT ![record.id] =
                [@ EXCEPT !.name = n, !.hash = h, !.key = Random]]

\* WalletRepo::update writes the whole record.
Write(n, h) ==
  wallets' = [wallets EXCEPT ![record.id] = [@ EXCEPT !.name = n, !.hash = h]]

\* The hash a write of the form puts into the row.
HashToWrite(n) == IF n = record.name THEN record.hash ELSE n

\* The UPDATE would give two rows one nameHash, which is a unique index.
HitsIndex(h) == \E w \in Stored \ {record.id} : wallets[w].hash = h

\* A mutant of Save: the table has no unique index.
SaveWithoutIndex(n) ==
  /\ record # None
  /\ n = record.name \/ ~HaveName(n)
  /\ Write(n, HashToWrite(n))
  /\ record' = None
  /\ UNCHANGED <<running, rows, used, creating, removing, confirmed, thrown>>

\* ok() with a free name, or with the old one and a new description.
Save(n) ==
  /\ record # None
  /\ n = record.name \/ ~HaveName(n)
  /\ ~HitsIndex(HashToWrite(n))
  /\ Write(n, HashToWrite(n))
  /\ record' = None
  /\ UNCHANGED <<running, rows, used, creating, removing, confirmed, thrown>>

\* ok() whose UPDATE violates the index: nothing catches the exception.
SaveThrows(n) ==
  /\ record # None
  /\ n = record.name \/ ~HaveName(n)
  /\ HitsIndex(HashToWrite(n))
  /\ running' = FALSE
  /\ record' = None
  /\ thrown' = TRUE
  /\ UNCHANGED <<wallets, rows, used, creating, removing, confirmed>>
-----------------------------------------------------------------------------
RowsOf(w) == {n \in 1..MaxRows : <<w, n>> \in rows}
IsFirst(w, n) == \A m \in RowsOf(w) : n <= m
IsNext(w, n) == \A m \in RowsOf(w) : m < n

\* An address form inserts a row behind the others of its wallet; wallets
\* made from a single key or address have no such form.
AddAddress(n) ==
  /\ record # None
  /\ wallets[record.id].key \in Phrase \cup {Random}
  /\ n \in 1..MaxRows
  /\ IsNext(record.id, n)
  /\ rows' = rows \cup {<<record.id, n>>}
  /\ UNCHANGED <<running, wallets, used, creating, record, removing, confirmed, thrown>>

\* delAddress refuses the first row of the view, and removes another.
DelAddress(n) ==
  /\ record # None
  /\ <<record.id, n>> \in rows
  /\ ~IsFirst(record.id, n)
  /\ rows' = rows \ {<<record.id, n>>}
  /\ UNCHANGED <<running, wallets, used, creating, record, removing, confirmed, thrown>>

\* delWallet is confirmed: WalletRepo::remove deletes the addresses.
RemoveAddresses(w) ==
  /\ Ready
  /\ w \in Stored
  /\ rows' = {r \in rows : r[1] # w}
  /\ removing' = w
  /\ confirmed' = confirmed \cup {w}
  /\ UNCHANGED <<running, wallets, used, creating, record, thrown>>

\* Then the wallet, in a statement and a transaction of its own, with which
\* the foreign key's cascade goes.
RemoveWallet ==
  /\ removing # None
  /\ wallets' = [w \in Stored \ {removing} |-> wallets[w]]
  /\ rows' = {r \in rows : r[1] # removing}
  /\ removing' = None
  /\ UNCHANGED <<running, used, creating, record, confirmed, thrown>>

\* A kill, a power cut, or a failing statement whose exception nobody catches.
Die ==
  /\ running
  /\ running' = FALSE
  /\ creating' = None
  /\ record' = None
  /\ removing' = None
  /\ UNCHANGED <<wallets, rows, used, confirmed, thrown>>

Restart ==
  /\ ~running
  /\ running' = TRUE
  /\ UNCHANGED <<wallets, rows, used, creating, record, removing, confirmed, thrown>>
-----------------------------------------------------------------------------
Create ==
  \/ \E w \in Wallet, n \in Name, k \in Key \cup {Random}, size \in 1..MaxRows :
       Begin(w, n, k, size)
  \/ Insert
  \/ InsertFails
  \/ Commit

Update ==
  \/ \E w \in Wallet : OpenForm(w)
  \/ \E n \in Name : RefuseName(n) \/ Save(n) \/ SaveThrows(n)
  \/ \E n \in 1..MaxRows : AddAddress(n) \/ DelAddress(n)
  \/ CloseForm

Delete ==
  \/ \E w \in Wallet : RemoveAddresses(w)
  \/ RemoveWallet

Next == Create \/ Update \/ Delete \/ Die \/ Restart

Spec == Init /\ [][Next]_vars
-----------------------------------------------------------------------------
\* Every wallet has an address, unless the user asked for its deletion and
\* the process died between the two statements.
EveryWalletHasAnAddress ==
  \A w \in Stored \ confirmed : RowsOf(w) # {}

\* What haveName compares is the hash of the name that is shown, and no two
\* wallets have the same.
NamesAreDistinct ==
  /\ \A w \in Stored : wallets[w].hash = wallets[w].name
  /\ \A v, w \in Stored : wallets[v].name = wallets[w].name => v = w

\* No mnemonic, key or address is in two wallets that are not smart.
KeysAreDistinct ==
  \A v, w \in Stored :
    wallets[v].key = wallets[w].key /\ wallets[v].key # Random => v = w

\* A wallet that was not confirmed for deletion stays, with its key.
OnlyConfirmedGo ==
  [][\A w \in Stored : w \in confirmed'
                       \/ (w \in Stored' /\ wallets'[w].key = wallets[w].key)]_vars

\* A name that is taken costs the user a message, not the program.
RefusalIsHarmless == ~thrown
=============================================================================
