---------------------------- MODULE AddressBook ----------------------------
(***************************************************************************)
(* The addresses of one wallet, in the table and in the form that changes  *)
(* them: UpdateWalletForm with NewAddressForm for a wallet made from a     *)
(* mnemonic, UpdateSmartWalletForm with NewSmartAddressForm for a smart    *)
(* one, whose addresses the user types.  (The names the code makes up are  *)
(* all Default, which no property looks at.)                               *)
(*                                                                         *)
(* The form keeps two copies of the table, AddressManager's to choose the  *)
(* next address by and the list view's to show and to pick rows from.      *)
(* Everything here runs in slots of the GUI thread, one slot at a time.    *)
(***************************************************************************)
EXTENDS Integers, FiniteSetsExt, SequencesExt

CONSTANTS
  Value,         \* addresses; the n-th that a mnemonic derives is n
  Label,         \* names of addresses
  Default,       \* the name of the addresses of a smart wallet
  MaxAddresses,  \* bound on the addresses stored and on those shown
  MaxId          \* bound on the ids given out

ASSUME BookAssumption ==
  /\ 0..MaxAddresses - 1 \subseteq Value
  /\ Default \in Label
  /\ MaxAddresses \in Nat \ {0}
  /\ MaxId \in Nat \ {0, 1}

VARIABLES
  smart,     \* the wallet is a smart one; it never changes
  book,      \* the wallet's rows of the address table, in the order of ids
  lastId,    \* the table's AUTOINCREMENT counter
  form,      \* what is open: nothing, the update form, its dialog on top
  manager,   \* addressManager_ of the update form
  view,      \* the rows of its AddressListModel
  added      \* addresses_ of the dialog that adds smart addresses

bookVars == <<smart, book, lastId, form, manager, view, added>>

Address == [id : 1..MaxId, name : Label, value : Value, index : Nat]

Values(s) == {a.value : a \in Range(s)}

BookTypeOK ==
  /\ smart \in BOOLEAN
  /\ book \in Seq(Address) /\ view \in Seq(Address) /\ added \in Seq(Address)
  /\ manager \subseteq Address
  /\ \A i, j \in DOMAIN book : i < j => book[i].id < book[j].id
  /\ lastId \in 0..MaxId
  /\ \A a \in Range(book) : a.id <= lastId
  /\ form \in {"closed", "update", "dialog"}
  /\ form = "closed" => manager = {} /\ view = <<>>
  /\ form # "dialog" => added = <<>>

\* The texts that CryptoAddressEdit lets through: what is twice it drops.
Text == {<<v>> : v \in Value} \cup {p \in Value \X Value : p[1] # p[2]}

\* Records of a smart wallet for these addresses, numbered from the counter.
Records(text) ==
  [i \in DOMAIN text |->
     [id |-> lastId + i, name |-> Default, value |-> text[i], index |-> 0]]

\* The creating form stored the first address of a mnemonic, or those of the
\* text that makes a smart wallet.
BookInit ==
  /\ smart \in BOOLEAN
  /\ \E text \in IF smart THEN Text ELSE {<<0>>} :
       /\ book = [i \in DOMAIN text |->
                    [id |-> i, name |-> Default, value |-> text[i], index |-> 0]]
       /\ lastId = Len(text)
  /\ form = "closed"
  /\ manager = {}
  /\ view = <<>>
  /\ added = <<>>
-----------------------------------------------------------------------------
\* AddressRepo::haveName and haveAddress count rows of the wallet.
HaveLabel(n) == \E a \in Range(book) : a.name = n
HaveAddress(v) == v \in Values(book)

\* AddressManager::nextAvailableIndex: the least index that is not in use.
NextIndex == Min({n \in 0..MaxAddresses : \A a \in manager : a.index # n})

\* The update form fills both copies from the table.
OpenBook ==
  /\ form = "closed"
  /\ form' = "update"
  /\ manager' = Range(book)
  /\ view' = book
  /\ UNCHANGED <<book, lastId, added>>

\* The form is left, or the process ends: killed, by an exception no slot
\* catches, or by the edit of a row that the table does not have, which
\* dereferences a null addressRecord_.
CloseBook ==
  /\ form # "closed"
  /\ form' = "closed"
  /\ manager' = {}
  /\ view' = <<>>
  /\ added' = <<>>
  /\ UNCHANGED <<book, lastId>>

\* A mutant of NewAddress: the manager does not learn of the address.
NewAddressUnmanaged(n) ==
  /\ ~smart /\ form = "update"
  /\ Len(book) < MaxAddresses /\ lastId < MaxId
  /\ ~HaveLabel(n)
  /\ LET new == [id |-> lastId + 1, name |-> n, value |-> NextIndex, index |-> NextIndex]
     IN  book' = Append(book, new) /\ view' = Append(view, new)
  /\ lastId' = lastId + 1
  /\ UNCHANGED <<form, manager, added>>

\* newAddress of UpdateWalletForm, whose dialog derives the address at the
\* next index and inserts it under a name that is free.
NewAddress(n) ==
  /\ ~smart /\ form = "update"
  /\ Len(book) < MaxAddresses /\ lastId < MaxId
  /\ ~HaveLabel(n)
  /\ LET new == [id |-> lastId + 1, name |-> n, value |-> NextIndex, index |-> NextIndex]
     IN  /\ book' = Append(book, new)
         /\ view' = Append(view, new)
         /\ manager' = manager \cup {new}
  /\ lastId' = lastId + 1
  /\ UNCHANGED <<form, added>>
-----------------------------------------------------------------------------
\* newAddress of UpdateSmartWalletForm opens the dialog.
OpenDialog ==
  /\ smart /\ form = "update"
  /\ form' = "dialog"
  /\ UNCHANGED <<book, lastId, manager, view, added>>

CancelDialog ==
  /\ form = "dialog"
  /\ form' = "update"
  /\ added' = <<>>
  /\ UNCHANGED <<book, lastId, manager, view>>

\* The addresses of a text that the manager does not have.
IfFresh(v) == IF \A a \in manager : a.value # v THEN <<v>> ELSE <<>>
Fresh(text) == IfFresh(text[1]) \o IF Len(text) = 1 THEN <<>> ELSE IfFresh(text[2])

\* ok() of the dialog: the rows are inserted in one transaction, and the
\* update form shows what addresses_ holds.
AddAddresses(text) ==
  LET new == Records(Fresh(text))
  IN  /\ form = "dialog"
      /\ lastId + Len(new) <= MaxId
      /\ Len(book \o new) <= MaxAddresses /\ Len(view \o added \o new) <= MaxAddresses
      /\ book' = book \o new
      /\ lastId' = lastId + Len(new)
      /\ manager' = manager \cup Range(new)
      /\ view' = view \o added \o new
      /\ form' = "update"
      /\ added' = <<>>

\* A mutant of AddingFails: there is no transaction to roll back.
AddingStops(text, n) ==
  LET new == SubSeq(Records(Fresh(text)), 1, n)
  IN  /\ form = "dialog"
      /\ n <= Len(Fresh(text))
      /\ lastId + n <= MaxId /\ Len(view \o added \o new) <= MaxAddresses
      /\ book' = book \o new
      /\ lastId' = lastId + n
      /\ manager' = manager \cup Range(new)
      /\ added' = added \o new
      /\ UNCHANGED <<form, view>>

\* After n of its INSERTs the transaction fails.  The table is rolled back,
\* its counter too; the manager and addresses_ are not, and the dialog stays.
AddingFails(text, n) ==
  LET new == SubSeq(Records(Fresh(text)), 1, n)
  IN  /\ form = "dialog"
      /\ n <= Len(Fresh(text))
      /\ lastId + n <= MaxId /\ Len(view \o added \o new) <= MaxAddresses
      /\ manager' = manager \cup Range(new)
      /\ added' = added \o new
      /\ UNCHANGED <<book, lastId, form, view>>
-----------------------------------------------------------------------------
\* The first row with an id, 0 if there is none, and the rows without it.
Position(s, id) == SelectInSeq(s, LAMBDA a : a.id = id)
Without(s, id) == IF Position(s, id) = 0 THEN s ELSE RemoveAt(s, Position(s, id))

\* editAddress on the i-th row of the list, which is the table's j-th: the
\* name and, in a smart wallet, the address change to ones that are free, or
\* only the description does.  The first row of the list with that id shows
\* it; the manager is not told.
EditAddress(i, j, n, v) ==
  /\ form = "update"
  /\ view[i].id = book[j].id
  /\ n # book[j].name => ~HaveLabel(n)
  /\ v # book[j].value => smart /\ ~HaveAddress(v)
  /\ book' = [book EXCEPT ![j] = [@ EXCEPT !.name = n, !.value = v]]
  /\ view' = [view EXCEPT ![Position(view, book[j].id)] = book'[j]]
  /\ UNCHANGED <<lastId, form, manager, added>>

\* A mutant of DelBookAddress: the list keeps the row.
DelUnseen(i) ==
  /\ form = "update"
  /\ i # 1
  /\ manager' = {a \in manager : a.index # view[i].index}
  /\ book' = Without(book, view[i].id)
  /\ UNCHANGED <<lastId, form, view, added>>

\* delAddress on any row of the list but the first: the manager forgets the
\* addresses with its index, the table the row with its id.
DelBookAddress(i) ==
  /\ form = "update"
  /\ i # 1
  /\ manager' = {a \in manager : a.index # view[i].index}
  /\ book' = Without(book, view[i].id)
  /\ view' = RemoveAt(view, i)
  /\ UNCHANGED <<lastId, form, added>>
-----------------------------------------------------------------------------
Add ==
  \/ \E n \in Label : NewAddress(n)
  \/ OpenDialog
  \/ CancelDialog
  \/ \E text \in Text : AddAddresses(text) \/ \E n \in 0..2 : AddingFails(text, n)

Change ==
  \/ \E i \in DOMAIN view, j \in DOMAIN book, n \in Label, v \in Value :
       EditAddress(i, j, n, v)
  \/ \E i \in DOMAIN view : DelBookAddress(i)

BookNext ==
  /\ OpenBook \/ CloseBook \/ Add \/ Change
  /\ UNCHANGED smart

BookSpec == BookInit /\ [][BookNext]_bookVars
-----------------------------------------------------------------------------
\* No two addresses of a mnemonic's wallet are derived at one index, though
\* the index comes from a copy of the table and is free again once deleted.
IndicesAreUnique ==
  ~smart => \A i, j \in DOMAIN book : book[i].index = book[j].index => i = j

\* What is stored is in the list of the form, once no dialog covers it, and
\* the row that delAddress refuses for being the first of the list is the first
\* of the table, so that the wallet keeps an address.
StoredIsShown ==
  form = "update" =>
    /\ Range(book) \subseteq Range(view)
    /\ Head(book) = Head(view)

\* What the list of a mnemonic's wallet shows is stored.  (That of a smart one
\* may show what a failed transaction left in addresses_.)
ShownIsStored ==
  ~smart /\ form = "update" => Range(view) \subseteq Range(book)
=============================================================================
