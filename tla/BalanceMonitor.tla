--------------------------- MODULE BalanceMonitor ---------------------------
(***************************************************************************)
(* The balance display of the wallet dock: WalletDock and its UserCard and *)
(* ValueCard, the Monitor with its refresh timer and its fetch coroutines, *)
(* the addresses of the database whose removal and change the dock listens *)
(* to, and the record SettingManager keeps between two runs of the program.*)
(*                                                                         *)
(* All of it runs on the GUI thread: a slot or a coroutine's stretch       *)
(* between two co_awaits is one action.  A fetch is outstanding from its   *)
(* co_await until its answer, its error or its five-second timeout; those  *)
(* of several fetches come in any order, and nothing cancels one.          *)
(***************************************************************************)
EXTENDS Naturals, FiniteSets, Folds, Functions

CONSTANTS
  Wallet,      \* wallets
  Address,     \* rows of the address table; ids are never used twice
  Target,      \* (chain, address string) pairs
  Chain,       \* ChainType without UNKNOWN
  Handled,     \* the chains Manager registers a handler for
  Bitcoin,     \* ChainType's value 0
  WalletOf,    \* the wallet of an address row
  TargetOf,    \* what an address row is inserted with
  ChainOf,     \* the chain of a target
  Smart,       \* the smart wallets, whose addresses are typed
  Checked,     \* the chains NewSmartAddressForm can check an address of
  None,        \* no record, no target, UNKNOWN: a default-constructed Record
  MaxFetches   \* bound on the number of fetches outstanding together

ASSUME MonitorAssumption ==
  /\ Handled \subseteq Chain
  /\ Bitcoin \in Chain
  /\ WalletOf \in [Address -> Wallet]
  /\ TargetOf \in [Address -> Target]
  /\ ChainOf \in [Target -> Chain]
  /\ Smart \subseteq Wallet
  /\ Checked \subseteq Chain
  /\ \A a, b \in Address : WalletOf[a] = WalletOf[b] =>
       ChainOf[TargetOf[a]] = ChainOf[TargetOf[b]]
  /\ None \notin Address \cup Target \cup Chain
  /\ MaxFetches \in Nat \ {0}

VARIABLES
  app,       \* "closed"; "started": the dock exists; "shown": it was shown
  stored,    \* the address rows in the database
  text,      \* the target a stored row holds
  used,      \* the rows whose ids are spent: inserted, or of a removed wallet
  settings,  \* the record in config.toml
  card,      \* record_ of the UserCard
  watched,   \* currentChain_ and currentAddress_ of the Monitor
  timerOn,   \* refreshTimer_ is active
  fetches,   \* how many fetches are outstanding for each target
  display,   \* what the ValueCard shows
  changed,   \* history: this run changed the row that config.toml names
  lost       \* history: so did an earlier one, which did not write config.toml

monitorVars == <<watched, timerOn, fetches, display>>
historyVars == <<changed, lost>>
vars == <<app, stored, text, used, settings, card, monitorVars, historyVars>>

\* The id and the address of a row, as they are copied into a card's record.
Entry(a, t) == [row |-> a, target |-> t]
Record == [row : Address, target : Target]

Blank == [kind |-> "blank"]
Value(t) == [kind |-> "value", target |-> t]
Failure(c) == [kind |-> "failure", chain |-> c]
Display == {Blank} \cup {Value(t) : t \in Target}
                   \cup {Failure(c) : c \in Chain \cup {None}}

TypeOK ==
  /\ app \in {"closed", "started", "shown"}
  /\ stored \subseteq used
  /\ used \subseteq Address
  /\ text \in [Address -> Target]
  /\ settings \in Record \cup {None}
  /\ card \in Record \cup {None}
  /\ watched \in Target \cup {None}
  /\ timerOn \in BOOLEAN
  /\ fetches \in [Target -> Nat]
  /\ display \in Display
  /\ changed \in BOOLEAN
  /\ lost \in BOOLEAN

Init ==
  /\ app = "closed"
  /\ stored = {}
  /\ text = TargetOf
  /\ used = {}
  /\ settings = None
  /\ card = None
  /\ watched = None
  /\ timerOn = FALSE
  /\ fetches = [t \in Target |-> 0]
  /\ display = Blank
  /\ changed = FALSE
  /\ lost = FALSE
-----------------------------------------------------------------------------
Outstanding == FoldFunction(+, 0, fetches)

HasHandler(t) == ChainOf[t] \in Handled

\* fetchBalance: without a handler it stops the timer and reports at once;
\* with one it runs to its co_await.
Fetch(t, timer) ==
  IF HasHandler(t)
  THEN /\ Outstanding < MaxFetches
       /\ fetches' = [fetches EXCEPT ![t] = @ + 1]
       /\ timerOn' = timer
       /\ UNCHANGED display
  ELSE /\ timerOn' = FALSE
       /\ display' = Failure(ChainOf[t])
       /\ UNCHANGED fetches

\* What the record of a card makes the monitor watch.
Watch(c) == IF c = None THEN None ELSE c.target

\* The record names one of the rows.
Names(c, rows) == c # None /\ c.row \in rows

\* A mutant of ChangeAddress: a timer that was stopped is not started.
ChangeAddressOnly(c) ==
  LET t == Watch(c)
  IN  /\ watched' = t
      /\ \/ /\ t = watched
            /\ UNCHANGED <<timerOn, fetches, display>>
         \/ /\ t # watched
            /\ t = None
            /\ display' = Failure(None)
            /\ UNCHANGED <<timerOn, fetches>>
         \/ /\ t # watched
            /\ t # None
            /\ Fetch(t, timerOn)

\* changeAddress and Monitor::setAddress.  A change starts the timer; a
\* target that is watched already is not fetched again.
ChangeAddress(c) ==
  LET t == Watch(c)
  IN  /\ watched' = t
      /\ \/ /\ t = watched
            /\ UNCHANGED <<timerOn, fetches, display>>
         \/ /\ t # watched
            /\ t = None
            /\ display' = Failure(None)
            /\ UNCHANGED <<timerOn, fetches>>
         \/ /\ t # watched
            /\ t # None
            /\ Fetch(t, TRUE)
-----------------------------------------------------------------------------
\* SettingManager reads the record; WalletDock's constructor gives it to the
\* card and makes a Monitor, whose timer runs from the start.
Launch ==
  /\ app = "closed"
  /\ app' = "started"
  /\ card' = settings
  /\ watched' = None
  /\ timerOn' = TRUE
  /\ fetches' = [t \in Target |-> 0]
  /\ display' = Blank
  /\ UNCHANGED <<stored, text, used, settings, historyVars>>

\* showEvent.
Show ==
  /\ app # "closed"
  /\ app' = "shown"
  /\ ChangeAddress(card)
  /\ UNCHANGED <<stored, text, used, settings, card, historyVars>>

\* The user picks a stored address in the WalletSelectorForm.
Select(a) ==
  /\ app = "shown"
  /\ a \in stored
  /\ card' = Entry(a, text[a])
  /\ ChangeAddress(card')
  /\ UNCHANGED <<app, stored, text, used, settings, historyVars>>

\* A form inserts an address; the dock does not listen to that.
AddAddress(a) ==
  /\ app = "shown"
  /\ a \notin used
  /\ stored' = stored \cup {a}
  /\ used' = used \cup {a}
  /\ UNCHANGED <<app, text, settings, card, monitorVars, historyVars>>

\* The rows leave the database, the signal resets the card if it shows one of
\* them (UserCard::reset), and the dock changes the monitor's address.
Remove(rows) ==
  /\ app = "shown"
  /\ rows \cap stored # {}
  /\ stored' = stored \ rows
  /\ used' = used \cup rows
  /\ card' = IF Names(card, rows) THEN None ELSE card
  /\ ChangeAddress(card')
  /\ changed' = (changed \/ Names(settings, rows))
  /\ UNCHANGED <<app, text, settings, lost>>

\* WalletRepo::remove takes every address of the wallet with it.
RemoveWallet(w) == Remove({a \in Address : WalletOf[a] = w})

\* AddressRepo::remove.
RemoveAddress(a) == Remove({a})

\* What a form may save in a row: the address it has, under another name, or,
\* in a smart wallet, another one that no row of it holds; the form of a smart
\* wallet refuses whatever it cannot check.
MayHold(a, t) ==
  IF WalletOf[a] \in Smart
  THEN /\ ChainOf[t] = ChainOf[text[a]]
       /\ ChainOf[t] \in Checked
       /\ \/ t = text[a]
          \/ \A b \in stored : WalletOf[b] = WalletOf[a] => text[b] # t
  ELSE t = text[a]

\* A mutant of UpdateAddress: changeAddress is forgotten.
UpdateCardOnly(a, t) ==
  /\ app = "shown"
  /\ a \in stored
  /\ MayHold(a, t)
  /\ text' = [text EXCEPT ![a] = t]
  /\ card' = IF Names(card, {a}) THEN Entry(a, t) ELSE card
  /\ changed' = (changed \/ (Names(settings, {a}) /\ t # text[a]))
  /\ UNCHANGED <<app, stored, used, settings, monitorVars, lost>>

\* AddressRepo::update, from the EDIT of NewAddressForm or NewSmartAddressForm:
\* the signal gives the card the saved row if it shows it (UserCard::update),
\* and the dock changes the monitor's address.
UpdateAddress(a, t) ==
  /\ app = "shown"
  /\ a \in stored
  /\ MayHold(a, t)
  /\ text' = [text EXCEPT ![a] = t]
  /\ card' = IF Names(card, {a}) THEN Entry(a, t) ELSE card
  /\ ChangeAddress(card')
  /\ changed' = (changed \/ (Names(settings, {a}) /\ t # text[a]))
  /\ UNCHANGED <<app, stored, used, settings, lost>>
-----------------------------------------------------------------------------
\* Monitor::refresh, from the timer or from the dock's menu.
Refresh ==
  /\ watched # None
  /\ Fetch(watched, timerOn)
  /\ UNCHANGED <<app, stored, text, used, settings, card, watched, historyVars>>

TimerTick == app # "closed" /\ timerOn /\ Refresh

MenuRefresh == app = "shown" /\ Refresh

\* A fetch ends with a balance, or with an error or a timeout.  The dock shows
\* whatever comes, for whichever address; a failed fetch's result has neither
\* address nor chain, and a chain left out is ChainType's value 0.
Answer(t) ==
  /\ fetches[t] > 0
  /\ fetches' = [fetches EXCEPT ![t] = @ - 1]
  /\ display' \in {Value(t), Failure(Bitcoin)}
  /\ UNCHANGED <<app, stored, text, used, settings, card, watched, timerOn,
                 historyVars>>
-----------------------------------------------------------------------------
\* Everything the process held is gone.
Forget ==
  /\ app' = "closed"
  /\ card' = None
  /\ watched' = None
  /\ timerOn' = FALSE
  /\ fetches' = [t \in Target |-> 0]
  /\ display' = Blank
  /\ changed' = FALSE
  /\ UNCHANGED <<stored, text, used>>

\* A mutant of Written: a card without an address is not worth a write.
WrittenIfChosen ==
  /\ settings' = IF card = None THEN settings ELSE card
  /\ lost' = (lost /\ card = settings)

\* writeSettings rewrites config.toml with the card's record.  Only a card that
\* is as it was read can be as wrong as the file was.
Written ==
  /\ settings' = card
  /\ lost' = (lost /\ card = settings)

\* config.toml is not reached, or not opened, and keeps its record; or it was
\* opened, and so emptied, and is not filled (read as defaults).
NotWritten ==
  /\ settings' \in {settings, None}
  /\ lost' = (settings' # None /\ (lost \/ changed))

\* ~WalletDock hands the card's record to SettingManager, whose destructor
\* writes config.toml, and goes on if it cannot.
Quit ==
  /\ app = "shown"
  /\ Written \/ NotWritten
  /\ Forget

\* Killed, before or while config.toml is written.
Crash ==
  /\ app # "closed"
  /\ NotWritten
  /\ app = "started" => UNCHANGED settings
  /\ Forget
-----------------------------------------------------------------------------
UserStep ==
  \/ Launch
  \/ Show
  \/ \E a \in Address : Select(a) \/ AddAddress(a) \/ RemoveAddress(a)
  \/ \E a \in Address, t \in Target : UpdateAddress(a, t)
  \/ \E w \in Wallet : RemoveWallet(w)
  \/ MenuRefresh
  \/ Quit
  \/ Crash

Next ==
  \/ UserStep
  \/ TimerTick
  \/ \E t \in Target : Answer(t)

SafeSpec == Init /\ [][Next]_vars

\* The event loop runs: an active timer fires, and every fetch ends, by its
\* timeout at the latest.
Spec ==
  /\ SafeSpec
  /\ WF_vars(TimerTick)
  /\ \A t \in Target : WF_vars(Answer(t))
-----------------------------------------------------------------------------
\* Properties.

\* The monitor watches what the card says, through every selection, change and
\* removal of the selected address, removal of its wallet, and restart.
MonitorFollowsCard == app = "shown" => watched = Watch(card)

\* The refresh timer runs whenever the watched address can be fetched: the
\* stop that a chain without a handler causes does not outlive that chain.
TimerRunsWhileWatched ==
  watched # None /\ HasHandler(watched) => timerOn

\* The record names a removed row, or the address a row held before.
Outdated(c) == c # None /\ ~(c.row \in stored /\ c.target = text[c.row])

\* An outdated record always comes from a run that was killed, or could not
\* write config.toml, after it had changed the very row the file names: no
\* removal and no change while the program runs leaves the card behind, and an
\* exit that writes the file leaves no such record unless it was read and never
\* touched.
OutdatedOnlyIfLost ==
  /\ Outdated(card) => card = settings /\ lost
  /\ Outdated(settings) => lost \/ changed

\* Whatever was selected before and however late its answers come, the card
\* ends up showing the watched address, or a failure, if the user stays with
\* an address whose chain has a handler.
Settles ==
  \A t \in Target : HasHandler(t) =>
    (<>[](app = "shown" /\ watched = t)
       => <>[](display \in {Value(t), Failure(Bitcoin)}))
=============================================================================
