--------------------------- MODULE PollingProofs ----------------------------
(***************************************************************************)
(* The two components that ask servers by a timer.  For every set of       *)
(* wallets, addresses, targets and chains: the balance monitor follows the *)
(* card, its timer runs while there is something to fetch, and the record  *)
(* of the card is outdated only after a run that did not write config.toml.*)
(* For every set of tickers and every number of updates under way: the     *)
(* prices of Hydra's source are those of its list, and its listeners were  *)
(* told of them.                                                           *)
(***************************************************************************)
EXTENDS BalanceMonitor, PriceSource, TLAPS

-----------------------------------------------------------------------------
\* The balance monitor.

USE MonitorAssumption

\* What the value card may show.
LEMMA WhatTheCardShows ==
  /\ Blank \in Display
  /\ \A t \in Target : Value(t) \in Display
  /\ \A c \in Chain \cup {None} : Failure(c) \in Display
  BY DEF Display

\* What setAddress does to the monitor keeps its variables in their ranges, and
\* leaves the timer running if the new target can be fetched.
LEMMA ChangeAddressIsSafe ==
  ASSUME TypeOK, TimerRunsWhileWatched,
         NEW c \in Record \cup {None}, ChangeAddress(c)
  PROVE  /\ watched' = Watch(c)
         /\ watched' \in Target \cup {None}
         /\ timerOn' \in BOOLEAN
         /\ fetches' \in [Target -> Nat]
         /\ display' \in Display
         /\ watched' # None /\ HasHandler(watched') => timerOn'
<1> DEFINE t == Watch(c)
<1>1. watched' = t /\ t \in Target \cup {None}
  BY DEF ChangeAddress, Watch, Record
<1>2. CASE t = watched
  BY <1>1, <1>2 DEF ChangeAddress, TypeOK, TimerRunsWhileWatched
<1>3. CASE t # watched /\ t = None
  BY <1>1, <1>3, WhatTheCardShows DEF ChangeAddress, TypeOK
<1>4. CASE t # watched /\ t # None
  <2>1. Fetch(t, TRUE) /\ t \in Target
    BY <1>1, <1>4 DEF ChangeAddress
  <2>2. CASE HasHandler(t)
    BY <1>1, <2>1, <2>2 DEF Fetch, TypeOK
  <2>3. CASE ~HasHandler(t)
    <3>1. display' = Failure(ChainOf[t]) /\ ChainOf[t] \in Chain
      BY <2>1, <2>3 DEF Fetch
    <3>2. display' \in Display
      BY <3>1, WhatTheCardShows
    <3> QED  BY <1>1, <2>1, <2>3, <3>2 DEF Fetch, TypeOK
  <2> QED  BY <2>2, <2>3
<1> QED  BY <1>2, <1>3, <1>4

\* A refresh keeps the monitor's variables in their ranges and does not stop
\* the timer of a target that can be fetched.
LEMMA RefreshIsSafe ==
  ASSUME TypeOK, TimerRunsWhileWatched, Refresh
  PROVE  TypeOK' /\ TimerRunsWhileWatched'
<1>1. watched \in Target /\ watched' = watched /\ Fetch(watched, timerOn)
  BY DEF Refresh, TypeOK
<1>2. CASE HasHandler(watched)
  BY <1>1, <1>2 DEF Refresh, Fetch, TypeOK, TimerRunsWhileWatched, HasHandler, historyVars
<1>3. CASE ~HasHandler(watched)
  <2>1. display' = Failure(ChainOf[watched]) /\ ChainOf[watched] \in Chain
    BY <1>1, <1>3 DEF Fetch
  <2>2. display' \in Display
    BY <2>1, WhatTheCardShows
  <2> QED  BY <1>1, <1>3, <2>2
             DEF Refresh, Fetch, TypeOK, TimerRunsWhileWatched, HasHandler,
                 historyVars
<1> QED  BY <1>2, <1>3
-----------------------------------------------------------------------------
\* The inductive invariant: each part needs the ranges, and what the monitor
\* watches, the timer and the card change in the same actions.  A start finds
\* no row changed yet.
IInv ==
  /\ TypeOK
  /\ MonitorFollowsCard
  /\ TimerRunsWhileWatched
  /\ OutdatedOnlyIfLost
  /\ app = "closed" => ~changed

LEMMA InitIsSafe == Init => IInv
<1> SUFFICES ASSUME Init PROVE IInv
  OBVIOUS
<1> USE DEF Init
<1>1. TypeOK
  <2>1. fetches \in [Target -> Nat] /\ display \in Display
    BY WhatTheCardShows
  <2> QED  BY <2>1 DEF TypeOK
<1>2. MonitorFollowsCard /\ TimerRunsWhileWatched /\ OutdatedOnlyIfLost
  BY DEF MonitorFollowsCard, TimerRunsWhileWatched, OutdatedOnlyIfLost, Outdated
<1> QED  BY <1>1, <1>2 DEF IInv

\* A step of the dock that ends in changeAddress: what it does to the card, the
\* rows and the history is left to prove.
LEMMA DockStepIsSafe ==
  ASSUME IInv, app' = "shown", card' \in Record \cup {None},
         ChangeAddress(card'), UNCHANGED settings,
         stored' \subseteq used', used' \subseteq Address,
         text' \in [Address -> Target],
         changed' \in BOOLEAN, lost' \in BOOLEAN, OutdatedOnlyIfLost'
  PROVE  IInv'
<1>1. /\ watched' = Watch(card') /\ watched' \in Target \cup {None}
      /\ timerOn' \in BOOLEAN /\ fetches' \in [Target -> Nat]
      /\ display' \in Display
      /\ watched' # None /\ HasHandler(watched') => timerOn'
  BY ChangeAddressIsSafe DEF IInv
<1>2. TypeOK'
  BY <1>1 DEF IInv, TypeOK
<1>3. MonitorFollowsCard'
  BY <1>1 DEF MonitorFollowsCard, Watch
<1>4. TimerRunsWhileWatched'
  BY <1>1 DEF TimerRunsWhileWatched, HasHandler
<1> QED  BY <1>2, <1>3, <1>4 DEF IInv

\* A removal, of an address or of a wallet's addresses: the card is reset if it
\* names one of the rows, and a file that does is remembered.
LEMMA RemoveIsSafe ==
  ASSUME IInv, NEW rows \in SUBSET Address, Remove(rows)
  PROVE  IInv'
<1>1. OutdatedOnlyIfLost'
  BY DEF IInv, OutdatedOnlyIfLost, Outdated, Names, Remove
<1>2. card' \in Record \cup {None} /\ changed' \in BOOLEAN
  BY DEF IInv, TypeOK, Remove, Names
<1> QED  BY <1>1, <1>2, DockStepIsSafe DEF IInv, TypeOK, Remove

\* A change of a row: a card that shows it shows it as it is now.
LEMMA UpdateIsSafe ==
  ASSUME IInv, NEW a \in Address, NEW t \in Target, UpdateAddress(a, t)
  PROVE  IInv'
<1>1. text' = [text EXCEPT ![a] = t] /\ text \in [Address -> Target]
  BY DEF IInv, TypeOK, UpdateAddress
<1>2. OutdatedOnlyIfLost'
  <2>1. Outdated(card)' => Outdated(card) /\ UNCHANGED <<card, settings, lost>>
    BY <1>1 DEF Outdated, Entry, Names, UpdateAddress, IInv, TypeOK, Record
  <2>2. Outdated(settings)' => Outdated(settings) \/ changed'
    BY <1>1 DEF Outdated, Entry, Names, UpdateAddress, IInv, TypeOK, Record
  <2> QED  BY <2>1, <2>2 DEF OutdatedOnlyIfLost, IInv, UpdateAddress
<1>3. card' \in Record \cup {None} /\ changed' \in BOOLEAN
  BY DEF IInv, TypeOK, UpdateAddress, Names, Entry, Record
<1> QED  BY <1>1, <1>2, <1>3, DockStepIsSafe DEF IInv, TypeOK, UpdateAddress

\* A showing of the dock, or a selection.
LEMMA ChooseIsSafe ==
  ASSUME IInv, Show \/ \E a \in Address : Select(a)
  PROVE  IInv'
<1>1. CASE Show
  <2>1. OutdatedOnlyIfLost'
    BY <1>1 DEF IInv, OutdatedOnlyIfLost, Outdated, Show, historyVars
  <2> QED  BY <1>1, <2>1, DockStepIsSafe DEF IInv, TypeOK, Show, historyVars
<1>2. ASSUME NEW a \in Address, Select(a)
      PROVE  IInv'
  <2>1. OutdatedOnlyIfLost'
    BY <1>2 DEF IInv, OutdatedOnlyIfLost, Outdated, Entry, Select, historyVars
  <2>2. card' \in Record \cup {None}
    BY <1>2 DEF Select, Entry, Record, IInv, TypeOK
  <2> QED  BY <1>2, <2>1, <2>2, DockStepIsSafe DEF IInv, TypeOK, Select, historyVars
<1> QED  BY <1>1, <1>2

\* The end of a run: a file that is written holds the card, and one that is not
\* keeps what it had, or nothing.
LEMMA EndIsSafe ==
  ASSUME IInv, Forget, Written \/ NotWritten
  PROVE  IInv'
<1>1. fetches' \in [Target -> Nat] /\ display' \in Display
  BY WhatTheCardShows DEF Forget
<1>2. settings' \in Record \cup {None} /\ lost' \in BOOLEAN
  BY DEF IInv, TypeOK, Written, NotWritten
<1>3. TypeOK'
  BY <1>1, <1>2 DEF Forget, IInv, TypeOK
<1>4. MonitorFollowsCard' /\ TimerRunsWhileWatched'
  BY DEF Forget, MonitorFollowsCard, TimerRunsWhileWatched
<1>5. OutdatedOnlyIfLost'
  <2>1. CASE Written
    BY <2>1 DEF Written, Forget, IInv, OutdatedOnlyIfLost, Outdated
  <2>2. CASE NotWritten
    BY <2>2 DEF NotWritten, Forget, IInv, OutdatedOnlyIfLost, Outdated
  <2> QED  BY <2>1, <2>2
<1> QED  BY <1>3, <1>4, <1>5 DEF IInv, Forget

LEMMA StepIsSafe == IInv /\ [Next]_vars => IInv'
<1> SUFFICES ASSUME IInv, [Next]_vars PROVE IInv'
  OBVIOUS
<1> USE DEF IInv, historyVars, monitorVars
<1>1. CASE Launch
  <2>1. fetches' \in [Target -> Nat] /\ display' \in Display
    BY <1>1, WhatTheCardShows DEF Launch
  <2>2. OutdatedOnlyIfLost'
    BY <1>1 DEF Launch, OutdatedOnlyIfLost, Outdated
  <2> QED  BY <1>1, <2>1, <2>2
             DEF Launch, TypeOK, MonitorFollowsCard, TimerRunsWhileWatched
<1>2. CASE Show \/ \E a \in Address : Select(a)
  BY <1>2, ChooseIsSafe
<1>3. CASE \E a \in Address : AddAddress(a)
  <2>1. PICK a \in Address : AddAddress(a)
    BY <1>3
  <2>2. OutdatedOnlyIfLost'
    BY <2>1 DEF AddAddress, OutdatedOnlyIfLost, Outdated
  <2> QED  BY <2>1, <2>2 DEF AddAddress, TypeOK, MonitorFollowsCard,
                            TimerRunsWhileWatched, Watch, HasHandler
<1>4. CASE \E a \in Address : RemoveAddress(a)
  BY <1>4, RemoveIsSafe DEF RemoveAddress
<1>5. CASE \E w \in Wallet : RemoveWallet(w)
  BY <1>5, RemoveIsSafe DEF RemoveWallet
<1>6. CASE \E a \in Address, t \in Target : UpdateAddress(a, t)
  BY <1>6, UpdateIsSafe
<1>7. CASE Refresh
  BY <1>7, RefreshIsSafe
     DEF Refresh, MonitorFollowsCard, OutdatedOnlyIfLost, Outdated, Watch
<1>8. CASE \E t \in Target : Answer(t)
  <2>1. PICK t \in Target : Answer(t)
    BY <1>8
  <2>2. fetches' \in [Target -> Nat]
    BY <2>1 DEF Answer, TypeOK
  <2>3. display' \in Display
    BY <2>1, WhatTheCardShows DEF Answer
  <2>4. OutdatedOnlyIfLost'
    BY <2>1 DEF Answer, OutdatedOnlyIfLost, Outdated
  <2> QED  BY <2>1, <2>2, <2>3, <2>4
             DEF Answer, TypeOK, MonitorFollowsCard, TimerRunsWhileWatched,
                 Watch, HasHandler
<1>9. CASE Quit \/ Crash
  BY <1>9, EndIsSafe DEF Quit, Crash
<1>10. CASE UNCHANGED vars
  BY <1>10 DEF vars, TypeOK, MonitorFollowsCard, TimerRunsWhileWatched,
               OutdatedOnlyIfLost, Outdated, Watch, HasHandler
<1> QED  BY <1>1, <1>2, <1>3, <1>4, <1>5, <1>6, <1>7, <1>8, <1>9, <1>10
            DEF Next, UserStep, TimerTick, MenuRefresh

LEMMA Invariance == SafeSpec => []IInv
  BY InitIsSafe, StepIsSafe, PTL DEF SafeSpec
-----------------------------------------------------------------------------
\* Every variable of the dock, the monitor and the settings keeps its range.
THEOREM TypeCorrect == SafeSpec => []TypeOK
  BY Invariance, PTL DEF IInv

\* The monitor watches what the card shows: WalletDock calls changeAddress
\* after every change of the card's record.
THEOREM MonitorAlwaysFollows == SafeSpec => []MonitorFollowsCard
  BY Invariance, PTL DEF IInv

\* The timer fetchBalance stops for a chain without a handler is running again
\* whenever the watched chain has one.
THEOREM TimerNeverLost == SafeSpec => []TimerRunsWhileWatched
  BY Invariance, PTL DEF IInv

\* The card, and the record the next start reads, name a removed row or an old
\* text only if the run that changed that row was killed or could not write
\* config.toml.
THEOREM AlwaysCurrentUnlessLost == SafeSpec => []OutdatedOnlyIfLost
  BY Invariance, PTL DEF IInv
-----------------------------------------------------------------------------
\* The prices.

HIDE MonitorAssumption
USE PriceAssumption

PriceInv == PriceTypeOK /\ PricesAreSound

\* What a start of an update puts in its slot.
LEMMA AskIsTyped ==
  ASSUME PriceTypeOK, NEW u \in Slot, Ask(u)
  PROVE  update' \in [Slot -> Update \cup {Idle}]
<1>1. [asked |-> tickers, try |-> 1, awaits |-> "reply"] \in Update
  BY DEF PriceTypeOK, Update
<1> QED
  BY <1>1 DEF PriceTypeOK, Ask

\* A reply is stored for what is asked for and still on the list, whatever was
\* done to the source while the server was asked, and is announced.
LEMMA ReplyIsSound ==
  ASSUME PriceInv, NEW u \in Slot, Reply(u)
  PROVE  PriceInv'
<1> DEFINE got == tickers \cap update[u].asked \cap known
<1>1. /\ prices' = got /\ emitted' = IF got # prices THEN got ELSE emitted
      /\ update' = [update EXCEPT ![u] = Idle]
      /\ UNCHANGED <<running, timer, shots, tickers, server>>
  BY DEF Reply, server
<1>2. got \subseteq tickers /\ tickers \subseteq Ticker
  BY DEF PriceInv, PriceTypeOK
<1> HIDE DEF got
<1>3. update' \in [Slot -> Update \cup {Idle}]
  BY <1>1 DEF PriceInv, PriceTypeOK
<1>4. PriceTypeOK'
  BY <1>1, <1>2, <1>3 DEF PriceInv, PriceTypeOK, server
<1>5. PricesAreOfTheList'
  BY <1>1, <1>2 DEF PricesAreOfTheList
<1>6. ListenersAreUpToDate'
  BY <1>1 DEF PriceInv, PricesAreSound, ListenersAreUpToDate
<1> QED
  BY <1>4, <1>5, <1>6 DEF PriceInv, PricesAreSound

\* The other ways an update goes on leave the prices as they are.
LEMMA OtherResumesAreTyped ==
  ASSUME PriceTypeOK, NEW u \in Slot, ReplyTimesOut(u) \/ ReplyFails(u) \/ Retry(u)
  PROVE  /\ update' \in [Slot -> Update \cup {Idle}]
         /\ UNCHANGED <<running, timer, shots, tickers, prices, emitted, server>>
<1>1. update[u] \in Update /\ update \in [Slot -> Update \cup {Idle}]
  BY DEF PriceTypeOK, ReplyTimesOut, ReplyFails, Retry
<1>2. CASE ReplyTimesOut(u)
  BY <1>1, <1>2 DEF ReplyTimesOut
<1>3. CASE ReplyFails(u)
  <2>1. [update[u] EXCEPT !.awaits = "sleep"] \in Update
    BY <1>1 DEF Update
  <2>2. update' = [update EXCEPT ![u] = [update[u] EXCEPT !.awaits = "sleep"]]
    BY <1>1, <1>3 DEF ReplyFails
  <2> QED
    BY <1>1, <1>3, <2>1, <2>2 DEF ReplyFails
<1>4. CASE Retry(u)
  <2> DEFINE r == update[u]
             next == [asked |-> r.asked, try |-> r.try + 1, awaits |-> "reply"]
  <2>1. r.try < Tries => next \in Update
    <3>1. r \in Update
      BY <1>1
    <3> HIDE DEF r
    <3>2. r.try \in 1..Tries /\ (r.try < Tries => r.try + 1 \in 1..Tries)
      BY <3>1 DEF Update
    <3> QED
      BY <3>1, <3>2 DEF Update
  <2>2. update' = [update EXCEPT ![u] = IF r.try < Tries THEN next ELSE Idle]
    BY <1>1, <1>4 DEF Retry
  <2> HIDE DEF next, r
  <2> QED
    BY <1>1, <1>4, <2>1, <2>2 DEF Retry
<1> QED
  BY <1>2, <1>3, <1>4

LEMMA InitPrices == PriceInit => PriceInv
<1> SUFFICES ASSUME PriceInit
             PROVE  PriceInv
  OBVIOUS
<1>1. update \in [Slot -> Update \cup {Idle}] /\ shots \in 0..MaxShots
  BY DEF PriceInit
<1> QED
  BY <1>1 DEF PriceInit, PriceInv, PriceTypeOK, PricesAreSound, PricesAreOfTheList,
              ListenersAreUpToDate

LEMMA NextPrices == PriceInv /\ [PriceNext]_priceVars => PriceInv'
<1> SUFFICES ASSUME PriceInv, [PriceNext]_priceVars
             PROVE  PriceInv'
  OBVIOUS
<1> USE DEF PriceInv, PricesAreSound, PricesAreOfTheList, ListenersAreUpToDate,
            server
<1>1. CASE Start
  BY <1>1 DEF Start, PriceTypeOK
<1>2. CASE Stop
  BY <1>2 DEF Stop, PriceTypeOK
<1>3. ASSUME NEW l \in SUBSET Ticker, SetTickerList(l)
      PROVE  PriceInv'
  BY <1>3 DEF SetTickerList, PriceTypeOK
<1>4. ASSUME NEW u \in Slot, PriceTick(u) \/ SingleShot(u)
      PROVE  PriceInv'
  <2>1. update' \in [Slot -> Update \cup {Idle}]
    BY <1>4, AskIsTyped DEF PriceTick, SingleShot
  <2>2. shots' \in 0..MaxShots
    BY <1>4 DEF PriceTick, SingleShot, PriceTypeOK
  <2>3. UNCHANGED <<running, timer, tickers, prices, emitted, server>>
    BY <1>4 DEF PriceTick, SingleShot
  <2> QED
    BY <2>1, <2>2, <2>3 DEF PriceTypeOK
<1>5. ASSUME NEW u \in Slot, Resume(u)
      PROVE  PriceInv'
  <2>1. CASE Reply(u)
    BY <2>1, ReplyIsSound
  <2>2. CASE ReplyTimesOut(u) \/ ReplyFails(u) \/ Retry(u)
    BY <2>2, OtherResumesAreTyped DEF PriceTypeOK
  <2> QED
    BY <1>5, <2>1, <2>2 DEF Resume
<1>6. CASE Network
  BY <1>6 DEF Network, PriceTypeOK
<1>7. CASE UNCHANGED priceVars
  BY <1>7 DEF priceVars, PriceTypeOK
<1> QED
  BY <1>1, <1>2, <1>3, <1>4, <1>5, <1>6, <1>7 DEF PriceNext, ChangeList

\* The variables of the price source keep their types: a try is never beyond
\* the last, and the timer runs only in a source that does.
THEOREM PriceTypes == PriceSafeSpec => []PriceTypeOK
<1>1. PriceInv => PriceTypeOK
  BY DEF PriceInv
<1> QED
  BY <1>1, InitPrices, NextPrices, PTL DEF PriceSafeSpec

\* However late the replies come, however many updates are under way and
\* whatever happened to the list meanwhile, no price of another list is kept,
\* and what is kept was announced.
THEOREM PricesStaySound == PriceSafeSpec => []PricesAreSound
<1>1. PriceInv => PricesAreSound
  BY DEF PriceInv
<1> QED
  BY <1>1, InitPrices, NextPrices, PTL DEF PriceSafeSpec
=============================================================================
