---------------------------- MODULE PriceSource -----------------------------
(***************************************************************************)
(* Hydra's PriceDataSource.cpp: a timer starts update coroutines, each of  *)
(* which asks a server for the prices of the ticker list, tries three      *)
(* times, and stores what came.  Everything runs on one thread; a          *)
(* coroutine's stretch between two co_awaits is one action, and between    *)
(* them the source may be stopped, started and given another list, while   *)
(* other updates overtake.  WeatherDataSource has the same coroutine with  *)
(* a fixed question.                                                       *)
(***************************************************************************)
EXTENDS Naturals, FiniteSets

CONSTANTS
  Ticker,    \* what may be asked for
  Default,   \* the tickers of the constructor
  Tries,     \* how often an update asks
  Slot,      \* bound: the updates that can be under way together
  MaxShots,  \* bound on the single shots that are to come together
  Idle       \* no update in this slot

ASSUME PriceAssumption ==
  /\ Default \subseteq Ticker
  /\ Tries \in Nat \ {0}
  /\ MaxShots \in Nat \ {0}

VARIABLES
  running,   \* running_
  timer,     \* timer_ is active
  shots,     \* how many of start()'s single shots are still to come
  tickers,   \* tickerList_
  prices,    \* the tickers prices_ has a price for
  emitted,   \* the tickers of the last dataUpdated
  update,    \* per slot: the request's tickers, its try, and what it awaits
  up,        \* the server answers
  known      \* the tickers its replies hold a price of

server == <<up, known>>
priceVars == <<running, timer, shots, tickers, prices, emitted, update, server>>

Update == [asked : SUBSET Ticker, try : 1..Tries, awaits : {"reply", "sleep"}]

PriceTypeOK ==
  /\ running \in BOOLEAN
  /\ timer \in BOOLEAN
  /\ shots \in 0..MaxShots
  /\ tickers \subseteq Ticker
  /\ prices \subseteq Ticker
  /\ emitted \subseteq Ticker
  /\ update \in [Slot -> Update \cup {Idle}]
  /\ up \in BOOLEAN
  /\ known \subseteq Ticker
  /\ timer <=> running

PriceInit ==
  /\ running = FALSE
  /\ timer = FALSE
  /\ shots = 0
  /\ tickers = Default
  /\ prices = {}
  /\ emitted = {}
  /\ update = [u \in Slot |-> Idle]
  /\ up \in BOOLEAN
  /\ known \in SUBSET Ticker
-----------------------------------------------------------------------------
\* A mutant of Start: one update, and no timer for the next ones.
StartOnce ==
  /\ ~running
  /\ shots < MaxShots
  /\ running' = TRUE
  /\ shots' = shots + 1
  /\ UNCHANGED <<timer, tickers, prices, emitted, update, server>>

Start ==
  /\ ~running
  /\ shots < MaxShots
  /\ running' = TRUE
  /\ shots' = shots + 1
  /\ timer' = TRUE
  /\ UNCHANGED <<tickers, prices, emitted, update, server>>

\* Nothing stops the updates that are under way.
Stop ==
  /\ running
  /\ running' = FALSE
  /\ timer' = FALSE
  /\ UNCHANGED <<shots, tickers, prices, emitted, update, server>>

SetTickerList(l) ==
  /\ tickers' = l
  /\ prices' = {}
  /\ UNCHANGED <<running, timer, shots, emitted, update, server>>

\* updatePrices up to its first co_await.
Ask(u) ==
  IF running /\ tickers # {}
  THEN /\ update[u] = Idle
       /\ update' = [update EXCEPT ![u] =
                       [asked |-> tickers, try |-> 1, awaits |-> "reply"]]
  ELSE UNCHANGED update

PriceTick(u) ==
  /\ timer
  /\ Ask(u)
  /\ UNCHANGED <<running, timer, shots, tickers, prices, emitted, server>>

SingleShot(u) ==
  /\ shots > 0
  /\ shots' = shots - 1
  /\ Ask(u)
  /\ UNCHANGED <<running, timer, tickers, prices, emitted, server>>
-----------------------------------------------------------------------------
\* Mutants of Reply: what was asked for is stored whole; dataUpdated is left to
\* a source that still runs.
ReplyStoresAll(u) ==
  /\ update[u] # Idle
  /\ update[u].awaits = "reply"
  /\ up
  /\ LET got == update[u].asked \cap known
     IN  /\ prices' = got
         /\ emitted' = IF got # prices THEN got ELSE emitted
  /\ update' = [update EXCEPT ![u] = Idle]
  /\ UNCHANGED <<running, timer, shots, tickers, server>>

ReplyEmitsIfRunning(u) ==
  /\ update[u] # Idle
  /\ update[u].awaits = "reply"
  /\ up
  /\ LET got == tickers \cap update[u].asked \cap known
     IN  /\ prices' = got
         /\ emitted' = IF running THEN got ELSE emitted
  /\ update' = [update EXCEPT ![u] = Idle]
  /\ UNCHANGED <<running, timer, shots, tickers, server>>

\* A good reply: the prices it holds, of tickers that were asked for and are
\* still on the list, take the place of those there were.  A timer that was stopped
\* meanwhile makes no difference.  (Values that differ for the same tickers are
\* emitted too, which leaves emitted as it is.)
Reply(u) ==
  /\ update[u] # Idle
  /\ update[u].awaits = "reply"
  /\ up
  /\ LET got == tickers \cap update[u].asked \cap known
     IN  /\ prices' = got
         /\ emitted' = IF got # prices THEN got ELSE emitted
  /\ update' = [update EXCEPT ![u] = Idle]
  /\ UNCHANGED <<running, timer, shots, tickers, server>>

\* A timeout has no error(), so it is not tried again: what the reply holds by
\* then is parsed, fails, and the update ends with errorOccurred.
ReplyTimesOut(u) ==
  /\ update[u] # Idle
  /\ update[u].awaits = "reply"
  /\ ~up
  /\ update' = [update EXCEPT ![u] = Idle]
  /\ UNCHANGED <<running, timer, shots, tickers, prices, emitted, server>>

\* An error: the coroutine sleeps, after the last try as well.
ReplyFails(u) ==
  /\ update[u] # Idle
  /\ update[u].awaits = "reply"
  /\ ~up
  /\ update' = [update EXCEPT ![u].awaits = "sleep"]
  /\ UNCHANGED <<running, timer, shots, tickers, prices, emitted, server>>

\* After the sleep: the next try with the same request, or errorOccurred.
Retry(u) ==
  /\ update[u] # Idle
  /\ update[u].awaits = "sleep"
  /\ update' = [update EXCEPT ![u] =
                  IF @.try < Tries
                  THEN [asked |-> @.asked, try |-> @.try + 1, awaits |-> "reply"]
                  ELSE Idle]
  /\ UNCHANGED <<running, timer, shots, tickers, prices, emitted, server>>

\* The server comes and goes, and so do the prices it has.
Network ==
  /\ up' \in BOOLEAN
  /\ known' \in SUBSET Ticker
  /\ UNCHANGED <<running, timer, shots, tickers, prices, emitted, update>>
-----------------------------------------------------------------------------
Resume(u) == Reply(u) \/ ReplyTimesOut(u) \/ ReplyFails(u) \/ Retry(u)

ChangeList == \E l \in SUBSET Ticker : SetTickerList(l)

PriceNext ==
  \/ Start
  \/ Stop
  \/ ChangeList
  \/ \E u \in Slot : PriceTick(u) \/ SingleShot(u) \/ Resume(u)
  \/ Network

PriceSafeSpec == PriceInit /\ [][PriceNext]_priceVars

\* The event loop runs: timers fire, and every wait of an update ends.
PriceSpec ==
  /\ PriceSafeSpec
  /\ WF_priceVars(\E u \in Slot : PriceTick(u))
  /\ WF_priceVars(\E u \in Slot : SingleShot(u))
  /\ \A u \in Slot : WF_priceVars(Resume(u))
-----------------------------------------------------------------------------
\* Properties.

\* No price is kept of a ticker that has left the list, however old the request
\* whose reply is stored.
PricesAreOfTheList == prices \subseteq tickers

\* Whoever follows dataUpdated knows what getData returns, but for the clearing
\* by setTickerList, which is not announced.
ListenersAreUpToDate == prices \in {emitted, {}}

\* What is kept is of the list, and it is what the listeners were told.
PricesAreSound == PricesAreOfTheList /\ ListenersAreUpToDate

\* While the source runs, its list is left alone and the server answers with
\* the same tickers, the source comes to hold, for good, a price of every ticker
\* of the list that the server knows: the replies to requests for earlier lists,
\* which come late, do not keep undoing that.
Converges ==
  \A l \in SUBSET Ticker \ {{}}, k \in SUBSET Ticker :
    <>[](running /\ tickers = l /\ up /\ known = k) /\ <>[][~ChangeList]_priceVars
      => <>[](prices = l \cap k)
=============================================================================
