-------------------------- MODULE WebSocketSource ---------------------------
(***************************************************************************)
(* Hydra's WebSocketDataSource.cpp: a stream of prices over a QWebSocket   *)
(* that is reconnected with a growing delay.  Slots, timers and the one    *)
(* coroutine run on one thread, one after the other; what interleaves are  *)
(* the socket's signals, three repeating timers, the single-shot timers of *)
(* scheduleReconnect, which nothing cancels, and the calls of Hydra.       *)
(*                                                                         *)
(* QWebSocket is modelled from its use: open() replaces whatever there     *)
(* was, without a signal, and both a connection that is lost and an        *)
(* attempt that fails or is closed end with the signal disconnected.       *)
(***************************************************************************)
EXTENDS Naturals, FiniteSets

CONSTANTS
  Symbol,        \* what may be asked for
  Default,       \* the symbols of the constructor
  MaxAttempts,   \* MAX_RECONNECT_ATTEMPTS
  MaxShots       \* bound on the reconnects scheduled together

ASSUME SourceAssumption ==
  /\ Default \subseteq Symbol
  /\ MaxAttempts \in Nat /\ MaxAttempts > 1
  /\ MaxShots \in Nat \ {0}

VARIABLES
  running,       \* running_
  socket,        \* the state of webSocket_
  pingTimer,     \* pingTimer_ is active
  batchTimer,    \* batchTimer_ is active
  connectTimer,  \* connectTimeoutTimer_ is active; it is not a single shot
  attempts,      \* reconnectAttempts_, which is only compared with the maximum
  shots,         \* how many scheduled calls of connectWebSocket are to come
  symbols,       \* symbolList_
  subscribed,    \* what the server has been asked for on this connection
  pending,       \* the symbols pendingPrices_ has a price for
  prices,        \* the symbols prices_ has a price for
  heard,         \* history: the symbols heard of since setSymbolList
  up             \* the server can be reached

link == <<socket, connectTimer, attempts, shots>>
data == <<pending, prices, heard>>
vars == <<running, link, pingTimer, batchTimer, symbols, subscribed, data, up>>

TypeOK ==
  /\ running \in BOOLEAN
  /\ socket \in {"unconnected", "connecting", "connected", "closing"}
  /\ pingTimer \in BOOLEAN
  /\ batchTimer \in BOOLEAN
  /\ connectTimer \in BOOLEAN
  /\ attempts \in 0..MaxAttempts
  /\ shots \in 0..MaxShots
  /\ symbols \subseteq Symbol
  /\ subscribed \subseteq Symbol
  /\ pending \subseteq Symbol
  /\ prices \subseteq Symbol
  /\ heard \subseteq Symbol
  /\ up \in BOOLEAN
  /\ socket # "connected" => subscribed = {}

Init ==
  /\ running = FALSE
  /\ socket = "unconnected"
  /\ pingTimer = FALSE /\ batchTimer = FALSE /\ connectTimer = FALSE
  /\ attempts = 0
  /\ shots = 0
  /\ symbols = Default
  /\ subscribed = {}
  /\ pending = {} /\ prices = {} /\ heard = {}
  /\ up \in BOOLEAN
-----------------------------------------------------------------------------
\* scheduleReconnect.  Beyond the maximum the counter goes on growing, and
\* nothing but the delay, which is left out, depends on how far.
ScheduleReconnect ==
  /\ shots < MaxShots
  /\ shots' = shots + 1
  /\ attempts' = IF attempts = MaxAttempts THEN attempts ELSE attempts + 1

ScheduleIfRunning ==
  IF running THEN ScheduleReconnect ELSE UNCHANGED <<shots, attempts>>

\* webSocket_->close().
Close ==
  /\ socket' = IF socket = "unconnected" THEN socket ELSE "closing"
  /\ subscribed' = {}

\* connectWebSocket: nothing here looks at the state of the socket.
Open ==
  /\ socket' = "connecting"
  /\ connectTimer' = TRUE
  /\ subscribed' = {}
-----------------------------------------------------------------------------
Start ==
  /\ ~running
  /\ running' = TRUE
  /\ Open
  /\ UNCHANGED <<attempts, shots, pingTimer, batchTimer, symbols, data, up>>

\* A mutant of Stop: the timeout of the attempt under way is left running.
StopForgetsTimeout ==
  /\ running
  /\ running' = FALSE
  /\ Close
  /\ pingTimer' = FALSE /\ batchTimer' = FALSE
  /\ attempts' = 0
  /\ UNCHANGED <<connectTimer, shots, symbols, data, up>>

Stop ==
  /\ running
  /\ running' = FALSE
  /\ Close
  /\ pingTimer' = FALSE /\ batchTimer' = FALSE /\ connectTimer' = FALSE
  /\ attempts' = 0
  /\ UNCHANGED <<shots, symbols, data, up>>

\* A single shot of scheduleReconnect.
Shot ==
  /\ shots > 0
  /\ shots' = shots - 1
  /\ IF ~running \/ attempts >= MaxAttempts
     THEN UNCHANGED <<socket, connectTimer, subscribed>>
     ELSE Open
  /\ UNCHANGED <<running, attempts, pingTimer, batchTimer, symbols, data, up>>

\* The signal connected.
Connected ==
  /\ socket = "connecting"
  /\ up
  /\ socket' = "connected"
  /\ attempts' = 0
  /\ connectTimer' = FALSE
  /\ subscribed' = symbols
  /\ pingTimer' = TRUE /\ batchTimer' = TRUE
  /\ UNCHANGED <<running, shots, symbols, data, up>>

\* A mutant of Disconnected: all three timers are stopped, and only an
\* established connection is reconnected.
DisconnectedOnlyIfConnected ==
  /\ \/ socket = "closing"
     \/ socket \in {"connecting", "connected"} /\ ~up
  /\ socket' = "unconnected"
  /\ subscribed' = {}
  /\ pingTimer' = FALSE /\ batchTimer' = FALSE
  /\ IF socket = "connected"
     THEN ScheduleIfRunning ELSE UNCHANGED <<shots, attempts>>
  /\ connectTimer' = FALSE
  /\ UNCHANGED <<running, symbols, data, up>>

\* The signal disconnected.
Disconnected ==
  /\ \/ socket = "closing"
     \/ socket \in {"connecting", "connected"} /\ ~up
  /\ socket' = "unconnected"
  /\ subscribed' = {}
  /\ pingTimer' = FALSE /\ batchTimer' = FALSE
  /\ ScheduleIfRunning
  /\ UNCHANGED <<running, connectTimer, symbols, data, up>>

\* connectTimeoutTimer_: the disconnected that the close() brings about
\* schedules a second reconnect.
ConnectTimeout ==
  /\ connectTimer
  /\ Close
  /\ ScheduleIfRunning
  /\ UNCHANGED <<running, connectTimer, pingTimer, batchTimer, symbols, data, up>>

\* sendPing without a connection: left on by an Open that replaced one.
PingFails ==
  /\ pingTimer
  /\ socket # "connected"
  /\ ScheduleIfRunning
  /\ UNCHANGED <<running, socket, connectTimer, pingTimer, batchTimer, symbols,
                 subscribed, data, up>>
-----------------------------------------------------------------------------
\* Mutants of SetSymbolList: the server is not told; a batch is left over.
SetSymbolListLocally(s) ==
  /\ symbols' = s
  /\ prices' = {} /\ pending' = {} /\ heard' = {}
  /\ UNCHANGED <<running, link, pingTimer, batchTimer, subscribed, up>>

SetSymbolListKeepsBatch(s) ==
  /\ symbols' = s
  /\ prices' = {} /\ heard' = {}
  /\ subscribed' = IF running /\ socket = "connected"
                   THEN subscribed \cup s ELSE subscribed
  /\ UNCHANGED <<running, link, pingTimer, batchTimer, pending, up>>

\* setSymbolList: a subscription adds to those the server has.
SetSymbolList(s) ==
  /\ symbols' = s
  /\ prices' = {} /\ pending' = {} /\ heard' = {}
  /\ subscribed' = IF running /\ socket = "connected"
                   THEN subscribed \cup s ELSE subscribed
  /\ UNCHANGED <<running, link, pingTimer, batchTimer, up>>

\* processMessage, for a price of the right message type.
Message(x) ==
  /\ socket = "connected"
  /\ x \in subscribed
  /\ pending' = pending \cup {x}
  /\ heard' = heard \cup {x}
  /\ UNCHANGED <<running, link, pingTimer, batchTimer, symbols, subscribed,
                 prices, up>>

\* batchUpdate: the batch takes the place of the prices there were.
BatchUpdate ==
  /\ batchTimer
  /\ pending # {}
  /\ prices' = pending
  /\ pending' = {}
  /\ UNCHANGED <<running, link, pingTimer, batchTimer, symbols, subscribed,
                 heard, up>>

\* The network comes and goes.
Network ==
  /\ up' = ~up
  /\ UNCHANGED <<running, link, pingTimer, batchTimer, symbols, subscribed, data>>
-----------------------------------------------------------------------------
Caller == Start \/ Stop \/ \E s \in SUBSET Symbol : SetSymbolList(s)

Signal == Connected \/ Disconnected

Next ==
  \/ Caller
  \/ Signal
  \/ Shot
  \/ ConnectTimeout
  \/ PingFails
  \/ \E x \in Symbol : Message(x)
  \/ BatchUpdate
  \/ Network

SafeSpec == Init /\ [][Next]_vars

\* The event loop runs and the socket reports how its attempts end.
Spec ==
  /\ SafeSpec
  /\ WF_vars(Signal)
  /\ WF_vars(Shot)
  /\ WF_vars(ConnectTimeout)
  /\ WF_vars(BatchUpdate)
-----------------------------------------------------------------------------
\* Properties.

\* A stopped source is quiet: no timer is left on and no connection is made,
\* whatever signal or scheduled reconnect arrives after stop().
StoppedIsQuiet ==
  ~running => /\ ~pingTimer /\ ~batchTimer /\ ~connectTimer
              /\ socket \in {"unconnected", "closing"}

\* A running source without a connection has not been forgotten: a reconnect
\* is scheduled or the connection timeout will schedule one.
NeverForgotten == running /\ socket = "unconnected" => shots > 0 \/ connectTimer

\* On an established connection the server has been asked for every symbol of
\* the list, in whichever order lists and connections came.
ListIsSubscribed == socket = "connected" => symbols \subseteq subscribed

\* Nothing received under an earlier symbol list is published.
PricesAreOfThisList == pending \cup prices \subseteq heard

\* An attempt at a server that can be reached ends within the ten seconds of
\* the connection timeout and before the next ping is due.
Timely == ConnectTimeout \/ PingFails => ~(up /\ socket = "connecting")

\* A source that keeps running with its server reachable ends up connected,
\* unless it has used up its attempts: the reconnects that are scheduled
\* twice do not make it connect over and over.
Reconnects ==
  <>[](running /\ up) /\ <>[][Timely]_vars
    => <>[](socket = "connected") \/ <>[](attempts = MaxAttempts)
=============================================================================
