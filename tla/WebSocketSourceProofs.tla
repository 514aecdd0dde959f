----------------------- MODULE WebSocketSourceProofs ------------------------
(***************************************************************************)
(* The safety of WebSocketSource for every set of symbols, every maximum   *)
(* of attempts above one and any number of scheduled reconnects.           *)
(***************************************************************************)
EXTENDS WebSocketSource, TLAPS

USE SourceAssumption

\* While it runs, a source either has its connection timeout active, or is
\* connected, or has just lost its connection: then the first reconnect of
\* ten is still to come.  NeverForgotten is not inductive without the counts:
\* a scheduled reconnect may find the attempts used up and do nothing.
Lifeline ==
  /\ socket = "connected" => running /\ ~connectTimer /\ attempts = 0
  /\ socket = "unconnected" => ~pingTimer
  /\ running /\ ~connectTimer =>
       \/ socket = "connected"
       \/ socket = "unconnected" /\ shots > 0 /\ attempts = 1

Inv ==
  /\ TypeOK
  /\ Lifeline
  /\ StoppedIsQuiet
  /\ ListIsSubscribed
  /\ PricesAreOfThisList

LEMMA ZeroIsInRange == 0 \in 0..MaxAttempts /\ 0 \in 0..MaxShots
  OBVIOUS

LEMMA InitInv == Init => Inv
<1> SUFFICES ASSUME Init
             PROVE  Inv
  OBVIOUS
<1>1. TypeOK
  BY ZeroIsInRange DEF Init, TypeOK
<1>2. Lifeline /\ StoppedIsQuiet /\ ListIsSubscribed /\ PricesAreOfThisList
  BY DEF Init, Lifeline, StoppedIsQuiet, ListIsSubscribed, PricesAreOfThisList
<1> QED
  BY <1>1, <1>2 DEF Inv

\* Scheduling keeps the counters in their ranges and counts one at least.
LEMMA ScheduleFacts ==
  ASSUME TypeOK, ScheduleIfRunning
  PROVE  /\ attempts' \in 0..MaxAttempts
         /\ shots' \in 0..MaxShots
         /\ running => shots' > 0
         /\ running /\ attempts = 0 => attempts' = 1
         /\ ~running => attempts' = attempts
  BY DEF TypeOK, ScheduleIfRunning, ScheduleReconnect

LEMMA NextInv == Inv /\ [Next]_vars => Inv'
<1> SUFFICES ASSUME Inv, [Next]_vars
             PROVE  Inv'
  OBVIOUS
<1> USE DEF Inv, TypeOK, Lifeline, StoppedIsQuiet, ListIsSubscribed,
            PricesAreOfThisList, link, data
<1>1. CASE Start
  BY <1>1 DEF Start, Open
<1>2. CASE Stop
  <2>1. TypeOK'
    <3>1. attempts' \in 0..MaxAttempts
      BY <1>2, ZeroIsInRange DEF Stop, Close
    <3>2. socket' \in {"unconnected", "connecting", "connected", "closing"}
            /\ subscribed' \subseteq Symbol
            /\ (socket' # "connected" => subscribed' = {})
      BY <1>2 DEF Stop, Close
    <3> QED
      BY <1>2, <3>1, <3>2 DEF Stop, Close
  <2>2. Lifeline'
    BY <1>2 DEF Stop, Close
  <2>3. StoppedIsQuiet' /\ ListIsSubscribed' /\ PricesAreOfThisList'
    BY <1>2 DEF Stop, Close
  <2> QED
    BY <2>1, <2>2, <2>3
<1>3. CASE \E s \in SUBSET Symbol : SetSymbolList(s)
  BY <1>3 DEF SetSymbolList
<1>4. CASE Connected
  <2>1. TypeOK'
    <3>1. attempts' \in 0..MaxAttempts
      BY <1>4, ZeroIsInRange DEF Connected
    <3>2. socket' \in {"unconnected", "connecting", "connected", "closing"}
            /\ subscribed' \subseteq Symbol
            /\ (socket' # "connected" => subscribed' = {})
      BY <1>4 DEF Connected
    <3> QED
      BY <1>4, <3>1, <3>2 DEF Connected
  <2>2. Lifeline'
    BY <1>4 DEF Connected
  <2>3. StoppedIsQuiet' /\ ListIsSubscribed' /\ PricesAreOfThisList'
    BY <1>4 DEF Connected
  <2> QED
    BY <2>1, <2>2, <2>3
<1>5. CASE Disconnected
  BY <1>5, ScheduleFacts DEF Disconnected
<1>6. CASE Shot
  <2>1. TypeOK'
    <3>1. shots' \in 0..MaxShots /\ attempts' \in 0..MaxAttempts
      BY <1>6 DEF Shot
    <3>2. CASE ~running \/ attempts >= MaxAttempts
      BY <1>6, <3>1, <3>2 DEF Shot
    <3>3. CASE ~(~running \/ attempts >= MaxAttempts)
      BY <1>6, <3>1, <3>3 DEF Shot, Open
    <3> QED
      BY <3>2, <3>3
  <2>2. Lifeline'
    BY <1>6 DEF Shot, Open
  <2>3. StoppedIsQuiet' /\ ListIsSubscribed' /\ PricesAreOfThisList'
    BY <1>6 DEF Shot, Open
  <2> QED
    BY <2>1, <2>2, <2>3
<1>7. CASE ConnectTimeout
  <2>1. TypeOK'
    BY <1>7, ScheduleFacts DEF ConnectTimeout, Close
  <2>2. Lifeline'
    BY <1>7, ScheduleFacts DEF ConnectTimeout, Close
  <2>3. StoppedIsQuiet' /\ ListIsSubscribed' /\ PricesAreOfThisList'
    BY <1>7, ScheduleFacts DEF ConnectTimeout, Close
  <2> QED
    BY <2>1, <2>2, <2>3
<1>8. CASE PingFails
  <2>1. TypeOK'
    BY <1>8, ScheduleFacts DEF PingFails
  <2>2. Lifeline'
    BY <1>8, ScheduleFacts DEF PingFails
  <2>3. StoppedIsQuiet' /\ ListIsSubscribed' /\ PricesAreOfThisList'
    BY <1>8, ScheduleFacts DEF PingFails
  <2> QED
    BY <2>1, <2>2, <2>3
<1>9. CASE \E x \in Symbol : Message(x)
  BY <1>9 DEF Message
<1>10. CASE BatchUpdate
  BY <1>10 DEF BatchUpdate
<1>11. CASE Network
  BY <1>11 DEF Network
<1>12. CASE UNCHANGED vars
  BY <1>12 DEF vars
<1> QED
  BY <1>1, <1>2, <1>3, <1>4, <1>5, <1>6, <1>7, <1>8, <1>9, <1>10, <1>11, <1>12
     DEF Next, Caller, Signal

LEMMA SafeSpecInv == SafeSpec => []Inv
  BY InitInv, NextInv, PTL DEF SafeSpec
-----------------------------------------------------------------------------
\* Every variable keeps its type.
THEOREM TypeCorrect == SafeSpec => []TypeOK
  BY SafeSpecInv, PTL DEF Inv

\* After stop() no timer of the source fires and it makes no connection.
THEOREM QuietAfterStop == SafeSpec => []StoppedIsQuiet
  BY SafeSpecInv, PTL DEF Inv

\* A running source that is not connected has a reconnect or a timeout coming.
THEOREM AlwaysALifeline == SafeSpec => []NeverForgotten
<1>1. Inv => NeverForgotten
  BY DEF Inv, Lifeline, NeverForgotten
<1> QED
  BY <1>1, SafeSpecInv, PTL

\* A connection is subscribed to every symbol of the list.
THEOREM AlwaysSubscribed == SafeSpec => []ListIsSubscribed
  BY SafeSpecInv, PTL DEF Inv

\* No price outlives a change of the symbol list.
THEOREM NoOldPrices == SafeSpec => []PricesAreOfThisList
  BY SafeSpecInv, PTL DEF Inv
=============================================================================
