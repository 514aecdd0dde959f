-------------------------- MODULE MCWebSocketSource -------------------------
(* Two symbols, three attempts, and three reconnects scheduled together. *)
EXTENDS WebSocketSource

CONSTANTS btc, eth
=============================================================================
