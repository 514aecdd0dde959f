---------------------------- MODULE MCPriceSource ---------------------------
(* Two tickers, and two updates that may overtake each other. *)
EXTENDS PriceSource

CONSTANTS btc, eth, u1, u2
=============================================================================
