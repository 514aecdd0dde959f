-------------------------- MODULE MCBalanceMonitor --------------------------
(***************************************************************************)
(* Two addresses of a smart wallet for Bitcoin, either of which may be     *)
(* edited to hold the other's text, and one of a Sui wallet; Manager has a *)
(* handler for Bitcoin and none for Sui.                                   *)
(***************************************************************************)
EXTENDS BalanceMonitor, TLC

CONSTANTS w1, w2, a1, a2, a3, btc1, btc2, sui1, bitcoin, sui

MCWalletOf == a1 :> w1 @@ a2 :> w1 @@ a3 :> w2
MCTargetOf == a1 :> btc1 @@ a2 :> btc2 @@ a3 :> sui1
MCChainOf == btc1 :> bitcoin @@ btc2 :> bitcoin @@ sui1 :> sui
=============================================================================
