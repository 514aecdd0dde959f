--------------------------- MODULE MCWalletStore ---------------------------
(***************************************************************************)
(* Two wallets at a time and one more after a deletion, three names, two   *)
(* keys of which one is a mnemonic, two addresses.                         *)
(***************************************************************************)
EXTENDS WalletStore, TLC

CONSTANTS w1, w2, w3, n1, n2, n3, k1, k2

Symmetry ==
  Permutations({w1, w2, w3}) \cup Permutations({n1, n2, n3})
=============================================================================
