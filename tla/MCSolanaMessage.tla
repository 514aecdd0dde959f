-------------------------- MODULE MCSolanaMessage --------------------------
(***************************************************************************)
(* Two wallets, on either side of the token program in the order of the    *)
(* strings, a mint and a token account; the transfers both ways, both      *)
(* instructions of createTokenWithATA, and an instruction that a second    *)
(* wallet signs without being written.                                     *)
(***************************************************************************)
EXTENDS SolanaMessage

MCKey == 1..6
MCWallet == {2, 4}
MCTokenAccount == [p \in MCKey \X MCKey |-> 6]

Cosigned ==
  [program  |-> Token,
   accounts |-> <<Meta(4, TRUE, TRUE), Meta(2, TRUE, FALSE)>>,
   data     |-> <<1, 1>>]

MCInstruction ==
  {TransferInstruction(2, 4, 9), TransferInstruction(4, 5, 9),
   MintInstruction(2, 5, 2, 9), AssociatedInstruction(2, 2, 5), Cosigned}
=============================================================================
