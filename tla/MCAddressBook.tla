--------------------------- MODULE MCAddressBook ---------------------------
(***************************************************************************)
(* A wallet of up to three addresses, from a mnemonic or typed, and ids    *)
(* enough for a deleted address to be added again.                         *)
(***************************************************************************)
EXTENDS AddressBook

CONSTANTS n1, n2, n3
=============================================================================
