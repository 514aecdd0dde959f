------------------------- MODULE MCDatabaseUpgrade -------------------------
(* Release 2 alters wallets and leaves addresses; release 3, which           *)
(* applyMigrations does not know, adds a column to addresses.                *)
EXTENDS DatabaseUpgrade

CONSTANT w1

MCChange ==
  [t \in Table |-> [p \in Release \X Release |->
     IF t = "wallets" /\ p[1] = 1 /\ p[2] > 1 THEN "altered"
     ELSE IF t = "addresses" /\ p[1] < 3 /\ p[2] = 3 THEN "added"
     ELSE "same"]]
=============================================================================
