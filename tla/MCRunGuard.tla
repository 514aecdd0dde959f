----------------------------- MODULE MCRunGuard -----------------------------
(* Three processes that are started twice each. *)
EXTENDS RunGuard

CONSTANTS p1, p2, p3
=============================================================================
