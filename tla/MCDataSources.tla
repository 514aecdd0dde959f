--------------------------- MODULE MCDataSources ---------------------------
(***************************************************************************)
(* Two sources, batches of two transactions, and two filters of which one  *)
(* throws.  One source may lose its connection and receive a batch and a   *)
(* half, the other receives a batch.                                       *)
(***************************************************************************)
EXTENDS DataSources

CONSTANTS c1, c2, t1, t2, f1, f2

MCMaxReceived == [s \in {c1, c2} |-> IF s = c1 THEN 3 ELSE 2]
MCMaxCalls == [s \in {c1, c2} |-> IF s = c1 THEN 2 ELSE 1]
=============================================================================
