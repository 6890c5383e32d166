----------------------------- MODULE MC_AcpTurn -----------------------------
(* AcpTurn on small instances.                                              *)
EXTENDS AcpTurn
CONSTANTS p1, t1
=============================================================================
