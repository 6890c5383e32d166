---------------------------- MODULE MC_TeamCalls ----------------------------
(* TeamCalls on small instances.                                            *)
EXTENDS TeamCalls
=============================================================================
