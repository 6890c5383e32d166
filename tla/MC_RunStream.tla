---------------------------- MODULE MC_RunStream ----------------------------
(* RunStream on small instances.                                            *)
EXTENDS RunStream
=============================================================================
