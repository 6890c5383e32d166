---------------------------- MODULE MC_Worktrees ----------------------------
(* Worktrees on small instances.                                            *)
EXTENDS Worktrees
=============================================================================
