---------------------------- MODULE MC_TeamBoard ----------------------------
(* TeamBoard on small instances: a leader, 1, and a member, 2.              *)
EXTENDS TeamBoard

\* A task for anybody, and one that waits for the first.
Chain == {[owner |-> None, deps |-> {}], [owner |-> None, deps |-> {1}]}
=============================================================================
