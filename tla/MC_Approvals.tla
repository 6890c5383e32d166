---------------------------- MODULE MC_Approvals ----------------------------
(* Approvals on small instances: one permission request, one connect request. *)
EXTENDS Approvals

CONSTANTS p1, p2, perm, conn
=============================================================================
