----------------------------- MODULE MCFailover -----------------------------
(***************************************************************************)
(* The pair of servers, with a few starts of each.                         *)
(***************************************************************************)
EXTENDS Failover

CONSTANTS primary, backup
=============================================================================
