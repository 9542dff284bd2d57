----------------------------- MODULE MCPeering -----------------------------
(***************************************************************************)
(* A peering with one binding and a few messages, breaks and restarts.     *)
(***************************************************************************)
EXTENDS Peering

CONSTANTS news
=============================================================================
