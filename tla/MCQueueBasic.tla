---------------------------- MODULE MCQueueBasic ----------------------------
(***************************************************************************)
(* Small instances of QueueBasic: two consumers, each with a connection of *)
(* its own or both on one.                                                 *)
(***************************************************************************)
EXTENDS QueueBasic, TLC

CONSTANTS ch1, ch2, c1, c2

Apart == (c1 :> ch1) @@ (c2 :> ch2)
Together == (c1 :> ch1) @@ (c2 :> ch1)
=============================================================================
