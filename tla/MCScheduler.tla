---------------------------- MODULE MCScheduler ----------------------------
(* Instances of Scheduler for TLC. *)
EXTENDS Scheduler, TLC

(* The threads are alike, or the order of their creation makes no difference. *)
MCBirth == LET all == SetToSeq(Threads)
           IN [t \in Threads |-> CHOOSE i \in DOMAIN all : all[i] = t]
============================================================================
