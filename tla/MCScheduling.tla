---------------------------- MODULE MCScheduling ----------------------------
(* A small instance of Scheduling: one task, recurring or not, whose start  *)
(* the configuration chooses, and one or two workers.                       *)
EXTENDS Scheduling, TLC

CONSTANTS daily, once, w1, w2, StartTime

MCStart == [t \in Tasks |-> StartTime]
=============================================================================
