---------------------------- MODULE MCScheduler ----------------------------
(* Small instances of Scheduler for TLC: the workers as model values. *)
EXTENDS Scheduler

CONSTANTS w1, w2, w3
=============================================================================
