---------------------------- MODULE MCLwm2mTasks ----------------------------
(* Lwm2mTasks with two timers, one to be deleted while the other is created. *)
EXTENDS Lwm2mTasks, TLC

CONSTANTS t1, t2

\* Timers are interchangeable.
Symmetry == Permutations(Timers)
=============================================================================
