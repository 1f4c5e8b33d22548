---------------------------- MODULE MCScheduler ----------------------------
(* Model-checking instance of Scheduler: idle, shell and two more tasks,  *)
(* a 2 Hz clock with sleep_current dividing by the same 2 (the code uses  *)
(* 100 for both), sleeps of under a second and of one second.             *)
EXTENDS Scheduler

MCSleepArgs == {1, 2}
=============================================================================
