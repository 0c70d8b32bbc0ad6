-------------------------- MODULE MCBackgroundJobs --------------------------
(* BackgroundJobs with two tasks, so that jobs overlap, and two ids.     *)
EXTENDS BackgroundJobs, TLC

CONSTANTS t1, t2

MCTasks == {t1, t2}

=============================================================================
