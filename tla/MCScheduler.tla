---------------------------- MODULE MCScheduler ----------------------------
(***************************************************************************)
(* Scheduler on three tracked ids; node 4 has an id that is not tracked.   *)
(***************************************************************************)
EXTENDS Scheduler

\* Two statuses of equal score and one of a lower, negative score.
MCReports ==
  {[cpu_load |-> 0, ram_free_kb |-> 10, task_queue_len |-> 1],
   [cpu_load |-> 5, ram_free_kb |-> 10, task_queue_len |-> 0],
   [cpu_load |-> 6, ram_free_kb |-> 1, task_queue_len |-> 0]}
=============================================================================
