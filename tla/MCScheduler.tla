---------------------------- MODULE MCScheduler ----------------------------
(***************************************************************************)
(* The scheduler with a kernel and two or three processes.                 *)
(***************************************************************************)
EXTENDS Scheduler
============================================================================
