---------------------------- MODULE MCScheduler ----------------------------
(* SchedulerOccurrence on small instances. *)
EXTENDS SchedulerOccurrence, TLC

Symmetry == Permutations(OccProc)
=============================================================================
