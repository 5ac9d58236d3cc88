---------------------------- MODULE MCScheduler ----------------------------
(***************************************************************************)
(* Scheduler for a few workers and tasks.                                  *)
(***************************************************************************)
EXTENDS Scheduler, TLC

\* Workers are interchangeable, and so are tasks.
Symmetry == Permutations(Workers) \cup Permutations(Tasks)

=============================================================================
