------------------------ MODULE MCWorkStealingQueue ------------------------
(***************************************************************************)
(* WorkStealingQueue for a few thieves and tasks.                          *)
(***************************************************************************)
EXTENDS WorkStealingQueue, TLC

\* Thieves are interchangeable, and so are tasks.
Symmetry == Permutations(Thieves) \cup Permutations(Tasks)

=============================================================================
