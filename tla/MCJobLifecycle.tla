-------------------------- MODULE MCJobLifecycle --------------------------
(***************************************************************************)
(* Instances of JobLifecycle for TLC.                                      *)
(***************************************************************************)
EXTENDS JobLifecycle, TLC

CONSTANTS j1, j2, j3

\* Jobs that no other constant tells apart may be permuted (safety only).
Symmetry == Permutations(Jobs \ (SudoJobs \cup Mortal))
=============================================================================
