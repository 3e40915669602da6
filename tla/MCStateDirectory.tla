-------------------------- MODULE MCStateDirectory --------------------------
(***************************************************************************)
(* The instance of StateDirectory for TLC.                                 *)
(***************************************************************************)
EXTENDS StateDirectory, TLC

CONSTANTS b1, b2, c1, c2, p1, p2

\* Processes of a kind are alike, and so are passwords.
Symmetry == Permutations({b1, b2}) \cup Permutations({c1, c2}) \cup Permutations({p1, p2})
=============================================================================
