---------------------------- MODULE MCPaneInput ----------------------------
(***************************************************************************)
(* Instances of PaneInput for TLC.                                         *)
(***************************************************************************)
EXTENDS PaneInput

CONSTANTS r1, r2, p1

TwoRequests == {r1, r2}
OnePane == {p1}

\* Both calls name the same pane; jobs contend with them for the slots.
SamePane == [r \in {r1, r2} |-> p1]
=============================================================================
