--------------------------- MODULE MCPaneCapture ---------------------------
(***************************************************************************)
(* The instance of PaneCapture for TLC.                                    *)
(***************************************************************************)
EXTENDS PaneCapture

CONSTANT c1

OneCall == {c1}
=============================================================================
