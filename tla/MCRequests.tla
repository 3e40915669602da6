----------------------------- MODULE MCRequests -----------------------------
(***************************************************************************)
(* The instance of Requests for TLC.                                       *)
(***************************************************************************)
EXTENDS Requests

CONSTANTS j1, j2

TwoJobs == {j1, j2}
=============================================================================
