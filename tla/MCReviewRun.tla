---------------------------- MODULE MCReviewRun ----------------------------
(* Instances of ReviewRun. *)
EXTENDS ReviewRun

CONSTANTS j1, j2

OneJob == {j1}
TwoJobs == {j1, j2}
=============================================================================
