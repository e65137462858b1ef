---------------------------- MODULE MCIndexBuild ----------------------------
(* Instances of IndexBuild. *)
EXTENDS IndexBuild

CONSTANTS r1, r2, r3

ThreeRuns == {r1, r2, r3}
=============================================================================
