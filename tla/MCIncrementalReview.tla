------------------------ MODULE MCIncrementalReview ------------------------
(* Histories for IncrementalReview.  b0 <- b1 are merge bases; c1 <- c2 <- c3  *)
(* is a branch on top of b1, and d1 is the branch rewritten.                   *)
EXTENDS IncrementalReview, TLC
CONSTANTS b0, b1, c1, c2, c3, d1, j1, j2

Parents == (b0 :> {}) @@ (b1 :> {b0}) @@ (c1 :> {b0, b1}) @@ (c2 :> {b0, b1, c1})
           @@ (c3 :> {b0, b1, c1, c2}) @@ (d1 :> {b0, b1})

MCAnc == [c \in Commit |-> ({c} \cup Parents[c]) \cap Commit]
TwoBases == {b0, b1}
OneBase == {b1}
Rewritten == {b0, b1, c1, c2, d1}
Growing == {b0, b1, c1, c2, c3}
Short == {b1, c1, c2}
OneJob == {j1}
TwoJobs == {j1, j2}
JobSymmetry == Permutations(Job)

(* A forged state line claims that the whole branch was reviewed for b0. *)
MCForged == [sha |-> c2, base |-> b0, round |-> 0]
MCForgedOneBase == [sha |-> c2, base |-> b1, round |-> 0]
=============================================================================
