SPECIFICATION Spec
CONSTANTS
  b0 = b0
  b1 = b1
  c1 = c1
  c2 = c2
  c3 = c3
  d1 = d1
  j1 = j1
  j2 = j2
  NoCommit = NoCommit
  Commit <- Short
  Base <- OneBase
  Anc <- MCAnc
  Forged <- MCForgedOneBase
  Job <- TwoJobs
  FullEvery = 2
  Multi = FALSE
  TargetSettled = TRUE
  MaxNotes = 2
  MaxRound = 2
SYMMETRY JobSymmetry
INVARIANT BelievedIsReviewed
