SPECIFICATION Spec
CONSTANTS
  b0 = b0
  b1 = b1
  c1 = c1
  c2 = c2
  c3 = c3
  d1 = d1
  j1 = j1
  j2 = j2
  NoCommit = NoCommit
  Commit <- Rewritten
  Base <- TwoBases
  Anc <- MCAnc
  Forged <- MCForged
  Job <- OneJob
  FullEvery = 2
  Multi = FALSE
  TargetSettled = FALSE
  MaxNotes = 2
  MaxRound = 2
INVARIANT
  SkipIsSound
