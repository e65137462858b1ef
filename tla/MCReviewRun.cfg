SPECIFICATION Spec
CONSTANTS
  j1 = j1
  j2 = j2
  Job <- TwoJobs
  Attempts = 1
  Reflect = TRUE
  Multi = TRUE
  Tries = 2
  MaxRuns = 2
  MaxNotes = 2
INVARIANTS OnlyValidated ReviewOrComment OneReviewWhenCalm NewestShown
PROPERTIES OthersUntouched RunReturns
CHECK_DEADLOCK FALSE
