SPECIFICATION Spec
CONSTANTS
  j1 = j1
  j2 = j2
  Job <- OneJob
  Attempts = 1
  Reflect = FALSE
  Multi = FALSE
  Tries = 2
  MaxRuns = 1
  MaxNotes = 2
INVARIANT OneReview
CHECK_DEADLOCK FALSE
