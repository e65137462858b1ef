SPECIFICATION ReviewSpec
CONSTANTS
  k1 = k1
  k2 = k2
  NoLine = NoLine
  NoFile = NoFile
  MaxFindings = 4
  MaxInt = 7
  Chunk <- MCChunk
  Registries <- MCRegistries
  Answers <- MCAnswers
  Received <- MCReceived
  Changes <- MCChanges
  RetryAttempts = 2
  Tries = 2
  Setups <- MCSetups
  OnEviction = "fail"
INVARIANTS
  NothingSinks
  EveryFindingOnce
  ClaimsAreChecked
PROPERTY
  ReviewEnds
CHECK_DEADLOCK FALSE
