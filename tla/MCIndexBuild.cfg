SPECIFICATION Spec
CONSTANTS
  r1 = r1
  r2 = r2
  r3 = r3
  Nobody = Nobody
  Orphan = Orphan
  Run <- ThreeRuns
  MaxVersion = 1
INVARIANTS IInv OneBuilder ExitIsHonest
PROPERTIES StoreSpec NeverOlder
