SPECIFICATION Spec
CONSTANTS
  da = da
  db = db
  guides = guides
  specs = specs
  extra = extra
  norm = norm
  m1 = m1
  m2 = m2
  Dir = {da, db}
  MaxName = 2
  SetName = {guides, specs, extra}
  Tag = {norm}
  Outside = Outside
  NoFile = NoFile
  Trees <- MCTrees
  Registries <- MCRegistries
  Jobs <- MCJobs
  Model = {m1, m2}
  Indexed = {m1}
  Off = Off
  NoStore = NoStore
  BatchSize = 2
  MaxRetries = 1
  MaxBuilds = 2
  MaxEdits = 1
  TopK = 2
  Base = 2
  Size <- MCSize
  Limits <- MCLimits
INVARIANTS
  StoreIsWhole
  NothingLostSilently
  RankingIsHonest
  NormativeLast
CHECK_DEADLOCK FALSE
