CONSTANTS
  Parts = {"parse", "split", "load", "release", "budget", "cache"}
  PageSize = 4
  Layouts <- MCLayouts
  Documents <- MCDocuments
  MaxParts = 3
  MaxSize = 3
  Digits = {"padded", "plain"}
  Files <- MCFiles
  Backends = {"cpu", "wgpu"}
  Infos <- MCInfos
  Budgets = {0, 1, 33, 34, 100, 500}
  KvBlock = 2
  MaxContext = 600
  NLayers = 2
  MaxSeqLen = 2
  HeadDims = {3}
  ScaleBytes = 2
  Vectors = {x, y}
  MaxRange = 2
SPECIFICATION LoadSpec
INVARIANTS PendingKeptDisjoint ConsumedReleased ParseInvertsWrite FirstDefectDecides SliceIsOfTheWhole ResidentComplete HotPathUploaded FileDecides PlanIsTightForPlainFiles
PROPERTY ImplementsStore
CHECK_DEADLOCK FALSE
