CONSTANTS
  Parts = {"budget"}
  PageSize = 4
  Layouts <- MCLayouts
  Documents <- MCDocuments
  MaxParts = 3
  MaxSize = 3
  Digits = {"padded", "plain"}
  Files <- MCFiles
  Backends = {"cpu", "wgpu"}
  Infos <- OddInfos
  Budgets = {1000}
  KvBlock = 2
  MaxContext = 600
  NLayers = 2
  MaxSeqLen = 2
  HeadDims = {3}
  ScaleBytes = 2
  Vectors = {x, y}
  MaxRange = 2
SPECIFICATION LoadSpec
INVARIANT PlanIsTight
CHECK_DEADLOCK FALSE
