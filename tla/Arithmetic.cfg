CONSTANTS
  Parts = {"launch", "layers", "row"}
  Shapes <- MCShapes
  Kernels <- MCKernels
  CubeDim = 4
  MaxGrid = 3
  MaxSeq = 4
  KvBlock = 4
  Pack = 2
  Batch = 2
  Stacks <- MCStacks
  Schedules <- MCSchedules
  Scalings = {"none", "yarn"}
  Walks <- MCWalks
  NRows = 2
  Trailing = 1024
SPECIFICATION ArithmeticSpec
INVARIANTS LaunchExact PathsAgree OncePerElement AgreesWithDequant OwnBits
CHECK_DEADLOCK FALSE
