CONSTANTS
  Parts = {"layers"}
  Shapes <- MCShapes
  Kernels <- MCKernels
  CubeDim = 4
  MaxGrid = 3
  MaxSeq = 4
  KvBlock = 4
  Pack = 2
  Batch = 2
  Stacks <- MCStacks
  Schedules <- MCSchedules
  Scalings = {"linear"}
  Walks <- MCWalks
  NRows = 2
  Trailing = 1024
SPECIFICATION ArithmeticSpec
INVARIANT LogitsAgree
CHECK_DEADLOCK FALSE
