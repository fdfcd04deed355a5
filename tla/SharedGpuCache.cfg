CONSTANTS
  Token = {a, b}
  c1 = c1
  c2 = c2
  Cache = {c1, c2}
  Models <- MCDenseGpu
  Geometries <- MCGeometries
  MaxBatch = 2
  MaxCalls = 3
  Garbage = Garbage
  Invalid = Invalid
SPECIFICATION Spec
INVARIANT WrittenBeforeRead
CHECK_DEADLOCK FALSE
