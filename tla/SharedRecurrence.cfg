CONSTANTS
  Token = {a, b}
  c1 = c1
  c2 = c2
  Cache = {c1, c2}
  Models <- MCHybrid
  Geometries <- MCGeometries
  MaxBatch = 2
  MaxCalls = 3
  Garbage = Garbage
  Invalid = Invalid
SPECIFICATION Spec
INVARIANT ArchitectureAgnostic
CHECK_DEADLOCK FALSE
