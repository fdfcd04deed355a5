CONSTANTS
  LaneCounts = {4, 8}
  Sizes = {1, 6, 9}
  RotDims = {0, 6}
  MaxBatch = 2
  Block = 2
  Pack = 2
  Garbage = Garbage
  Unset = Unset
SPECIFICATION Spec
INVARIANTS RaceFree TotalsExact OutputExact
PROPERTY Retires
CHECK_DEADLOCK FALSE
