CONSTANTS
  Token = {a, b}
  c1 = c1
  c2 = c2
  Cache = {c1, c2}
  Models <- MCModels
  Geometries <- MCGeometries
  MaxBatch = 2
  MaxCalls = 3
  Garbage = Garbage
  Invalid = Invalid
SPECIFICATION FairSpec
INVARIANTS TypeOK LogitsExact CachedPrefixExact RecurrenceInStep
PROPERTIES CommittedSlotsStable PassesEnd
CHECK_DEADLOCK FALSE
