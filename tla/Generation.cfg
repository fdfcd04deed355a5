CONSTANTS
  a = a
  b = b
  eos = eos
  Token = {a, b, eos}
  Invalid = Invalid
  Garbage = Garbage
  c1 = c1
  Cache = {c1}
  Models <- MCModels
  Geometries <- MCGeometries
  MaxBatch = 3
  MaxCalls = 4
  Prompts <- MCPrompts
  MaxNew = 3
  MaxContext = 4
  Eos = eos
  Choices <- MCChoices
SPECIFICATION GSpec
INVARIANTS FailsForCause
PROPERTIES ImplementsReference PlacesNextToken RunEnds
CHECK_DEADLOCK FALSE
