SPECIFICATION Spec
CONSTANTS
  m1 = m1
  m2 = m2
  Models = {m1, m2}
  Requests = {r1, r2}
  Sizes = {0, 1}
  Capacity = 1
  PathResolves = TRUE
  MaxConcurrentModels = 1
  ModelFetchTimeout = 2
  ModelName <- MCModelName
  Version <- MCVersion
SYMMETRY Symmetry
INVARIANTS TypeOK LockDiscipline RequestedAtFront AwaitedIsConfigured ServingBound
PROPERTY KeepsCacheContract
