SPECIFICATION FairSpec
CONSTANTS
  m1 = m1
  m2 = m2
  Models = {m1, m2}
  Requests = {r1, r2}
  Sizes = {0, 1}
  Capacity = 1
  PathResolves = FALSE
  MaxConcurrentModels = 1
  ModelFetchTimeout = 1
  ModelName <- MCModelName
  Version <- MCVersion
PROPERTY EvictionDeletes
