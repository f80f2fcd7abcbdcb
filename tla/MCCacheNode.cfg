SPECIFICATION NodeSpec
CONSTANTS
  m1 = m1
  Models = {m1}
  Requests = {r1, r2}
  Sizes = {0, 1, 2}
  Capacity = 1
  PathResolves = FALSE
  MaxConcurrentModels = 1
  ModelFetchTimeout = 2
  ModelName <- MCModelName
  Version <- MCVersion
  Providers = {"s3Provider", "azBlobProvider", "diskProvider"}
  Catalogue <- MCCatalogue
  PageSize = 2
  DirSize = 1
  IntLimit = 3
  MaxEmptyPages = 1
INVARIANTS NodeTypeOK SizeExact
PROPERTIES EntersWhole EveryFetchEnds
