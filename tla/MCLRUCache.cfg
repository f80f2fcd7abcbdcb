SPECIFICATION OrderSpec
CONSTANTS
  a1 = a1
  a2 = a2
  b1 = b1
  Models = {a1, a2, b1}
  ModelName <- MCModelName
  Version <- MCVersion
  Sizes = {0, 1, 2, 4}
  Capacity = 3
  PathResolves = TRUE
INVARIANTS LRUTypeOK MapMatchesList CapacityBound AccountingExact ListIsUseOrder ConfigIsList OrderKept
PROPERTY ImplementsModelCache
