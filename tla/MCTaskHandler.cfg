SPECIFICATION Spec
CONSTANTS
  h1 = h1
  h2 = h2
  k1 = k1
  k2 = k2
  Hosts = {h1, h2}
  Keys = {k1, k2}
  Preference <- MCPreference
  Requests = {r1, r2}
  Valid = {h1}
  ReplicasPerModel = 1
INVARIANTS TypeOK CallsOnOpenConn PoolExclusive FailuresCounted
PROPERTIES EveryRequestAnswered CloseEnds
