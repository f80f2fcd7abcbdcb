SPECIFICATION Spec
CONSTANTS
  a = a
  b = b
  c = c
  Order <- MCOrder
  Requests = {r1, r2}
INVARIANT BackIsLeastUsed
