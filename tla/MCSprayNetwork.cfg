SPECIFICATION Spec
CONSTANTS
  s = s
  d = d
  Node = {s, d, r1, r2}
  Source = s
  Dest = d
  Initial = 7
  Again = TRUE
  TransferBound = 2
  x = x
  y = y
  Registration = {x, y}
  Home <- MCHome
  Name <- MCName
  AllocBound <- MCAllocBound
SYMMETRY Relays
INVARIANTS
  CopiesBounded
  SprayedOnce
  HandedUpOnce
  NoDanglingEndpoint
CHECK_DEADLOCK FALSE
