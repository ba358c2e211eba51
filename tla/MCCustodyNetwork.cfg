SPECIFICATION Spec
CONSTANTS
  s = s
  d = d
  Node = {s, d, r1, r2}
  Source = s
  Dest = d
  Routers = {"prophet", "trend"}
  Factors = {11, 20}
  Again = TRUE
  TransferBound = 2
SYMMETRY Relays
INVARIANTS
  NeverLost
  HandedUpOnce
CHECK_DEADLOCK FALSE
