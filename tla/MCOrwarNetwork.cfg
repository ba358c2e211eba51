SPECIFICATION Spec
CONSTANTS
  a = a
  b = b
  c = c
  Node = {a, b}
  Dests = {b, c}
  Sources = {a}
  MaxRetries = 1
  Failing <- MCFailing
  Brought <- MCBrought
  KdmTime = 1
  BundleTime = 1
  WindowBound = 1
  ListBound = 1
  AirBound = 1
INVARIANTS
  KnownHasArrived
  OpenIsTimed
CHECK_DEADLOCK FALSE
