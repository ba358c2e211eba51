SPECIFICATION Spec
CONSTANTS
  pA = pA
  pB = pB
  Mac = {pA, pB}
  b1 = b1
  b2 = b2
  b3 = b3
  b4 = b4
  b5 = b5
  far = far
  Bundle = {b1, b2, b3, b4, b5}
  Node = n
  Size <- MCSize
  Comes <- MCComes
  DriftBound = 1
  Destination <- MCDestination
  Brought = {1, 3, 4}
  MaxBytes = 4
  Mortal = {b1}
  Ends = TRUE
  TryBound = 1
  SendBound = 1
  PendingBound = 1
  One = 2
  Ages = {1}
  Hellos <- MCHellos
  Scenes <- MCScenes
INVARIANTS
  SendingEndsInReport
  LookIsDue
PROPERTIES
  Accounted
CHECK_DEADLOCK FALSE
