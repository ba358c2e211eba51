SPECIFICATION Spec
CONSTANTS
  pA = pA
  pB = pB
  Mac = {pA, pB}
  b1 = b1
  b2 = b2
  b3 = b3
  Bundle = {b1, b2, b3}
  far = far
  Size <- MCSize
  Destination <- MCDestination
  AlwaysSendHello = FALSE
  MaxBytes = 5
  Mortal = {b1, b3}
  Polling = FALSE
  Ends = FALSE
  TryBound = 1
  SendBound = 2
INVARIANTS
  HellosWhileHolding
  LookIsDue
PROPERTIES
  OldestStay
CHECK_DEADLOCK FALSE
