SPECIFICATION FairSpec
CONSTANTS
  pA = pA
  pB = pB
  Mac = {pA}
  b1 = b1
  b2 = b2
  b3 = b3
  b4 = b4
  Bundle = {b1, b2, b3, b4}
  far = far
  Node = n
  Size <- MCSize
  Comes <- MCComes
  DriftBound = 1
  Destination <- MCDestination
  MaxBytes = 4
  Mortal = {b1}
  Polling = FALSE
  Ends = TRUE
  TryBound = 1
  SendBound = 1
INVARIANTS
  SendsWhatIsHeld
  SendingEndsInReport
  LookIsDue
PROPERTIES
  Accounted
  AllIsOffered
CHECK_DEADLOCK FALSE
